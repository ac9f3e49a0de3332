------------------------- MODULE ApprovedRepairProofs -------------------------
(***************************************************************************)
(* Proofs about ApprovedRepair, for any threads, grants, leases and number *)
(* of calls: type correctness, that a grant is good for one repair, and    *)
(* that no lease is lost; then about FidelityPage (the approved            *)
(* observations and regions a drawing is made of) and PageOutput (a page's *)
(* files).                                                                 *)
(***************************************************************************)
EXTENDS ApprovedRepair, MCPage, Sequences, TLAPS

\* The actions of the specification, one by one.
LEMMA NextActions ==
    ASSUME Next
    PROVE  \/ \E g \in Grants, op \in Operations : IssueAuthorization(g, op)
           \/ \E l \in Leases : IssueWorkspace(l)
           \/ \E l \in Leases : LoseFolder(l)
           \/ \E x \in Grants \cup Leases : Expire(x)
           \/ \E t \in Threads, g \in Grants, l \in Leases, op \in Operations : Repair(t, g, l, op)
           \/ \E t \in Threads, l \in Leases : CloseOnly(t, l)
           \/ \E t \in Threads : Validate(t)
           \/ \E t \in Threads : Consume(t)
           \/ \E t \in Threads : Erase(t)
           \/ \E t \in Threads : Create(t)
           \/ \E t \in Threads : Close(t)
           \/ \E t \in Threads : CloseDrawing(t)
           \/ \E t \in Threads : Remove(t)
BY DEF Next, Step

-----------------------------------------------------------------------------
(* Type correctness. *)

\* A call at work has a lease, and a grant if it is a repair.
Working ==
    /\ \A t \in Threads : pc[t] # "idle" => lease[t] \in Leases /\ serial[t] \in 1..MaxCalls
    /\ \A t \in Threads : pc[t] \in {"validate", "consume", "erase", "create"} =>
         grant[t] \in Grants /\ operation[t] \in Operations

Typed == TypeOK /\ Working

LEMMA TypedIssue ==
    ASSUME Typed,
           \/ \E g \in Grants, op \in Operations : IssueAuthorization(g, op)
           \/ \E l \in Leases : IssueWorkspace(l)
           \/ \E l \in Leases : LoseFolder(l)
           \/ \E x \in Grants \cup Leases : Expire(x)
    PROVE  Typed'
BY SMTT(30) DEF Typed, TypeOK, Working, IssueAuthorization, IssueWorkspace, LoseFolder, Expire,
    authorizations, workspaces, arguments, call

LEMMA TypedCalled ==
    ASSUME Typed, NEW t \in Threads, NEW g \in Grants \cup {Nothing}, NEW l \in Leases,
           NEW op \in Operations \cup {"none"}, NEW step \in {"validate", "close"},
           step = "validate" => g \in Grants /\ op \in Operations,
           Called(t, g, l, op, step)
    PROVE  Typed'
BY RepairAssumption, SMTT(30) DEF Typed, TypeOK, Working, Called, At, Pcs, Outcomes, Mutations,
    authorizations, workspaces, arguments

LEMMA TypedExecutor ==
    ASSUME Typed, NEW t \in Threads, Validate(t) \/ Consume(t) \/ Erase(t) \/ Create(t)
    PROVE  Typed'
<1>1. CASE Validate(t)
  BY <1>1, SMTT(30) DEF Typed, TypeOK, Working, Validate, At, Goto, Return, Pcs, Outcomes,
     authorizations, workspaces, arguments
<1>2. CASE Consume(t)
  BY <1>2, SMTT(30) DEF Typed, TypeOK, Working, Consume, At, Goto, Return, Pcs, Outcomes,
     authorizations, workspaces, arguments
<1>3. CASE Erase(t) \/ Create(t)
  <2>1. mutations' \subseteq Mutations
    BY <1>3, SMTT(30) DEF Typed, TypeOK, Working, Erase, Create, Mutate, Mutations, At
  <2>2. /\ pc' \in [Threads -> Pcs]
        /\ executor' \in [Threads -> {"none", "ok", "failed"}]
        /\ UNCHANGED <<arguments, outcome, authorizations, workspaces, expired, drawing, calls, closes>>
        /\ \A s \in Threads : pc'[s] # "idle" => pc[s] # "idle"
        /\ \A s \in Threads : pc'[s] \in {"validate", "consume", "erase", "create"} =>
             pc[s] \in {"validate", "consume", "erase", "create"}
    BY <1>3, SMTT(30) DEF Typed, TypeOK, Working, Erase, Create, Executed, Goto, Pcs, At, arguments
  <2> QED
    BY <2>1, <2>2, SMTT(30) DEF Typed, TypeOK, Working, authorizations, workspaces, arguments
<1> QED
  BY <1>1, <1>2, <1>3

LEMMA TypedClose ==
    ASSUME Typed, NEW t \in Threads, Close(t) \/ CloseDrawing(t) \/ Remove(t)
    PROVE  Typed'
<1>1. CASE Close(t)
  BY <1>1, SMTT(30) DEF Typed, TypeOK, Working, Close, Closed, Fail, At, Goto, Return, Pcs,
     Outcomes,
     authorizations, workspaces, arguments
<1>2. CASE CloseDrawing(t)
  BY <1>2, SMTT(30) DEF Typed, TypeOK, Working, CloseDrawing, CloseFails, Fail, At, Goto, Return,
     Pcs, Outcomes, authorizations, workspaces, arguments
<1>3. CASE Remove(t)
  BY <1>3, SMTT(30) DEF Typed, TypeOK, Working, Remove, Closed, CloseFails, Fail, At, Goto, Return,
     Pcs, Outcomes, authorizations, workspaces, arguments
<1> QED
  BY <1>1, <1>2, <1>3

\* Every variable always holds data of its kind.
LEMMA AlwaysTyped == Spec => []Typed
<1>1. Init => Typed
  BY RepairAssumption, SMTT(30) DEF Init, Typed, TypeOK, Working, Pcs, Outcomes, Mutations
<1>2. Typed /\ [Next]_vars => Typed'
  <2> SUFFICES ASSUME Typed, [Next]_vars PROVE Typed'
    OBVIOUS
  <2>1. CASE UNCHANGED vars
    BY <2>1 DEF Typed, TypeOK, Working, vars, authorizations, workspaces, call, arguments
  <2>2. CASE Next
    <3>1. ASSUME NEW t \in Threads, NEW g \in Grants, NEW l \in Leases, NEW op \in Operations,
                 Repair(t, g, l, op)
          PROVE  Typed'
      <4>1. Called(t, g, l, op, "validate")
        BY <3>1 DEF Repair
      <4> QED
        BY <4>1, TypedCalled
    <3>2. ASSUME NEW t \in Threads, NEW l \in Leases, CloseOnly(t, l)
          PROVE  Typed'
      <4>1. Called(t, Nothing, l, "none", "close")
        BY <3>2 DEF CloseOnly
      <4> QED
        BY <4>1, TypedCalled
    <3> QED
      BY <2>2, <3>1, <3>2, NextActions, TypedIssue, TypedExecutor, TypedClose
  <2> QED
    BY <2>1, <2>2
<1> QED
  BY <1>1, <1>2, PTL DEF Spec

\* Type correctness: the registries, the leases and the calls hold data of
\* their kinds.
THEOREM TypeCorrect == Spec => []TypeOK
<1>1. Typed => TypeOK
  BY DEF Typed
<1> QED
  BY <1>1, AlwaysTyped, PTL

-----------------------------------------------------------------------------
(* A grant is good for one repair. *)

Mutating(t) == pc[t] \in {"erase", "create"}

\* The grant of a call that mutates is consumed, for its operation, by this
\* call alone.
Held ==
    /\ \A t \in Threads : Mutating(t) => grant[t] \in consumed /\ operation[t] = approves[grant[t]]
    /\ \A s, t \in Threads : Mutating(s) /\ Mutating(t) /\ grant[s] = grant[t] => s = t

\* All that was ever done under the grant of such a call was done by it.
Alone ==
    \A t \in Threads, m \in mutations :
        Mutating(t) /\ m.grant = grant[t] => m.call = serial[t]

Issued == \A g \in consumed : approves[g] # "none"

OneInv == Typed /\ Issued /\ Held /\ Alone /\ OneRepairPerGrant

\* Steps that neither consume, nor issue, nor mutate, nor start to mutate.
LEMMA OneElsewhere ==
    ASSUME OneInv, UNCHANGED <<authorizations, mutations>>,
           \A t \in Threads : Mutating(t)' =>
               Mutating(t) /\ grant'[t] = grant[t] /\ operation'[t] = operation[t] /\ serial'[t] = serial[t]
    PROVE  (Issued /\ Held /\ Alone /\ OneRepairPerGrant)'
BY SMTT(30) DEF OneInv, Issued, Held, Alone, OneRepairPerGrant, authorizations

LEMMA OneIssue ==
    ASSUME OneInv, NEW g \in Grants, NEW op \in Operations, IssueAuthorization(g, op)
    PROVE  (Issued /\ Held /\ Alone /\ OneRepairPerGrant)'
<1>1. /\ UNCHANGED <<consumed, pc, grant, operation, serial, mutations>>
      /\ \A h \in consumed : approves'[h] = approves[h]
  BY SMTT(30) DEF OneInv, Typed, TypeOK, Issued, IssueAuthorization, call, arguments
<1> QED
  BY <1>1, SMTT(30) DEF OneInv, Issued, Held, Alone, OneRepairPerGrant, Mutating

LEMMA OneConsume ==
    ASSUME OneInv, NEW t \in Threads, Consume(t)
    PROVE  (Issued /\ Held /\ Alone /\ OneRepairPerGrant)'
<1>1. CASE Usable(grant[t], operation[t])
  <2>1. /\ consumed' = consumed \cup {grant[t]}
        /\ grant[t] \notin consumed /\ approves[grant[t]] = operation[t]
        /\ operation[t] \in Operations
        /\ UNCHANGED <<approves, mutations, grant, operation, serial>>
        /\ \A s \in Threads : Mutating(s)' <=> Mutating(s) \/ s = t
    BY <1>1, SMTT(30) DEF OneInv, Typed, TypeOK, Working, Consume, Usable, Goto, At, Mutating,
       arguments
  <2>2. Issued' /\ Held'
    BY <2>1, RepairAssumption, SMTT(30) DEF OneInv, Issued, Held
  <2>3. Alone'
    \* Nothing was done under a grant that is consumed only now.
    BY <2>1, SMTT(30) DEF OneInv, Alone, OneRepairPerGrant
  <2>4. OneRepairPerGrant'
    BY <2>1, SMTT(30) DEF OneInv, OneRepairPerGrant
  <2> QED
    BY <2>2, <2>3, <2>4
<1>2. CASE ~ Usable(grant[t], operation[t])
  BY <1>2, OneElsewhere, SMTT(30) DEF OneInv, Typed, TypeOK, Consume, Return, Mutating,
     authorizations, arguments
<1> QED
  BY <1>1, <1>2

LEMMA OneMutate ==
    ASSUME OneInv, NEW t \in Threads, Erase(t) \/ Create(t)
    PROVE  (Issued /\ Held /\ Alone /\ OneRepairPerGrant)'
<1>1. /\ Mutating(t)
      /\ UNCHANGED <<authorizations, grant, operation, serial>>
      /\ \A s \in Threads : Mutating(s)' => Mutating(s)
  BY SMTT(30) DEF OneInv, Typed, TypeOK, Erase, Create, Executed, Goto, At, Mutating, arguments
<1>2. \A m \in mutations' :
        \/ m \in mutations
        \/ m.call = serial[t] /\ m.grant = grant[t] /\ m.operation = operation[t]
  BY SMTT(30) DEF Erase, Create, Mutate
<1>3. Issued' /\ Held'
  BY <1>1, SMTT(30) DEF OneInv, Issued, Held, authorizations
<1>4. Alone'
  BY <1>1, <1>2, SMTT(30) DEF OneInv, Alone, Held
<1>5. OneRepairPerGrant'
  BY <1>1, <1>2, SMTT(30) DEF OneInv, Alone, Held, OneRepairPerGrant, authorizations
<1> QED
  BY <1>3, <1>4, <1>5

\* A grant is good for one repair: all that is ever done under it is done by
\* one call, whatever threads race for it and whatever expires or fails.
THEOREM GrantsAreSingleUse == Spec => []OneRepairPerGrant
<1>1. Init /\ Typed => OneInv
  BY SMTT(30) DEF Init, OneInv, Issued, Held, Alone, OneRepairPerGrant, Mutating
<1>2. OneInv /\ Typed' /\ [Next]_vars => OneInv'
  <2> SUFFICES ASSUME OneInv, Typed', [Next]_vars
               PROVE  (Issued /\ Held /\ Alone /\ OneRepairPerGrant)'
    BY DEF OneInv
  <2> DEFINE Quiet ==
        /\ UNCHANGED <<authorizations, mutations>>
        /\ \A t \in Threads : Mutating(t)' =>
             Mutating(t) /\ grant'[t] = grant[t] /\ operation'[t] = operation[t] /\ serial'[t] = serial[t]
  <2>1. CASE UNCHANGED vars
    <3>1. Quiet
      BY <2>1 DEF vars, call, arguments, Mutating
    <3> QED
      BY <3>1, OneElsewhere
  <2>2. ASSUME NEW l \in Leases, IssueWorkspace(l) \/ LoseFolder(l)
        PROVE  Quiet
    BY <2>2 DEF IssueWorkspace, LoseFolder, call, arguments, Mutating
  <2>3. ASSUME NEW x \in Grants \cup Leases, Expire(x)
        PROVE  Quiet
    BY <2>3 DEF Expire, call, arguments, Mutating
  <2>4. ASSUME NEW t \in Threads, NEW g \in Grants \cup {Nothing}, NEW l \in Leases,
               NEW op \in Operations \cup {"none"}, NEW step \in {"validate", "close"},
               Called(t, g, l, op, step)
        PROVE  Quiet
    BY <2>4, SMTT(30) DEF OneInv, Typed, TypeOK, Called, Mutating
  <2>5. ASSUME NEW t \in Threads, Validate(t)
        PROVE  Quiet
    BY <2>5, SMTT(30) DEF OneInv, Typed, TypeOK, Validate, Goto, Return, Mutating, arguments
  <2>6. ASSUME NEW t \in Threads, Close(t) \/ CloseDrawing(t) \/ Remove(t)
        PROVE  Quiet
    BY <2>6, SMTT(30) DEF OneInv, Typed, TypeOK, Close, CloseDrawing, Remove, Closed, CloseFails,
       Goto, Return, Mutating, arguments
  <2>7. CASE Next
    <3>1. \/ \E g \in Grants, op \in Operations : IssueAuthorization(g, op)
          \/ \E t \in Threads : Consume(t)
          \/ \E t \in Threads : Erase(t) \/ Create(t)
          \/ Quiet
      <4>1. ASSUME NEW t \in Threads, NEW g \in Grants, NEW l \in Leases, NEW op \in Operations,
                   Repair(t, g, l, op)
            PROVE  Quiet
        <5>1. Called(t, g, l, op, "validate")
          BY <4>1 DEF Repair
        <5> QED
          BY <5>1, <2>4
      <4>2. ASSUME NEW t \in Threads, NEW l \in Leases, CloseOnly(t, l)
            PROVE  Quiet
        <5>1. Called(t, Nothing, l, "none", "close")
          BY <4>2 DEF CloseOnly
        <5> QED
          BY <5>1, <2>4
      <4> HIDE DEF Quiet
      <4> QED
        BY <2>7, <2>2, <2>3, <2>5, <2>6, <4>1, <4>2, NextActions
    <3> QED
      BY <3>1, OneIssue, OneConsume, OneMutate, OneElsewhere
  <2> QED
    BY <2>1, <2>7
<1>3. OneInv => OneRepairPerGrant
  BY DEF OneInv
<1> QED
  BY <1>1, <1>2, <1>3, AlwaysTyped, PTL DEF Spec

-----------------------------------------------------------------------------
(* No lease is lost. *)

Closing(t) == pc[t] \in {"closing", "removing"}

\* The close of a lease belongs to the thread that holds its lock, is asked of
\* AutoCAD once, and ends in a closure or a failure, never in both.
LeaseInv ==
    /\ \A t \in Threads :
         /\ ~At(t, "idle") => state[lease[t]] # "none"
         /\ Closing(t) => /\ lock[lease[t]] = t /\ state[lease[t]] = "closing"
                          /\ lease[t] \notin closure \cup failure
         /\ At(t, "closing") => closes[lease[t]] = 0
         /\ At(t, "removing") => closes[lease[t]] = 1 /\ lease[t] \notin drawing
    /\ \A l \in Leases :
         /\ closes[l] # 0 =>
              /\ closes[l] = 1
              /\ l \in closure \cup failure \/ \E t \in Threads : At(t, "removing") /\ lease[t] = l
         /\ state[l] = "closing" => \E t \in Threads : Closing(t) /\ lease[t] = l
         /\ state[l] = "closed" => l \in closure
         /\ l \in closure => state[l] = "closed" /\ l \notin folder \cup drawing \cup failure

\* Steps that leave the leases alone, and nobody begins or ends a close.
LEMMA LeaseElsewhere ==
    ASSUME Typed, LeaseInv, UNCHANGED <<state, closure, failure, lock, lease, closes>>,
           folder' \subseteq folder, drawing' \subseteq drawing,
           \A t \in Threads : /\ At(t, "closing")' <=> At(t, "closing")
                              /\ At(t, "removing")' <=> At(t, "removing")
                              /\ ~At(t, "idle")' => ~At(t, "idle")
    PROVE  LeaseInv'
<1>1. \A t \in Threads : Closing(t)' <=> Closing(t)
  BY DEF Closing, At
<1> QED
  BY <1>1, SMTT(30) DEF LeaseInv

LEMMA LeaseIssue ==
    ASSUME Typed, LeaseInv, NEW l \in Leases, IssueWorkspace(l)
    PROVE  LeaseInv'
<1>1. /\ state[l] = "none" /\ state' = [state EXCEPT ![l] = "active"]
      /\ folder' = folder \cup {l} /\ drawing' = drawing \cup {l}
      /\ UNCHANGED <<closure, failure, lock, closes, pc, lease>>
  BY DEF IssueWorkspace, call, arguments
<1>2. \A k \in Leases : state'[k] = IF k = l THEN "active" ELSE state[k]
  BY <1>1 DEF Typed, TypeOK
<1>3. l \notin closure /\ \A t \in Threads : ~At(t, "idle") => lease[t] # l /\ lease[t] \in Leases
  BY <1>1 DEF LeaseInv, Typed, Working, At
<1>4. \A t \in Threads : Closing(t) \/ At(t, "closing") \/ At(t, "removing") => ~At(t, "idle")
  BY DEF Closing, At
<1> QED
  BY <1>1, <1>2, <1>3, <1>4, SMTT(30) DEF LeaseInv, Closing, At

LEMMA LeaseCalled ==
    ASSUME Typed, LeaseInv, NEW t \in Threads, NEW g \in Grants \cup {Nothing}, NEW l \in Leases,
           NEW op \in Operations \cup {"none"}, NEW step \in {"validate", "close"},
           state[l] # "none", Called(t, g, l, op, step)
    PROVE  LeaseInv'
<1>1. /\ At(t, "idle") /\ pc'[t] = step /\ lease'[t] = l
      /\ \A s \in Threads \ {t} : pc'[s] = pc[s] /\ lease'[s] = lease[s]
      /\ UNCHANGED <<state, closure, failure, folder, drawing, lock, closes>>
  BY SMTT(30) DEF Typed, TypeOK, Called, At, workspaces
<1> QED
  BY <1>1, SMTT(30) DEF LeaseInv, Closing, At

\* A failed close gives the lock back and keeps its failure.
LEMMA LeaseCloseFails ==
    ASSUME Typed, LeaseInv, NEW t \in Threads, Closing(t), CloseFails(t),
           drawing' \subseteq drawing, UNCHANGED <<closure, folder>>,
           \A l \in Leases : l # lease[t] => closes'[l] = closes[l],
           closes'[lease[t]] = 1
    PROVE  LeaseInv'
<1> DEFINE l == lease[t]
<1>1. /\ l \in Leases /\ ~At(t, "idle") /\ l \notin closure
      /\ \A s \in Threads : Closing(s) /\ lease[s] = l => s = t
  BY DEF Typed, Working, LeaseInv, Closing, At
<1>2. /\ failure' = failure \cup {l} /\ lease' = lease
      /\ pc'[t] = "idle" /\ \A s \in Threads \ {t} : pc'[s] = pc[s]
      /\ \A k \in Leases : state'[k] = IF k = l THEN "active" ELSE state[k]
      /\ \A k \in Leases : k # l => lock'[k] = lock[k]
  BY SMTT(30) DEF CloseFails, Fail, Return, arguments, Typed, TypeOK
<1>3. \A s \in Threads : Closing(s)' <=> s # t /\ Closing(s)
  BY <1>2 DEF Closing
<1>4. \A s \in Threads : Closing(s)' => lease[s] # l /\ lease[s] \in Leases
  BY <1>1, <1>3 DEF Typed, Working, Closing
<1> HIDE DEF l
<1>5. ASSUME NEW s \in Threads PROVE LeaseInv!1!(s)'
  <2>1. LeaseInv!1!(s)
    BY DEF LeaseInv
  <2>2. CASE s = t
    BY <1>2, <2>2 DEF Closing, At
  <2>3. CASE s # t
    <3>1. ~At(s, "idle") => lease[s] \in Leases
      BY DEF Typed, Working, At
    <3> QED
      BY <1>2, <1>3, <1>4, <2>1, <2>3, <3>1 DEF Closing, At, l
  <2> QED
    BY <2>2, <2>3
<1>6. ASSUME NEW k \in Leases PROVE LeaseInv!2!(k)'
  <2>1. LeaseInv!2!(k)
    BY DEF LeaseInv
  <2>2. CASE k = l
    BY <1>1, <1>2, <2>2 DEF l
  <2>3. CASE k # l
    <3>1. /\ closes'[k] = closes[k] /\ state'[k] = state[k] /\ closure' = closure
          /\ k \in failure' <=> k \in failure
      BY <1>2, <2>3 DEF l
    <3>2. \A s \in Threads : lease[s] = k => /\ At(s, "removing") => At(s, "removing")'
                                             /\ Closing(s) => Closing(s)'
      BY <1>2, <1>3, <2>3 DEF At, l
    <3> QED
      BY <1>2, <2>1, <3>1, <3>2
  <2> QED
    BY <2>2, <2>3
<1> QED
  BY <1>5, <1>6 DEF LeaseInv

LEMMA LeaseClose ==
    ASSUME Typed, LeaseInv, NEW t \in Threads, Close(t)
    PROVE  LeaseInv'
<1> DEFINE l == lease[t]
<1>1. l \in Leases /\ At(t, "close") /\ lease' = lease /\ UNCHANGED <<closure, folder, drawing, closes>>
  BY SMTT(30) DEF Close, Typed, Working, At, Goto, Return, Closed, arguments
<1>2. CASE UNCHANGED <<state, failure, lock>> /\ At(t, "idle")'
  <2>1. \A s \in Threads \ {t} : pc'[s] = pc[s]
    BY SMTT(30) DEF Close, Closed, Goto, Return, Typed, TypeOK
  <2> QED
    BY <1>1, <1>2, <2>1, LeaseElsewhere DEF At
<1>3. CASE /\ l \notin closure \cup failure /\ state[l] = "active"
           /\ lock' = [lock EXCEPT ![l] = t] /\ state' = [state EXCEPT ![l] = "closing"]
           /\ Goto(t, "closing") /\ UNCHANGED failure
  <2>1. /\ pc'[t] = "closing" /\ \A s \in Threads \ {t} : pc'[s] = pc[s]
        /\ \A k \in Leases : state'[k] = IF k = l THEN "closing" ELSE state[k]
        /\ \A k \in Leases : lock'[k] = IF k = l THEN t ELSE lock[k]
    BY <1>3, SMTT(30) DEF Goto, Typed, TypeOK
  <2>2. \A s \in Threads : Closing(s) => lease[s] # l /\ lease[s] \in Leases
    BY <1>3, SMTT(30) DEF LeaseInv, Typed, Working, Closing
  <2>3. closes[l] = 0
    BY <1>1, <1>3, <2>2, SMTT(30) DEF LeaseInv, Closing, At
  <2> HIDE DEF l
  <2>4. ASSUME NEW s \in Threads PROVE LeaseInv!1!(s)'
    <3>1. LeaseInv!1!(s)
      BY DEF LeaseInv
    <3>2. CASE s = t
      BY <1>1, <1>3, <2>1, <2>3, <3>2 DEF Closing, At, l
    <3>3. CASE s # t
      <4>1. ~At(s, "idle") => lease[s] \in Leases
        BY DEF Typed, Working, At
      <4>2. (Closing(s)' <=> Closing(s)) /\ (~At(s, "idle")' <=> ~At(s, "idle"))
        BY <2>1, <3>3 DEF Closing, At
      <4> QED
        BY <1>1, <1>3, <2>1, <2>2, <3>1, <3>3, <4>1, <4>2 DEF Closing, At, l
    <3> QED
      BY <3>2, <3>3
  <2>5. ASSUME NEW k \in Leases PROVE LeaseInv!2!(k)'
    <3>1. LeaseInv!2!(k)
      BY DEF LeaseInv
    <3>2. \A s \in Threads : s # t =>
            (Closing(s)' <=> Closing(s)) /\ (At(s, "removing")' <=> At(s, "removing"))
      BY <2>1 DEF Closing, At
    <3>3. CASE k = l
      BY <1>1, <1>3, <2>1, <2>3, <3>3 DEF Closing, l
    <3>4. CASE k # l
      BY <1>1, <1>3, <2>1, <3>1, <3>2, <3>4 DEF Closing, At, l
    <3> QED
      BY <3>3, <3>4
  <2> QED
    BY <2>4, <2>5 DEF LeaseInv
<1>4. CASE l \notin closure /\ Fail(l) /\ Return(t, "CLOSURE_FAILED") /\ UNCHANGED <<state, lock>>
           /\ state[l] = "active"
  <2>1. /\ pc'[t] = "idle" /\ \A s \in Threads \ {t} : pc'[s] = pc[s]
        /\ failure' = failure \cup {l}
    BY <1>4, SMTT(30) DEF Return, Fail, Typed, TypeOK
  <2>2. \A s \in Threads : Closing(s) => lease[s] # l
    BY <1>4, SMTT(30) DEF LeaseInv
  <2>3. \A s \in Threads : /\ At(s, "closing")' <=> At(s, "closing")
                           /\ At(s, "removing")' <=> At(s, "removing")
                           /\ Closing(s)' <=> Closing(s)
                           /\ ~At(s, "idle")' => ~At(s, "idle")
    BY <1>1, <2>1 DEF At, Closing
  <2> HIDE DEF l
  <2>4. ASSUME NEW s \in Threads PROVE LeaseInv!1!(s)'
    BY <1>1, <1>4, <2>1, <2>2, <2>3 DEF LeaseInv
  <2>5. ASSUME NEW k \in Leases PROVE LeaseInv!2!(k)'
    BY <1>1, <1>4, <2>1, <2>3 DEF LeaseInv
  <2> QED
    BY <2>4, <2>5 DEF LeaseInv
<1> QED
  BY <1>2, <1>3, <1>4, SMTT(30) DEF Close, Closed, Return, At, Typed, TypeOK

LEMMA LeaseCloseDrawing ==
    ASSUME Typed, LeaseInv, NEW t \in Threads, CloseDrawing(t)
    PROVE  LeaseInv'
<1> DEFINE l == lease[t]
<1>1. l \in Leases /\ At(t, "closing") /\ Closing(t) /\ closes[l] = 0 /\ lease' = lease
      /\ UNCHANGED <<closure, folder>>
  BY SMTT(30) DEF CloseDrawing, CloseFails, Goto, Return, arguments, Typed, Working, LeaseInv,
     Closing, At
<1>2. \A k \in Leases : closes'[k] = IF k = l THEN 1 ELSE closes[k]
  BY <1>1, SMTT(30) DEF CloseDrawing, Typed, TypeOK
<1>3. CASE CloseFails(t) /\ drawing' \in {drawing, drawing \ {l}}
  BY <1>1, <1>2, <1>3, LeaseCloseFails
<1>4. CASE drawing' = drawing \ {l} /\ Goto(t, "removing") /\ UNCHANGED <<state, failure, lock>>
  <2>1. pc'[t] = "removing" /\ \A s \in Threads \ {t} : pc'[s] = pc[s]
    BY <1>4, SMTT(30) DEF Goto, Typed, TypeOK
  <2>2. \A s \in Threads : Closing(s) /\ lease[s] = l => s = t
    BY <1>1 DEF LeaseInv
  <2>3. \A s \in Threads : Closing(s)' <=> Closing(s)
    BY <1>1, <2>1 DEF Closing
  <2> HIDE DEF l
  <2>4. ASSUME NEW s \in Threads PROVE LeaseInv!1!(s)'
    <3>1. LeaseInv!1!(s)
      BY DEF LeaseInv
    <3>2. Closing(s) => lease[s] \in Leases
      BY DEF Typed, Working, Closing
    <3>3. CASE s = t
      BY <1>1, <1>2, <1>4, <2>1, <3>1, <3>3 DEF Closing, At, l
    <3>4. CASE s # t
      BY <1>1, <1>2, <1>4, <2>1, <2>2, <3>1, <3>2, <3>4 DEF Closing, At, l
    <3> QED
      BY <3>3, <3>4
  <2>5. ASSUME NEW k \in Leases PROVE LeaseInv!2!(k)'
    <3>1. LeaseInv!2!(k)
      BY DEF LeaseInv
    <3>2. CASE k = l
      BY <1>1, <1>2, <1>4, <2>1, <2>3, <3>1, <3>2 DEF At, l
    <3>3. CASE k # l
      BY <1>1, <1>2, <1>4, <2>1, <2>3, <3>1, <3>3 DEF At, l
    <3> QED
      BY <3>2, <3>3
  <2> QED
    BY <2>4, <2>5 DEF LeaseInv
<1> QED
  BY <1>3, <1>4, SMTT(30) DEF CloseDrawing

LEMMA LeaseRemove ==
    ASSUME Typed, LeaseInv, NEW t \in Threads, Remove(t)
    PROVE  LeaseInv'
<1> DEFINE l == lease[t]
<1>1. /\ l \in Leases /\ At(t, "removing") /\ Closing(t) /\ closes[l] = 1 /\ lease' = lease
      /\ l \notin drawing \cup failure
      /\ UNCHANGED <<drawing, closes>>
  BY SMTT(30) DEF Remove, CloseFails, Closed, Return, arguments, Typed, Working, LeaseInv,
     Closing, At
<1>2. CASE CloseFails(t) /\ UNCHANGED <<closure, folder>>
  BY <1>1, <1>2, LeaseCloseFails
<1>3. CASE /\ state' = [state EXCEPT ![l] = "closed"]
           /\ closure' = closure \cup {l} /\ folder' = folder \ {l}
           /\ lock' = [lock EXCEPT ![l] = Nothing]
           /\ Closed(t) /\ UNCHANGED failure
  <2>1. /\ pc'[t] = "idle" /\ \A s \in Threads \ {t} : pc'[s] = pc[s]
        /\ \A k \in Leases : state'[k] = IF k = l THEN "closed" ELSE state[k]
        /\ \A k \in Leases : k # l => lock'[k] = lock[k]
    BY <1>3, SMTT(30) DEF Closed, Return, Typed, TypeOK
  <2>2. \A s \in Threads : Closing(s) /\ lease[s] = l => s = t
    BY <1>1 DEF LeaseInv
  <2>3. \A s \in Threads : Closing(s)' <=> s # t /\ Closing(s)
    BY <2>1 DEF Closing
  <2> HIDE DEF l
  <2>4. ASSUME NEW s \in Threads PROVE LeaseInv!1!(s)'
    <3>1. LeaseInv!1!(s)
      BY DEF LeaseInv
    <3>2. ~At(s, "idle") => lease[s] \in Leases
      BY DEF Typed, Working, At
    <3>3. CASE s = t
      BY <2>1, <3>3 DEF Closing, At
    <3>4. CASE s # t
      BY <1>1, <1>3, <2>1, <2>2, <3>1, <3>2, <3>4 DEF Closing, At, l
    <3> QED
      BY <3>3, <3>4
  <2>5. ASSUME NEW k \in Leases PROVE LeaseInv!2!(k)'
    <3>1. LeaseInv!2!(k)
      BY DEF LeaseInv
    <3>2. CASE k = l
      BY <1>1, <1>3, <2>1, <3>2 DEF l
    <3>3. CASE k # l
      <4>1. \A s \in Threads : lease[s] = k => /\ At(s, "removing") => At(s, "removing")'
                                               /\ Closing(s) => Closing(s)'
        BY <2>1, <2>3, <3>3 DEF At, l
      <4> QED
        BY <1>1, <1>3, <2>1, <3>1, <3>3, <4>1 DEF l
    <3> QED
      BY <3>2, <3>3
  <2> QED
    BY <2>4, <2>5 DEF LeaseInv
<1> QED
  BY <1>2, <1>3, SMTT(30) DEF Remove


\* What was done by the call with a number, and the whole of an operation.
Parts(number) == {m.part : m \in {n \in mutations : n.call = number}}
Whole(op) == IF op = "erase" THEN {"erase"} ELSE {"erase", "create"}

\* Calls have numbers of their own; a call has done what its step says, and all
\* of its operation once its executor ended well.
CallInv ==
    /\ \A m \in mutations : m.call <= calls
    /\ \A s, t \in Threads : serial[s] = serial[t] /\ serial[s] # 0 => s = t
    /\ \A t \in Threads :
         /\ serial[t] <= calls
         /\ pc[t] \in {"validate", "consume", "erase"} => Parts(serial[t]) = {}
         /\ At(t, "create") => Parts(serial[t]) = {"erase"} /\ operation[t] = "replace"
         /\ pc[t] \in {"validate", "consume", "erase", "create"} => executor[t] # "ok"
         /\ executor[t] = "ok" => serial[t] # 0 /\ Parts(serial[t]) = Whole(operation[t])
         /\ outcome[t] = "SUCCESS" => executor[t] = "ok" /\ lease[t] \in closure

\* A request adds its part to what its own call has done.
LEMMA PartsOfMutate ==
    ASSUME NEW t \in Threads, NEW part, Mutate(t, part), serial' = serial
    PROVE  Parts(serial[t])' = Parts(serial[t]) \cup {part}
<1> DEFINE r == [call |-> serial[t], grant |-> grant[t], lease |-> lease[t],
                 operation |-> operation[t], part |-> part]
<1>1. mutations' = mutations \cup {r} /\ r.call = serial[t] /\ r.part = part
  BY DEF Mutate
<1> HIDE DEF r
<1>2. ASSUME NEW p PROVE p \in Parts(serial[t])' <=> p \in Parts(serial[t]) \cup {part}
  BY <1>1 DEF Parts
<1> QED
  BY <1>2

\* Steps in which nothing is requested and no call begins.
LEMMA CallElsewhere ==
    ASSUME Typed, CallInv,
           UNCHANGED <<mutations, serial, operation, executor, lease, calls>>,
           closure \subseteq closure',
           \A t \in Threads :
             /\ pc'[t] \in {"validate", "consume", "erase"} =>
                  pc[t] \in {"validate", "consume", "erase"}
             /\ pc'[t] = "create" => pc[t] = "create"
             /\ outcome'[t] = "SUCCESS" =>
                  outcome[t] = "SUCCESS" \/ (executor[t] = "ok" /\ lease[t] \in closure')
    PROVE  CallInv'
<1>1. \A number : Parts(number)' = Parts(number)
  BY DEF Parts
<1>2. ASSUME NEW t \in Threads PROVE CallInv!3!(t)'
  BY <1>1 DEF CallInv, At
<1> QED
  BY <1>2 DEF CallInv

LEMMA CallCalled ==
    ASSUME Typed, CallInv, NEW t \in Threads, NEW g \in Grants \cup {Nothing}, NEW l \in Leases,
           NEW op \in Operations \cup {"none"}, NEW step \in {"validate", "close"},
           Called(t, g, l, op, step)
    PROVE  CallInv'
<1>1. /\ pc'[t] = step /\ serial'[t] = calls + 1 /\ executor'[t] = "none" /\ outcome'[t] = "none"
      /\ calls' = calls + 1 /\ mutations' = mutations /\ closure' = closure
      /\ \A s \in Threads \ {t} :
           /\ pc'[s] = pc[s] /\ serial'[s] = serial[s] /\ operation'[s] = operation[s]
           /\ lease'[s] = lease[s] /\ executor'[s] = executor[s] /\ outcome'[s] = outcome[s]
  BY SMTT(30) DEF Called, Typed, TypeOK, workspaces
<1>2. /\ calls \in Nat /\ \A s \in Threads : serial[s] \in Nat
      /\ \A m \in mutations : m.call \in Nat
  BY RepairAssumption DEF Typed, TypeOK, Mutations
<1>3. \A number : Parts(number)' = Parts(number)
  BY <1>1 DEF Parts
<1>4. Parts(calls + 1) = {}
  BY <1>2 DEF Parts, CallInv
<1>5. ASSUME NEW s \in Threads PROVE CallInv!3!(s)'
  <2>1. CASE s = t
    BY <1>1, <1>2, <1>3, <1>4, <2>1 DEF At
  <2>2. CASE s # t
    BY <1>1, <1>2, <1>3, <2>2 DEF CallInv, At
  <2> QED
    BY <2>1, <2>2
<1>6. \A m \in mutations' : m.call <= calls'
  BY <1>1, <1>2 DEF CallInv
<1>7. \A s, u \in Threads : serial'[s] = serial'[u] /\ serial'[s] # 0 => s = u
  BY <1>1, <1>2 DEF CallInv
<1> QED
  BY <1>5, <1>6, <1>7 DEF CallInv

LEMMA CallMutate ==
    ASSUME Typed, CallInv, NEW t \in Threads, Erase(t) \/ Create(t)
    PROVE  CallInv'
<1>1. /\ pc[t] \in {"erase", "create"} /\ serial[t] \in 1..MaxCalls /\ operation[t] \in Operations
      /\ UNCHANGED <<serial, operation, lease, outcome, calls, closure>>
      /\ \A s \in Threads \ {t} : pc'[s] = pc[s] /\ executor'[s] = executor[s]
  BY SMTT(30) DEF Erase, Create, Executed, Goto, At, Typed, TypeOK, Working, arguments, workspaces
<1>2. /\ executor[t] # "ok" /\ outcome[t] # "SUCCESS"
      /\ At(t, "erase") => Parts(serial[t]) = {}
      /\ At(t, "create") => Parts(serial[t]) = {"erase"} /\ operation[t] = "replace"
  BY <1>1 DEF CallInv, At
<1>3. \A s \in Threads : s # t => serial[s] # serial[t]
  BY <1>1, RepairAssumption DEF CallInv
<1>4. \/ /\ Mutate(t, "erase") /\ At(t, "erase")
         /\ \/ operation[t] = "erase" /\ pc'[t] = "close" /\ executor'[t] = "ok"
            \/ operation[t] = "replace" /\ pc'[t] = "create" /\ executor'[t] = executor[t]
            \/ pc'[t] = "close" /\ executor'[t] = "failed"
      \/ /\ Mutate(t, "create") /\ At(t, "create")
         /\ pc'[t] = "close" /\ executor'[t] \in {"ok", "failed"}
      \/ UNCHANGED mutations /\ pc'[t] = "close" /\ executor'[t] = "failed"
  BY SMTT(30) DEF Erase, Create, Executed, Goto, At, Typed, TypeOK
<1>5. ASSUME NEW s \in Threads, s # t
      PROVE  Parts(serial[s])' = Parts(serial[s])
  <2>1. CASE UNCHANGED mutations
    BY <1>1, <2>1 DEF Parts
  <2>2. CASE Mutate(t, "erase") \/ Mutate(t, "create")
    BY <1>1, <1>3, <1>5, <2>2 DEF Mutate, Parts
  <2> QED
    BY <1>4, <2>1, <2>2
<1>6. ASSUME NEW s \in Threads, s # t PROVE CallInv!3!(s)'
  BY <1>1, <1>5, <1>6 DEF CallInv, At
<1>9. serial'[t] <= calls' /\ serial'[t] # 0
  BY <1>1, RepairAssumption DEF CallInv
<1>7. CallInv!3!(t)'
  <2>1. CASE UNCHANGED mutations /\ pc'[t] = "close" /\ executor'[t] = "failed"
    BY <1>1, <1>2, <2>1 DEF CallInv, At
  <2>2. CASE Mutate(t, "erase") /\ At(t, "erase")
    <3>1. Parts(serial[t])' = {"erase"}
      BY <1>1, <1>2, <2>2, PartsOfMutate
    <3>2. /\ At(t, "create")' => operation[t] = "replace"
          /\ executor'[t] = "ok" => operation[t] = "erase"
          /\ pc'[t] \in {"close", "create"}
          /\ At(t, "create")' => executor'[t] # "ok"
      BY <1>2, <1>4, <2>2 DEF At
    <3>3. executor'[t] = "ok" => Whole(operation[t])' = {"erase"}
      BY <1>1, <3>2 DEF Whole
    <3> QED
      BY <1>1, <1>2, <1>9, <3>1, <3>2, <3>3 DEF At
  <2>3. CASE Mutate(t, "create") /\ At(t, "create")
    <3>1. Parts(serial[t])' = {"erase", "create"}
      BY <1>1, <1>2, <2>3, PartsOfMutate
    <3>2. pc'[t] = "close"
      BY <1>4, <2>3 DEF At
    <3>3. Whole(operation[t])' = {"erase", "create"}
      BY <1>1, <1>2, <2>3 DEF Whole
    <3> QED
      BY <1>1, <1>2, <1>9, <3>1, <3>2, <3>3 DEF At
  <2> QED
    BY <1>4, <2>1, <2>2, <2>3
<1>8. \A m \in mutations' : m.call <= calls
  <2>1. \A m \in mutations' : m \in mutations \/ m.call = serial[t]
    BY <1>4 DEF Mutate
  <2> QED
    BY <1>1, <2>1 DEF CallInv
<1> QED
  BY <1>1, <1>6, <1>7, <1>8 DEF CallInv

-----------------------------------------------------------------------------
\* A lease whose drawing was mutated is closed, failed or expired, or the
\* thread that mutated it, or one that closes it, is not done.
MutatedInv ==
    \A m \in mutations :
        \/ m.lease \in closure \cup failure \cup expired
        \/ \E t \in Threads : lease[t] = m.lease /\ pc[t] \in {"create", "close", "closing", "removing"}

LEMMA MutatedElsewhere ==
    ASSUME Typed, MutatedInv, mutations' = mutations,
           closure \subseteq closure', failure \subseteq failure', expired \subseteq expired',
           \A t \in Threads : pc[t] \in {"create", "close", "closing", "removing"} =>
             /\ lease'[t] = lease[t]
             /\ \/ pc'[t] \in {"create", "close", "closing", "removing"}
                \/ lease[t] \in closure' \cup failure' \cup expired'
                \/ \E s \in Threads \ {t} : /\ lease'[s] = lease[t]
                                            /\ pc'[s] \in {"create", "close", "closing", "removing"}
    PROVE  MutatedInv'
BY DEF MutatedInv

LEMMA MutatedMutate ==
    ASSUME Typed, MutatedInv, NEW t \in Threads, Erase(t) \/ Create(t)
    PROVE  MutatedInv'
<1>1. /\ pc'[t] \in {"create", "close"} /\ UNCHANGED <<lease, closure, failure, expired>>
      /\ \A s \in Threads \ {t} : pc'[s] = pc[s]
  BY SMTT(30) DEF Erase, Create, Executed, Goto, Typed, TypeOK, arguments, workspaces
<1>2. \A m \in mutations' : m \in mutations \/ m.lease = lease[t]
  BY SMTT(30) DEF Erase, Create, Mutate
<1> QED
  BY <1>1, <1>2 DEF MutatedInv

LEMMA MutatedClose ==
    ASSUME Typed, LeaseInv, MutatedInv, NEW t \in Threads, Close(t)
    PROVE  MutatedInv'
<1> DEFINE l == lease[t]
<1>1. /\ l \in Leases /\ At(t, "close")
      /\ UNCHANGED <<mutations, lease, closure, expired>> /\ failure \subseteq failure'
      /\ \A s \in Threads \ {t} : pc'[s] = pc[s]
  BY SMTT(30) DEF Close, Closed, Fail, Goto, Return, At, Typed, TypeOK, Working, arguments
<1>2. \/ l \in closure
      \/ l \in failure' \cup expired
      \/ pc'[t] = "closing"
      \/ l \notin closure /\ state[l] # "active"
  BY SMTT(30) DEF Close, Fail, Goto, Typed, TypeOK
<1>3. CASE l \notin closure /\ state[l] # "active"
  <2>1. state[l] = "closing"
    BY <1>1, <1>3 DEF LeaseInv, Typed, TypeOK, At
  <2>2. PICK s \in Threads : Closing(s) /\ lease[s] = l
    BY <1>1, <2>1 DEF LeaseInv
  <2>3. s # t
    BY <1>1, <2>2 DEF Closing, At
  <2> QED
    BY <1>1, <2>2, <2>3, MutatedElsewhere DEF Closing
<1>4. CASE l \in closure \/ l \in failure' \cup expired \/ pc'[t] = "closing"
  BY <1>1, <1>4, MutatedElsewhere
<1> HIDE DEF l
<1> QED
  BY <1>2, <1>3, <1>4

AccountInv == Typed /\ LeaseInv /\ CallInv /\ MutatedInv

\* The steps of AutoCAD, of time, of the issuers and of the folder.
LEMMA AccountOutside ==
    ASSUME AccountInv,
           \/ \E g \in Grants, op \in Operations : IssueAuthorization(g, op)
           \/ \E l \in Leases : IssueWorkspace(l) \/ LoseFolder(l)
           \/ \E x \in Grants \cup Leases : Expire(x)
           \/ UNCHANGED vars
    PROVE  (LeaseInv /\ CallInv /\ MutatedInv)'
<1> USE DEF AccountInv, vars, authorizations, workspaces, call, arguments
<1>1. /\ UNCHANGED <<pc, serial, lease, operation, executor, outcome, calls, mutations, closes,
                     closure, failure, lock>>
      /\ expired \subseteq expired'
  BY DEF IssueAuthorization, IssueWorkspace, LoseFolder, Expire
<1>2. CallInv'
  <2>1. UNCHANGED <<mutations, serial, operation, executor, lease, calls>> /\ closure' = closure
    BY <1>1
  <2>2. pc' = pc /\ outcome' = outcome
    BY <1>1
  <2>3. Typed /\ CallInv
    OBVIOUS
  <2> HIDE DEF AccountInv, vars, authorizations, workspaces, call, arguments
  <2> QED
    BY <2>1, <2>2, <2>3, CallElsewhere
<1>3. MutatedInv'
  BY <1>1, MutatedElsewhere
<1>4. ASSUME ~ \E l \in Leases : IssueWorkspace(l) PROVE LeaseInv'
  <2>1. state' = state /\ folder' \subseteq folder /\ drawing' = drawing
    BY <1>4 DEF IssueAuthorization, LoseFolder, Expire
  <2> QED
    BY <1>1, <2>1, LeaseElsewhere DEF At
<1> QED
  BY <1>2, <1>3, <1>4, LeaseIssue

LEMMA AccountCalled ==
    ASSUME AccountInv, NEW t \in Threads, NEW g \in Grants \cup {Nothing}, NEW l \in Leases,
           NEW op \in Operations \cup {"none"}, NEW step \in {"validate", "close"},
           state[l] # "none", Called(t, g, l, op, step)
    PROVE  (LeaseInv /\ CallInv /\ MutatedInv)'
<1> USE DEF AccountInv
<1>1. /\ At(t, "idle") /\ UNCHANGED <<mutations, closure, failure, expired>>
      /\ \A s \in Threads \ {t} : pc'[s] = pc[s] /\ lease'[s] = lease[s]
  BY SMTT(30) DEF Called, Typed, TypeOK, workspaces
<1>2. MutatedInv'
  BY <1>1, MutatedElsewhere DEF At
<1> QED
  BY <1>2, LeaseCalled, CallCalled

LEMMA AccountStep ==
    ASSUME AccountInv, NEW t \in Threads, Step(t)
    PROVE  (LeaseInv /\ CallInv /\ MutatedInv)'
<1> USE DEF AccountInv
<1>1. CASE Validate(t) \/ Consume(t)
  <2>1. /\ UNCHANGED <<mutations, serial, operation, executor, lease, calls, closure, failure,
                       expired, state, lock, closes, folder, drawing>>
        /\ pc[t] \in {"validate", "consume"} /\ pc'[t] \in {"idle", "consume", "erase"}
        /\ outcome'[t] # "SUCCESS" \/ outcome'[t] = outcome[t]
        /\ \A s \in Threads \ {t} : pc'[s] = pc[s] /\ outcome'[s] = outcome[s]
    BY <1>1, SMTT(30) DEF Validate, Consume, Goto, Return, At, Typed, TypeOK, workspaces, arguments
  <2>2. LeaseInv'
    BY <2>1, LeaseElsewhere DEF At
  <2>3. CallInv'
    <3>1. ASSUME NEW s \in Threads
          PROVE  /\ pc'[s] \in {"validate", "consume", "erase"} =>
                      pc[s] \in {"validate", "consume", "erase"}
                 /\ pc'[s] = "create" => pc[s] = "create"
                 /\ outcome'[s] = "SUCCESS" => outcome[s] = "SUCCESS"
      BY <2>1 DEF At
    <3> QED
      BY <2>1, <3>1, CallElsewhere
  <2>4. MutatedInv'
    BY <2>1, MutatedElsewhere
  <2> QED
    BY <2>2, <2>3, <2>4
<1>2. CASE Erase(t) \/ Create(t)
  <2>1. /\ UNCHANGED <<state, closure, failure, lock, lease, closes, folder, drawing>>
        /\ pc[t] \in {"erase", "create"} /\ pc'[t] \in {"create", "close"}
        /\ \A s \in Threads \ {t} : pc'[s] = pc[s]
    BY <1>2, SMTT(30) DEF Erase, Create, Executed, Goto, At, Typed, TypeOK, workspaces, arguments
  <2>2. LeaseInv'
    BY <2>1, LeaseElsewhere DEF At
  <2> QED
    BY <1>2, <2>2, CallMutate, MutatedMutate
<1>3. CASE Close(t) \/ CloseDrawing(t) \/ Remove(t)
  <2>1. /\ UNCHANGED <<mutations, serial, operation, executor, lease, calls, expired>>
        /\ closure \subseteq closure' /\ failure \subseteq failure'
        /\ pc[t] \in {"close", "closing", "removing"}
        /\ pc'[t] \in {"idle", "closing", "removing"}
        /\ \A s \in Threads \ {t} : pc'[s] = pc[s] /\ outcome'[s] = outcome[s]
    BY <1>3, SMTT(30) DEF Close, CloseDrawing, Remove, CloseFails, Closed, Fail, Goto, Return, At,
       Typed, TypeOK, arguments
  <2>2. outcome'[t] = "SUCCESS" =>
          outcome[t] = "SUCCESS" \/ (executor[t] = "ok" /\ lease[t] \in closure')
    <3>1. CASE Close(t)
      BY <3>1, SMTT(30) DEF Close, Closed, Goto, Return, arguments, Typed, TypeOK
    <3>2. CASE CloseDrawing(t)
      BY <3>2, SMTT(30) DEF CloseDrawing, CloseFails, Goto, Return, arguments, Typed, TypeOK
    <3>3. CASE Remove(t)
      BY <3>3, SMTT(30) DEF Remove, CloseFails, Closed, Return, Typed, TypeOK
    <3> QED
      BY <1>3, <3>1, <3>2, <3>3
  <2>3. CallInv'
    <3>1. ASSUME NEW s \in Threads
          PROVE  /\ pc'[s] \in {"validate", "consume", "erase"} =>
                      pc[s] \in {"validate", "consume", "erase"}
                 /\ pc'[s] = "create" => pc[s] = "create"
                 /\ outcome'[s] = "SUCCESS" =>
                      outcome[s] = "SUCCESS" \/ (executor[s] = "ok" /\ lease[s] \in closure')
      BY <2>1, <2>2 DEF At
    <3> QED
      BY <2>1, <3>1, CallElsewhere
  <2>4. CASE CloseDrawing(t) \/ Remove(t)
    <3>1. pc'[t] = "removing" \/ lease[t] \in closure' \cup failure'
      BY <2>4, SMTT(30) DEF CloseDrawing, Remove, CloseFails, Fail, Goto, Typed, TypeOK
    <3> QED
      BY <2>1, <2>3, <2>4, <3>1, MutatedElsewhere, LeaseCloseDrawing, LeaseRemove
  <2> QED
    BY <1>3, <2>3, <2>4, LeaseClose, MutatedClose
<1> QED
  BY <1>1, <1>2, <1>3 DEF Step

\* No lease is lost, whatever threads race for it and whatever expires, fails or
\* disappears: a call that reports SUCCESS did the whole of its operation and
\* left neither drawing nor folder, a closure is final and was asked for once,
\* and a mutated lease is closed, failed or expired when all is done.
THEOREM NoLeaseIsLost == Spec => []LeasesAreAccountedFor
<1>1. Init /\ Typed => AccountInv
  BY SMTT(30) DEF Init, AccountInv, LeaseInv, CallInv, MutatedInv, Closing, At, Parts
<1>2. AccountInv /\ Typed' /\ [Next]_vars => AccountInv'
  <2> SUFFICES ASSUME AccountInv, [Next]_vars PROVE (LeaseInv /\ CallInv /\ MutatedInv)'
    BY DEF AccountInv
  <2>1. ASSUME NEW t \in Threads, NEW g \in Grants, NEW l \in Leases, NEW op \in Operations,
               Repair(t, g, l, op)
        PROVE  (LeaseInv /\ CallInv /\ MutatedInv)'
    <3>1. Called(t, g, l, op, "validate") /\ state[l] # "none"
      BY <2>1 DEF Repair
    <3> QED
      BY <3>1, AccountCalled
  <2>2. ASSUME NEW t \in Threads, NEW l \in Leases, CloseOnly(t, l)
        PROVE  (LeaseInv /\ CallInv /\ MutatedInv)'
    <3>1. Called(t, Nothing, l, "none", "close") /\ state[l] # "none"
      BY <2>2 DEF CloseOnly
    <3> QED
      BY <3>1, AccountCalled
  <2> QED
    BY <2>1, <2>2, AccountOutside, AccountStep DEF Next
<1>3. AccountInv => LeasesAreAccountedFor
  <2> SUFFICES ASSUME AccountInv PROVE LeasesAreAccountedFor
    OBVIOUS
  <2>1. ClosureIsTerminal
    BY SMTT(30) DEF AccountInv, LeaseInv, Typed, TypeOK, ClosureIsTerminal
  <2>2. MutationIsAccountedFor
    BY DEF AccountInv, MutatedInv, MutationIsAccountedFor, At
  <2>3. SuccessIsComplete
    <3>1. ASSUME NEW t \in Threads, outcome[t] = "SUCCESS"
          PROVE  Parts(serial[t]) = Whole(operation[t]) /\ lease[t] \in closure
      BY <3>1 DEF AccountInv, CallInv
    <3>2. ASSUME NEW t \in Threads, outcome[t] = "SUCCESS"
          PROVE  lease[t] \in Leases /\ lease[t] \notin folder \cup drawing
      BY <3>1, <3>2 DEF AccountInv, LeaseInv, Typed, TypeOK
    <3> QED
      BY <3>1, <3>2 DEF SuccessIsComplete, Parts, Whole
  <2> QED
    BY <2>1, <2>2, <2>3 DEF LeasesAreAccountedFor
<1> QED
  BY <1>1, <1>2, <1>3, AlwaysTyped, PTL DEF Spec


-----------------------------------------------------------------------------
(***************************************************************************)
(* Another approval: FidelityPage and FidelitySidecar, in which a person   *)
(* approves what was read off a page, and drawings, candidates and pages   *)
(* are made of what was approved.                                          *)
(***************************************************************************)
\* There is room for one observation and one drawing, which text takes, and a
\* proposal gives a box to each region.
PageBounds ==
    /\ MaxFiles \in Nat \ {0} /\ MaxRoots \in Nat \ {0}
    /\ MaxEdits \in Nat /\ MaxRevision \in Nat
    /\ \A r \in Revisions : Drafts[r] \subseteq [Regions -> Boxes]

\* An approval that was given, of an observation that is there: it says what
\* the observation said.
Given(a) ==
    /\ a.of \in DOMAIN observations
    /\ a.items \subseteq approved
    /\ \A p \in a.items : p[2] = a.hash.reads[p[1]]

ApprovalsGiven ==
    /\ \A a \in approval : Given(a)
    /\ \A j \in rebuild : \A a \in j.by : Given(a)
    /\ \A n \in DOMAIN drawings : \A a \in drawings[n].by : a.items \subseteq approved

\* What a rebuild has checked, and read, is the approval's unless it was raced.
JobFits(j) ==
    /\ j.step = "written" => kind # "text" /\ drawings # <<>>
    /\ kind # "text" /\ j.step # "written" => Len(drawings) < MaxRoots
    /\ j.step = "checked" =>
         \E a \in j.by : /\ j.by = {a}
                         /\ ~j.raced => /\ observations[a.of] = a.hash
                                        /\ a.base \in {layout, Unbound}
    /\ kind # "linetype" /\ j.step # "checked" =>
         /\ (j.raced => kind \in {"text", "hatch"}) => j.items = Granted(j.by)
         /\ ~j.raced => \A a \in j.by : a.base \in {j.base, Unbound}

\* So is what was drawn, and the report of a text drawing names its base.
DrawingFits(d) ==
    /\ kind # "linetype" =>
         /\ d.intact /\ (d.raced => kind \in {"text", "hatch"}) => d.items = Granted(d.by)
         /\ ~d.raced => \A a \in d.by : a.base \in {d.base, Unbound}
    /\ kind = "text" => \A p \in d.report : p.base = d.base

AnswersFit ==
    /\ answered # {} => kind = "text" /\ drawings # <<>>
    /\ \A a \in answered : drawings[1].intact =>
         drawings[1].items = Granted(a.by) /\ drawings[1].base = a.base

SidecarFits ==
    /\ ApprovalsGiven
    /\ \A j \in rebuild : JobFits(j)
    /\ \A n \in DOMAIN drawings : DrawingFits(drawings[n])
    /\ AnswersFit

SidecarInv == SidecarTypeOK /\ SidecarFits

-----------------------------------------------------------------------------
\* What was placed was approved, unless it was raced.
Placing(raced, items) == kind # "linetype" /\ ~raced => items \subseteq approved

\* The box a region was given in a revision's approval.
Boxed(g, r, box) == \E b \in regionApprovals[r] : g \in b.ids /\ box = b.hash.boxes[g]

CandidateFits(g, c) ==
    /\ Placing(c.raced, c.items)
    /\ \A box \in c.box : Boxed(g, c.of, box)
    /\ \A b1, b2 \in c.box : b1 = b2

\* The parts of a page of a revision.
PartsFit(r, parts) ==
    \E a \in regionApprovals[r] :
        /\ DOMAIN parts = a.ids
        /\ \A g \in a.ids :
             /\ parts[g].at = a.hash.boxes[g]
             /\ Boxed(g, parts[g].of, parts[g].from)
             /\ Placing(parts[g].raced, parts[g].items)

WorkFits(w) ==
    /\ \E a \in regionApprovals[w.revision] : w.todo \subseteq a.ids
    /\ w.making \subseteq w.todo
    /\ \A g \in w.making : \A c \in candidates[g] : c.of = w.revision
    /\ w.command = "handoff" =>
         /\ kind \in {"text", "dimension", "linetype"}
         /\ w.drawing \in DOMAIN drawings
         /\ Placing(drawings[w.drawing].raced /\ kind = "dimension", w.checked)
    /\ w.command = "compose" => PartsFit(w.revision, w.parts)

PageFits ==
    /\ \A g \in Regions : \A c \in candidates[g] : CandidateFits(g, c)
    /\ \A w \in work : WorkFits(w)
    /\ \A r \in Revisions : \A x \in compositions[r] :
         PartsFit(r, x.parts) /\ x.report \subseteq regionApprovals[r]

\* No version without an edit.
Counted == render <= edits /\ layout <= edits

PageInv == SidecarInv /\ Counted /\ PageTypeOK /\ PageFits

-----------------------------------------------------------------------------
(* Rebuilds, answers and approvals of the page. *)

LEMMA OneJob ==
    ASSUME SidecarTypeOK, rebuild # {}
    PROVE  rebuild = {Job} /\ Job \in Rebuild
  <1>1. Job \in rebuild
    BY DEF Job
  <1>2. rebuild = {Job}
    BY <1>1 DEF SidecarTypeOK, AtMostOne
  <1> QED
    BY <1>1, <1>2 DEF SidecarTypeOK

\* A rebuild after its drawing was written, and after it was raced.
LEMMA JobWritten ==
    ASSUME NEW j \in Rebuild
    PROVE  LET r == [j EXCEPT !.step = "written"]
           IN  /\ r \in Rebuild
               /\ r.step = "written" /\ r.by = j.by
               /\ r.items = j.items /\ r.base = j.base
               /\ r.raced = j.raced
  <1> DEFINE r == [j EXCEPT !.step = "written"]
  <1>1. r \in Rebuild
    BY DEF Rebuild
  <1>2. r.step = "written" /\ r.by = j.by
    BY DEF Rebuild
  <1>3. r.items = j.items /\ r.base = j.base
    BY DEF Rebuild
  <1>4. r.raced = j.raced
    BY DEF Rebuild
  <1> QED
    BY <1>1, <1>2, <1>3, <1>4

LEMMA JobRaced ==
    ASSUME NEW j \in Rebuild
    PROVE  LET r == [j EXCEPT !.raced = TRUE]
           IN  /\ r \in Rebuild
               /\ r.step = j.step /\ r.by = j.by
               /\ r.items = j.items /\ r.base = j.base
               /\ r.raced = TRUE
  <1> DEFINE r == [j EXCEPT !.raced = TRUE]
  <1>1. r \in Rebuild
    BY DEF Rebuild
  <1>2. r.step = j.step /\ r.by = j.by
    BY DEF Rebuild
  <1>3. r.items = j.items /\ r.base = j.base
    BY DEF Rebuild
  <1>4. r.raced = TRUE
    BY DEF Rebuild
  <1> QED
    BY <1>1, <1>2, <1>3, <1>4

LEMMA RacedTyped ==
    ASSUME SidecarTypeOK
    PROVE  Raced \subseteq Rebuild /\ AtMostOne(Raced)
  <1>1. rebuild \subseteq Rebuild /\ \A x, y \in rebuild : x = y
    BY DEF SidecarTypeOK, AtMostOne
  <1>2. Raced \subseteq Rebuild
    BY <1>1, JobRaced DEF Raced
  <1>3. \A x, y \in Raced : x = y
    BY <1>1 DEF Raced
  <1> QED
    BY <1>2, <1>3 DEF AtMostOne

LEMMA ObservationRead ==
    ASSUME NEW o \in Observation, NEW i \in Items
    PROVE  Observation # {} /\ o.reads[i] \in Readings
  BY DEF Observation

\* What an observation says of some items is something that can be placed.
LEMMA SawTyped ==
    ASSUME SidecarTypeOK, NEW o \in DOMAIN observations, NEW chosen \in SUBSET Items
    PROVE  Saw(o, chosen) \subseteq Placed
  <1>1. observations[o] \in Observation
    BY DEF SidecarTypeOK
  <1>2. \A i \in chosen : observations[o].reads[i] \in Readings
    BY <1>1, ObservationRead
  <1> QED
    BY <1>2 DEF Saw, Placed

LEMMA DomainOfObservations ==
    ASSUME SidecarTypeOK, PageBounds
    PROVE  DOMAIN observations \subseteq 1..MaxFiles
  BY DEF SidecarTypeOK, PageBounds

LEMMA GrantedTyped ==
    ASSUME NEW by \in SUBSET Approval
    PROVE  Granted(by) \subseteq Placed
  BY DEF Granted, Approval

LEMMA GrantedOne ==
    ASSUME NEW a
    PROVE  Granted({a}) = a.items
  BY DEF Granted

LEMMA NowReported ==
    ASSUME SidecarTypeOK, PageBounds, rebuild # {}
    PROVE  ReportNow \in Report
  <1>1. Job \in Rebuild
    BY OneJob
  <1>2. Job.base \in 0..Unbound
    BY <1>1 DEF Rebuild
  <1>3. layout \in 0..Unbound
    BY DEF SidecarTypeOK, Unbound, PageBounds
  <1>4. approval \subseteq Approval
    BY DEF SidecarTypeOK
  <1> QED
    BY <1>2, <1>3, <1>4 DEF ReportNow, Report

LEMMA DrawnTyped ==
    ASSUME SidecarTypeOK, rebuild # {}, NEW report \in SUBSET Report
    PROVE  Drawn(report) \in Drawing
  <1>1. Job \in Rebuild
    BY OneJob
  <1> QED
    BY <1>1 DEF Drawn, Rebuild, Drawing

-----------------------------------------------------------------------------
(* The sidecar's steps, first by what they leave alone. *)

\* An observation is made: those that were there stay as they are.
LEMMA ObservingFits ==
    ASSUME SidecarInv, PageBounds,
           UNCHANGED <<kind, layout, approval, approved, rebuild, drawings, answered>>,
           \A o \in DOMAIN observations :
             o \in DOMAIN observations' /\ observations'[o] = observations[o]
    PROVE  SidecarFits'
  <1>1. \A a : Given(a) => Given(a)'
    BY DEF Given
  <1>2. ApprovalsGiven'
    BY <1>1 DEF SidecarInv, SidecarFits, ApprovalsGiven
  <1>3. ASSUME NEW j \in rebuild PROVE JobFits(j)'
    <2>1. JobFits(j) /\ \A a \in j.by : Given(a)
      BY DEF SidecarInv, SidecarFits, ApprovalsGiven
    <2>2. \A a \in j.by : observations'[a.of] = observations[a.of]
      BY <2>1 DEF Given
    <2> QED
      BY <2>1, <2>2 DEF JobFits, Granted, Unbound
  <1>4. ASSUME NEW n \in DOMAIN drawings PROVE DrawingFits(drawings[n])'
    BY DEF SidecarInv, SidecarFits, DrawingFits, Granted, Unbound
  <1>5. AnswersFit'
    BY DEF SidecarInv, SidecarFits, AnswersFit, Granted
  <1> QED
    BY <1>2, <1>3, <1>4, <1>5 DEF SidecarFits

\* A rebuild takes a step of its own.
LEMMA BecomingFits ==
    ASSUME SidecarInv, PageBounds, NEW job, Become(job),
           JobFits(job), \A a \in job.by : Given(a)
    PROVE  SidecarFits'
  <1>1. /\ rebuild' = {job}
        /\ UNCHANGED <<kind, layout, observations, approval, approved, drawings, answered>>
    BY DEF Become, evidence, grants
  <1>2. \A a : Given(a) => Given(a)'
    BY <1>1 DEF Given
  <1>3. ApprovalsGiven'
    BY <1>1, <1>2 DEF SidecarInv, SidecarFits, ApprovalsGiven
  <1>4. JobFits(job)'
    BY <1>1 DEF JobFits, Granted, Unbound
  <1>5. ASSUME NEW n \in DOMAIN drawings PROVE DrawingFits(drawings[n])'
    BY <1>1 DEF SidecarInv, SidecarFits, DrawingFits, Granted, Unbound
  <1>6. AnswersFit'
    BY <1>1 DEF SidecarInv, SidecarFits, AnswersFit, Granted
  <1> QED
    BY <1>1, <1>3, <1>4, <1>5, <1>6 DEF SidecarFits

\* A file is edited or withdrawn while a rebuild may be in progress, and no
\* drawing is touched.
LEMMA RacingFits ==
    ASSUME SidecarInv, PageBounds,
           UNCHANGED <<kind, approved, drawings, answered>>,
           DOMAIN observations' = DOMAIN observations,
           approval' \subseteq approval, rebuild' = Raced
    PROVE  SidecarFits'
  <1>1. \A a : Given(a) => Given(a)'
    BY DEF Given
  <1>2. ASSUME NEW k \in rebuild'
        PROVE  (\A a \in k.by : Given(a)) /\ JobFits(k)'
    <2>1. PICK j \in rebuild : k = [j EXCEPT !.raced = TRUE]
      BY DEF Raced
    <2>2. j \in Rebuild
      BY DEF SidecarInv, SidecarTypeOK
    <2>3. k.step = j.step /\ k.by = j.by /\ k.items = j.items /\ k.base = j.base /\ k.raced = TRUE
      BY <2>1, <2>2, JobRaced
    <2>4. JobFits(j) /\ \A a \in j.by : Given(a)
      BY DEF SidecarInv, SidecarFits, ApprovalsGiven
    <2>5. (k.step = "written" => kind # "text" /\ drawings # <<>>)'
      BY <2>3, <2>4 DEF JobFits
    <2>6. (kind # "text" /\ k.step # "written" => Len(drawings) < MaxRoots)'
      BY <2>3, <2>4 DEF JobFits
    <2>7. k.step = "checked" => \E a \in k.by : k.by = {a}
      BY <2>3, <2>4 DEF JobFits
    <2>8. kind # "linetype" /\ k.step # "checked" =>
            (kind \in {"text", "hatch"} => k.items = Granted(k.by))
      BY <2>3, <2>4 DEF JobFits
    <2>9. JobFits(k)'
      BY <2>3, <2>5, <2>6, <2>7, <2>8 DEF JobFits, Granted
    <2> QED
      BY <2>3, <2>4, <2>9
  <1>3. ApprovalsGiven'
    BY <1>1, <1>2 DEF SidecarInv, SidecarFits, ApprovalsGiven
  <1>4. ASSUME NEW n \in DOMAIN drawings PROVE DrawingFits(drawings[n])'
    BY DEF SidecarInv, SidecarFits, DrawingFits, Granted, Unbound
  <1>5. AnswersFit'
    BY DEF SidecarInv, SidecarFits, AnswersFit, Granted
  <1> QED
    BY <1>2, <1>3, <1>4, <1>5 DEF SidecarFits

\* An approval is given, of what the observation says.
LEMMA ApprovingFits ==
    ASSUME SidecarInv, PageBounds, NEW o \in DOMAIN observations, NEW chosen \in SUBSET Items,
           NEW base \in 0..Unbound, Approve(o, chosen, base)
    PROVE  SidecarInv'
  <1>0. PICK a : a = [of |-> o, hash |-> observations[o], items |-> Saw(o, chosen),
                      base |-> base]
    OBVIOUS
  <1>1. /\ approval' = {a} /\ approved' = approved \cup Saw(o, chosen)
        /\ UNCHANGED <<kind, render, layout, ground, observations, rebuild, drawings, answered,
                       edits>>
    BY <1>0 DEF Approve, evidence, results
  <1>2. Saw(o, chosen) \subseteq Placed
    BY SawTyped DEF SidecarInv
  <1>3. observations[o] \in Observation /\ o \in 1..MaxFiles
    BY DomainOfObservations DEF SidecarInv, SidecarTypeOK
  <1>4. a \in Approval
    BY <1>0, <1>2, <1>3 DEF Approval
  <1>5. SidecarTypeOK'
    <2>1. approval' \subseteq Approval /\ AtMostOne(approval')
      BY <1>1, <1>4 DEF AtMostOne
    <2>2. approved' \subseteq Placed
      BY <1>1, <1>2 DEF SidecarInv, SidecarTypeOK
    <2> QED
      BY <1>1, <2>1, <2>2 DEF SidecarInv, SidecarTypeOK, AtMostOne
  <1>6. \A b : Given(b) => Given(b)'
    BY <1>1 DEF Given
  <1>7. Given(a)'
    <2>1. \A p \in a.items : p[2] = a.hash.reads[p[1]]
      BY <1>0 DEF Saw
    <2>2. a.of = o /\ a.items = Saw(o, chosen)
      BY <1>0
    <2> QED
      BY <1>1, <2>1, <2>2 DEF Given
  <1>8. ApprovalsGiven'
    <2>1. \A b \in approval' : Given(b)'
      BY <1>1, <1>7
    <2>2. \A j \in rebuild' : \A b \in j.by : Given(b)'
      BY <1>1, <1>6 DEF SidecarInv, SidecarFits, ApprovalsGiven
    <2>3. \A n \in DOMAIN drawings' : \A b \in drawings'[n].by : b.items \subseteq approved'
      BY <1>1 DEF SidecarInv, SidecarFits, ApprovalsGiven
    <2> QED
      BY <2>1, <2>2, <2>3 DEF ApprovalsGiven
  <1>9. ASSUME NEW j \in rebuild PROVE JobFits(j)'
    BY <1>1 DEF SidecarInv, SidecarFits, JobFits, Granted, Unbound
  <1>10. ASSUME NEW n \in DOMAIN drawings PROVE DrawingFits(drawings[n])'
    BY <1>1 DEF SidecarInv, SidecarFits, DrawingFits, Granted, Unbound
  <1>11. AnswersFit'
    BY <1>1 DEF SidecarInv, SidecarFits, AnswersFit, Granted
  <1> QED
    BY <1>1, <1>5, <1>8, <1>9, <1>10, <1>11 DEF SidecarInv, SidecarFits

\* The rebuild that has read: what it is, and what a drawing of it is.
LEMMA DrawnFits ==
    ASSUME SidecarInv, rebuild # {}, Job.step = "read", NEW report \in SUBSET Report,
           kind = "text" => \A p \in report : p.base = Job.base
    PROVE  /\ DrawingFits(Drawn(report))
           /\ Drawn(report).by = Job.by /\ Drawn(report).items = Job.items
           /\ Drawn(report).base = Job.base /\ Drawn(report).intact = TRUE
           /\ \A a \in Job.by : a.items \subseteq approved
  <1>1. JobFits(Job) /\ \A a \in Job.by : Given(a)
    BY OneJob DEF SidecarInv, SidecarFits, ApprovalsGiven
  <1>2. /\ Drawn(report).by = Job.by /\ Drawn(report).items = Job.items
        /\ Drawn(report).base = Job.base /\ Drawn(report).intact = TRUE
        /\ Drawn(report).raced = Job.raced /\ Drawn(report).report = report
    BY DEF Drawn
  <1>3. DrawingFits(Drawn(report))
    BY <1>1, <1>2 DEF JobFits, DrawingFits
  <1> QED
    BY <1>1, <1>2, <1>3 DEF Given

LEMMA AnswerTyped ==
    ASSUME SidecarInv, rebuild # {}
    PROVE  [by |-> Job.by, base |-> Job.base, raced |-> Job.raced]
             \in [by : SUBSET Approval, base : 0..Unbound, raced : BOOLEAN]
  <1>1. Job \in Rebuild
    BY OneJob DEF SidecarInv
  <1> QED
    BY <1>1 DEF Rebuild

LEMMA PublishTextFits ==
    ASSUME SidecarInv, PageBounds, PublishText
    PROVE  SidecarInv'
  <1> DEFINE b == [by |-> Job.by, base |-> Job.base, raced |-> Job.raced]
  <1>0. PICK d : d = Drawn({ReportNow})
    OBVIOUS
  <1>1. /\ kind = "text" /\ rebuild # {} /\ Job.step = "read"
        /\ drawings' = <<d>> /\ rebuild' = {} /\ answered' = {b}
        /\ UNCHANGED <<kind, render, layout, ground, observations, approval, approved, edits>>
    BY <1>0 DEF PublishText, Answer, JobAt, evidence, grants
  <1>2. ReportNow \in Report /\ ReportNow.base = Job.base
    BY <1>1, NowReported DEF SidecarInv, ReportNow
  <1>3. /\ DrawingFits(d) /\ d.by = Job.by /\ d.items = Job.items
        /\ d.base = Job.base /\ \A a \in Job.by : a.items \subseteq approved
    <2>1. {ReportNow} \in SUBSET Report
      BY <1>2
    <2>2. \A p \in {ReportNow} : p.base = Job.base
      BY <1>2
    <2> QED
      BY <1>0, <1>1, <2>1, <2>2, DrawnFits
  <1>4. d \in Drawing /\ b \in [by : SUBSET Approval, base : 0..Unbound,
                                     raced : BOOLEAN]
    BY <1>0, <1>1, <1>2, DrawnTyped, AnswerTyped DEF SidecarInv
  <1> HIDE DEF b
  <1>5. DOMAIN drawings' = {1} /\ drawings'[1] = d
    BY <1>1
  <1>6. SidecarTypeOK'
    <2>1. drawings' \in Seq(Drawing) /\ Len(drawings') <= MaxRoots
      BY <1>1, <1>4 DEF PageBounds
    <2> QED
      BY <1>1, <1>4, <2>1 DEF SidecarInv, SidecarTypeOK, AtMostOne
  <1>7. ApprovalsGiven'
    BY <1>1, <1>3, <1>5 DEF SidecarInv, SidecarFits, ApprovalsGiven, Given
  <1>8. DrawingFits(d)'
    BY <1>1, <1>3 DEF DrawingFits, Granted, Unbound
  <1>9. JobFits(Job)
    BY <1>1, OneJob DEF SidecarInv, SidecarFits
  <1>10. d.items = Granted(Job.by)
    BY <1>1, <1>3, <1>9 DEF JobFits
  <1>11. b.by = Job.by /\ b.base = Job.base
    BY DEF b
  <1>12. AnswersFit'
    BY <1>1, <1>3, <1>5, <1>10, <1>11 DEF AnswersFit, Granted
  <1> QED
    BY <1>1, <1>5, <1>6, <1>7, <1>8, <1>12 DEF SidecarInv, SidecarFits

LEMMA ReuseTextFits ==
    ASSUME SidecarInv, PageBounds, ReuseText
    PROVE  SidecarInv'
  <1> DEFINE b == [by |-> Job.by, base |-> Job.base, raced |-> Job.raced]
  <1>1. /\ kind = "text" /\ rebuild # {} /\ Job.step = "read" /\ drawings # <<>>
        /\ drawings[1].report = {ReportNow} /\ drawings[1].items = Job.items
        /\ rebuild' = {} /\ answered' = {b}
        /\ UNCHANGED <<kind, render, layout, ground, observations, approval, approved, edits,
                       drawings>>
    BY DEF ReuseText, Answer, JobAt, evidence, grants
  <1>2. ReportNow.base = Job.base
    BY <1>1 DEF ReportNow
  <1>3. b \in [by : SUBSET Approval, base : 0..Unbound, raced : BOOLEAN]
    BY <1>1, AnswerTyped
  <1>4. b.by = Job.by /\ b.base = Job.base
    OBVIOUS
  <1> HIDE DEF b
  <1>5. JobFits(Job)
    BY <1>1, OneJob DEF SidecarInv, SidecarFits
  <1>6. drawings[1].items = Granted(Job.by)
    BY <1>1, <1>5 DEF JobFits
  <1>7. 1 \in DOMAIN drawings
    BY <1>1 DEF SidecarInv, SidecarTypeOK
  <1>8. drawings[1].base = Job.base
    BY <1>1, <1>2, <1>7 DEF SidecarInv, SidecarFits, DrawingFits
  <1>9. AnswersFit'
    BY <1>1, <1>4, <1>6, <1>8 DEF AnswersFit, Granted
  <1>10. SidecarTypeOK'
    BY <1>1, <1>3 DEF SidecarInv, SidecarTypeOK, AtMostOne
  <1>11. ApprovalsGiven'
    BY <1>1 DEF SidecarInv, SidecarFits, ApprovalsGiven, Given
  <1>12. \A n \in DOMAIN drawings : DrawingFits(drawings[n])'
    BY <1>1 DEF SidecarInv, SidecarFits, DrawingFits, Granted, Unbound
  <1> QED
    BY <1>1, <1>9, <1>10, <1>11, <1>12 DEF SidecarInv, SidecarFits

LEMMA WriteDrawingFits ==
    ASSUME SidecarInv, PageBounds, WriteDrawing
    PROVE  SidecarInv'
  <1>0. PICK d : d = Drawn({})
    OBVIOUS
  <1>1. PICK k : k = [Job EXCEPT !.step = "written"]
    OBVIOUS
  <1>2. /\ kind # "text" /\ rebuild # {} /\ Job.step = "read"
        /\ drawings' = Append(drawings, d) /\ rebuild' = {k}
        /\ UNCHANGED <<kind, render, layout, ground, observations, approval, approved, answered,
                       edits>>
    BY <1>0, <1>1 DEF WriteDrawing, JobAt, evidence, grants
  <1>3. Job \in Rebuild /\ rebuild = {Job}
    BY <1>2, OneJob DEF SidecarInv
  <1>4. /\ k \in Rebuild /\ k.step = "written" /\ k.by = Job.by
        /\ k.items = Job.items /\ k.base = Job.base /\ k.raced = Job.raced
    BY <1>1, <1>3, JobWritten
  <1>5. DrawingFits(d) /\ d.by = Job.by /\ \A a \in Job.by : a.items \subseteq approved
    BY <1>0, <1>2, DrawnFits
  <1>6. d \in Drawing
    BY <1>0, <1>2, DrawnTyped DEF SidecarInv
  <1>7. JobFits(Job) /\ \A a \in Job.by : Given(a)
    BY <1>3 DEF SidecarInv, SidecarFits, ApprovalsGiven
  <1>8. /\ drawings \in Seq(Drawing) /\ Len(drawings) < MaxRoots
    BY <1>2, <1>7 DEF SidecarInv, SidecarTypeOK, JobFits
  <1>9. /\ drawings' \in Seq(Drawing) /\ Len(drawings') <= MaxRoots
        /\ drawings' # <<>>
        /\ DOMAIN drawings' = DOMAIN drawings \cup {Len(drawings) + 1}
        /\ \A n \in DOMAIN drawings : drawings'[n] = drawings[n]
        /\ drawings'[Len(drawings) + 1] = d
    BY <1>2, <1>6, <1>8 DEF PageBounds
  <1>10. SidecarTypeOK'
    BY <1>2, <1>4, <1>9 DEF SidecarInv, SidecarTypeOK, AtMostOne
  <1>11. ApprovalsGiven'
    <2>1. \A a : Given(a) => Given(a)'
      BY <1>2 DEF Given
    <2>2. (\A a \in approval : Given(a)) /\ \A n \in DOMAIN drawings :
             \A a \in drawings[n].by : a.items \subseteq approved
      BY DEF SidecarInv, SidecarFits, ApprovalsGiven
    <2>3. \A n \in DOMAIN drawings' : \A a \in drawings'[n].by : a.items \subseteq approved
      BY <1>5, <1>9, <2>2
    <2>4. \A a \in k.by : Given(a)
      BY <1>4, <1>7
    <2> QED
      BY <1>2, <2>1, <2>2, <2>3, <2>4 DEF ApprovalsGiven
  <1>12. JobFits(k)'
    BY <1>2, <1>4, <1>7, <1>9 DEF JobFits, Granted, Unbound
  <1>13. \A e : DrawingFits(e) => DrawingFits(e)'
    BY <1>2 DEF DrawingFits, Granted, Unbound
  <1>14. \A n \in DOMAIN drawings' : DrawingFits(drawings'[n])
    BY <1>5, <1>9 DEF SidecarInv, SidecarFits
  <1>15. AnswersFit'
    BY <1>2 DEF SidecarInv, SidecarFits, AnswersFit
  <1> QED
    BY <1>2, <1>10, <1>11, <1>12, <1>13, <1>14, <1>15 DEF SidecarInv, SidecarFits

\* A change of one drawing's report, or of a drawing by hand.
LEMMA DrawingFields ==
    ASSUME NEW d \in Drawing, NEW report \in SUBSET Report
    PROVE  LET r == [d EXCEPT !.report = report]
           IN  /\ r \in Drawing
               /\ r.by = d.by /\ r.items = d.items /\ r.base = d.base /\ r.intact = d.intact
               /\ r.raced = d.raced /\ r.report = report
  <1> DEFINE r == [d EXCEPT !.report = report]
  <1>1. r \in Drawing
    BY DEF Drawing
  <1>2. r.by = d.by /\ r.items = d.items /\ r.base = d.base
    BY DEF Drawing
  <1>3. r.intact = d.intact /\ r.raced = d.raced /\ r.report = report
    BY DEF Drawing
  <1> QED
    BY <1>1, <1>2, <1>3

LEMMA DrawingEdited ==
    ASSUME NEW d \in Drawing, NEW items \in SUBSET Placed
    PROVE  LET r == [d EXCEPT !.intact = FALSE, !.items = items]
           IN  /\ r \in Drawing
               /\ r.by = d.by /\ r.base = d.base /\ r.intact = FALSE
               /\ r.raced = d.raced /\ r.report = d.report
  <1> DEFINE r == [d EXCEPT !.intact = FALSE, !.items = items]
  <1>1. r \in Drawing
    BY DEF Drawing
  <1>2. r.by = d.by /\ r.base = d.base /\ r.intact = FALSE
    BY DEF Drawing
  <1>3. r.raced = d.raced /\ r.report = d.report
    BY DEF Drawing
  <1> QED
    BY <1>1, <1>2, <1>3

LEMMA WriteReportFits ==
    ASSUME SidecarInv, PageBounds, WriteReport
    PROVE  /\ SidecarInv'
           /\ DOMAIN drawings' = DOMAIN drawings
           /\ \A m \in DOMAIN drawings : drawings'[m].raced = drawings[m].raced
  <1>0. PICK n : n = Len(drawings)
    OBVIOUS
  <1>1. PICK d : d = [drawings[n] EXCEPT !.report = {ReportNow}]
    OBVIOUS
  <1>2. /\ rebuild # {} /\ Job.step = "written"
        /\ drawings' = [drawings EXCEPT ![n].report = {ReportNow}] /\ rebuild' = {}
        /\ UNCHANGED <<kind, render, layout, ground, observations, approval, approved, answered,
                       edits>>
    BY <1>0 DEF WriteReport, JobAt, evidence, grants
  <1>3. JobFits(Job)
    BY <1>2, OneJob DEF SidecarInv, SidecarFits
  <1>4. kind # "text" /\ drawings # <<>>
    BY <1>2, <1>3 DEF JobFits
  <1>5. /\ drawings \in Seq(Drawing) /\ n \in DOMAIN drawings
        /\ drawings[n] \in Drawing
    BY <1>0, <1>4 DEF SidecarInv, SidecarTypeOK
  <1>6. {ReportNow} \in SUBSET Report
    BY <1>2, NowReported DEF SidecarInv
  <1>7. /\ d \in Drawing
        /\ d.by = drawings[n].by /\ d.items = drawings[n].items /\ d.base = drawings[n].base
        /\ d.intact = drawings[n].intact /\ d.raced = drawings[n].raced
    BY <1>1, <1>5, <1>6, DrawingFields
  <1>8. drawings' = [drawings EXCEPT ![n] = d]
    BY <1>1, <1>2, <1>5
  <1>9. /\ drawings' \in Seq(Drawing) /\ Len(drawings') = Len(drawings)
        /\ DOMAIN drawings' = DOMAIN drawings
        /\ \A m \in DOMAIN drawings : drawings'[m] = IF m = n THEN d ELSE drawings[m]
    BY <1>5, <1>7, <1>8
  <1>10. SidecarTypeOK'
    BY <1>2, <1>9 DEF SidecarInv, SidecarTypeOK, AtMostOne
  <1>11. ApprovalsGiven'
    BY <1>2, <1>7, <1>9, <1>5 DEF SidecarInv, SidecarFits, ApprovalsGiven, Given
  <1>12. \A e : DrawingFits(e) => DrawingFits(e)'
    BY <1>2 DEF DrawingFits, Granted, Unbound
  <1>13. DrawingFits(d)
    BY <1>4, <1>5, <1>7 DEF SidecarInv, SidecarFits, DrawingFits
  <1>14. \A m \in DOMAIN drawings' : DrawingFits(drawings'[m])
    BY <1>9, <1>13 DEF SidecarInv, SidecarFits
  <1>15. AnswersFit'
    BY <1>2, <1>4 DEF SidecarInv, SidecarFits, AnswersFit
  <1>16. SidecarInv'
    BY <1>2, <1>10, <1>11, <1>12, <1>14, <1>15 DEF SidecarInv, SidecarFits
  <1> QED
    BY <1>7, <1>9, <1>16

LEMMA EditDrawingFits ==
    ASSUME SidecarInv, PageBounds, NEW n \in DOMAIN drawings, EditDrawing(n)
    PROVE  /\ SidecarInv'
           /\ DOMAIN drawings' = DOMAIN drawings
           /\ \A m \in DOMAIN drawings : drawings'[m].raced = drawings[m].raced
  <1> DEFINE items == Items \X {"altered"}
  <1>1. PICK d : d = [drawings[n] EXCEPT !.intact = FALSE, !.items = items]
    OBVIOUS
  <1>2. /\ drawings' = [drawings EXCEPT ![n].intact = FALSE, ![n].items = items]
        /\ rebuild' = Raced /\ edits' \in 0..MaxEdits
        /\ UNCHANGED <<kind, render, layout, ground, observations, approval, approved, answered>>
    BY DEF EditDrawing, Edit, evidence, grants, SidecarInv,
       SidecarTypeOK, PageBounds
  <1>3. drawings \in Seq(Drawing) /\ drawings[n] \in Drawing
    BY DEF SidecarInv, SidecarTypeOK
  <1>4. items \in SUBSET Placed
    BY DEF Placed, Readings
  <1>5. drawings' = [drawings EXCEPT ![n] = d]
    BY <1>1, <1>2, <1>3
  <1> HIDE DEF items
  <1>6. /\ d \in Drawing /\ d.by = drawings[n].by /\ d.base = drawings[n].base
        /\ d.intact = FALSE /\ d.raced = drawings[n].raced /\ d.report = drawings[n].report
    BY <1>1, <1>3, <1>4, DrawingEdited
  <1>7. /\ drawings' \in Seq(Drawing) /\ Len(drawings') = Len(drawings)
        /\ DOMAIN drawings' = DOMAIN drawings
        /\ \A m \in DOMAIN drawings : drawings'[m] = IF m = n THEN d ELSE drawings[m]
    BY <1>3, <1>5, <1>6
  <1>8. SidecarTypeOK'
    BY <1>2, <1>7, RacedTyped DEF SidecarInv, SidecarTypeOK, AtMostOne
  <1>9. DrawingFits(d)
    BY <1>3, <1>6 DEF SidecarInv, SidecarFits, DrawingFits
  <1>10. \A e : DrawingFits(e) => DrawingFits(e)'
    BY <1>2 DEF DrawingFits, Granted, Unbound
  <1>11. \A m \in DOMAIN drawings' : DrawingFits(drawings'[m])
    BY <1>7, <1>9 DEF SidecarInv, SidecarFits
  <1>12. \A a : Given(a) => Given(a)'
    BY <1>2 DEF Given
  <1>13. ASSUME NEW k \in rebuild'
         PROVE  (\A a \in k.by : Given(a)) /\ JobFits(k)'
    <2>1. PICK j \in rebuild : k = [j EXCEPT !.raced = TRUE]
      BY <1>2 DEF Raced
    <2>2. j \in Rebuild
      BY DEF SidecarInv, SidecarTypeOK
    <2>3. k.step = j.step /\ k.by = j.by /\ k.items = j.items /\ k.base = j.base /\ k.raced = TRUE
      BY <2>1, <2>2, JobRaced
    <2>4. JobFits(j) /\ \A a \in j.by : Given(a)
      BY DEF SidecarInv, SidecarFits, ApprovalsGiven
    <2>5. (k.step = "written" => kind # "text" /\ drawings # <<>>)'
      BY <1>2, <1>3, <1>7, <2>3, <2>4 DEF JobFits
    <2>6. (kind # "text" /\ k.step # "written" => Len(drawings) < MaxRoots)'
      BY <1>2, <1>7, <2>3, <2>4 DEF JobFits
    <2>7. k.step = "checked" => \E a \in k.by : k.by = {a}
      BY <2>3, <2>4 DEF JobFits
    <2>8. kind # "linetype" /\ k.step # "checked" =>
            (kind \in {"text", "hatch"} => k.items = Granted(k.by))
      BY <2>3, <2>4 DEF JobFits
    <2>9. JobFits(k)'
      BY <1>2, <2>3, <2>5, <2>6, <2>7, <2>8 DEF JobFits, Granted
    <2> QED
      BY <2>3, <2>4, <2>9
  <1>14. ApprovalsGiven'
    <2>1. \A m \in DOMAIN drawings' : \A a \in drawings'[m].by : a.items \subseteq approved
      BY <1>3, <1>6, <1>7 DEF SidecarInv, SidecarFits, ApprovalsGiven
    <2> QED
      BY <1>2, <1>12, <1>13, <2>1 DEF SidecarInv, SidecarFits, ApprovalsGiven
  <1>15. AnswersFit'
    <2>1. answered # {} => kind = "text" /\ drawings' # <<>>
      BY <1>3, <1>7 DEF SidecarInv, SidecarFits, AnswersFit
    <2>2. ASSUME NEW a \in answered, drawings'[1].intact
          PROVE  drawings'[1].items = Granted(a.by) /\ drawings'[1].base = a.base
      <3>1. 1 \in DOMAIN drawings
        BY <1>3 DEF SidecarInv, SidecarFits, AnswersFit
      <3>2. drawings'[1] = drawings[1]
        BY <1>6, <1>7, <2>2, <3>1
      <3> QED
        BY <2>2, <3>2 DEF SidecarInv, SidecarFits, AnswersFit
    <2> QED
      BY <1>2, <2>1, <2>2 DEF AnswersFit, Granted
  <1>16. SidecarInv'
    BY <1>2, <1>8, <1>10, <1>11, <1>13, <1>14, <1>15 DEF SidecarInv, SidecarFits
  <1> QED
    BY <1>6, <1>7, <1>16

LEMMA BecomingInv ==
    ASSUME SidecarInv, PageBounds, NEW job \in Rebuild, Become(job),
           JobFits(job), \A a \in job.by : Given(a)
    PROVE  SidecarInv' /\ UNCHANGED <<kind, approved, drawings>>
  <1>1. /\ rebuild' = {job}
        /\ UNCHANGED <<kind, render, layout, ground, observations, approval, approved, drawings,
                       answered, edits>>
    BY DEF Become, evidence, grants
  <1>2. SidecarTypeOK'
    BY <1>1 DEF SidecarInv, SidecarTypeOK, AtMostOne
  <1>3. SidecarFits'
    BY BecomingFits
  <1> QED
    BY <1>1, <1>2, <1>3 DEF SidecarInv

LEMMA CheckFits ==
    ASSUME SidecarInv, PageBounds, Check
    PROVE  SidecarInv' /\ UNCHANGED <<kind, approved, drawings>>
  <1>1. PICK a \in approval :
          /\ observations[a.of] = a.hash /\ a.base \in {layout, Unbound}
          /\ Become([step |-> "checked", by |-> {a}, items |-> {}, base |-> Unbound,
                          raced |-> FALSE])
    BY DEF Check
  <1>2. kind # "text" => Len(drawings) < MaxRoots
    BY DEF Check
  <1>3. PICK job : job = [step |-> "checked", by |-> {a}, items |-> {}, base |-> Unbound,
                          raced |-> FALSE]
    OBVIOUS
  <1>4. job.step = "checked" /\ job.by = {a}
    BY <1>3
  <1>5. Given(a) /\ a \in Approval
    BY DEF SidecarInv, SidecarTypeOK, SidecarFits, ApprovalsGiven
  <1>6. job \in Rebuild
    BY <1>3, <1>5 DEF Rebuild, Unbound, PageBounds
  <1>7. JobFits(job)
    BY <1>1, <1>2, <1>4 DEF JobFits
  <1> QED
    BY <1>1, <1>3, <1>4, <1>5, <1>6, <1>7, BecomingInv

\* What a rebuild has when it has checked.
LEMMA Checked ==
    ASSUME SidecarInv, JobAt("checked")
    PROVE  /\ rebuild # {} /\ Job \in Rebuild /\ Job.step = "checked"
           /\ kind # "text" => Len(drawings) < MaxRoots
           /\ \A a \in Job.by :
                /\ Job.by = {a} /\ Given(a) /\ a \in Approval
                /\ ~Job.raced => /\ observations[a.of] = a.hash
                                      /\ a.base \in {layout, Unbound}
  <1>1. rebuild # {} /\ Job.step = "checked"
    BY DEF JobAt
  <1>2. Job \in rebuild /\ Job \in Rebuild
    BY <1>1, OneJob DEF SidecarInv
  <1>3. JobFits(Job) /\ \A a \in Job.by : Given(a)
    BY <1>2 DEF SidecarInv, SidecarFits, ApprovalsGiven
  <1>4. \A a \in Job.by : a \in Approval
    BY <1>2 DEF Rebuild
  <1> QED
    BY <1>1, <1>2, <1>3, <1>4 DEF JobFits

\* A rebuild that has read what was approved, or was raced, fits.
LEMMA ReadingFits ==
    ASSUME SidecarInv, PageBounds, JobAt("checked"), NEW items \in SUBSET Placed,
           Become([Job EXCEPT !.step = "read", !.items = items, !.base = layout]),
           (Job.raced => kind \in {"text", "hatch"}) => items = Granted(Job.by)
    PROVE  SidecarInv' /\ UNCHANGED <<kind, approved, drawings>>
  <1>1. PICK job : job = [Job EXCEPT !.step = "read", !.items = items, !.base = layout]
    OBVIOUS
  <1>2. layout \in 0..Unbound
    BY DEF SidecarInv, SidecarTypeOK, Unbound, PageBounds
  <1>3. /\ job \in Rebuild /\ job.step = "read" /\ job.by = Job.by
        /\ job.items = items /\ job.base = layout /\ job.raced = Job.raced
    <2>1. Job \in Rebuild
      BY Checked
    <2>2. job.step = "read" /\ job.by = Job.by
      BY <1>1, <2>1 DEF Rebuild
    <2>3. job.items = items /\ job.base = layout /\ job.raced = Job.raced
      BY <1>1, <2>1 DEF Rebuild
    <2>4. job \in Rebuild
      BY <1>1, <1>2, <2>1 DEF Rebuild
    <2> QED
      BY <2>2, <2>3, <2>4
  <1>4. JobFits(job)
    BY <1>3, Checked DEF JobFits
  <1>5. \A a \in job.by : Given(a)
    BY <1>3, Checked
  <1> QED
    BY <1>1, <1>3, <1>4, <1>5, BecomingInv

LEMMA ReadTextFits ==
    ASSUME SidecarInv, PageBounds, ReadText
    PROVE  SidecarInv' /\ UNCHANGED <<kind, approved, drawings>>
  <1>1. JobAt("checked")
    BY DEF ReadText
  <1>2. Become([Job EXCEPT !.step = "read", !.items = Granted(Job.by),
                                     !.base = layout])
    BY DEF ReadText
  <1>3. Granted(Job.by) \in SUBSET Placed
    BY <1>1, Checked, GrantedTyped DEF Rebuild
  <1> QED
    BY <1>1, <1>2, <1>3, ReadingFits

\* What the observation says now of the approved items: what was approved, if
\* it says so still.
LEMMA ReadAgain ==
    ASSUME SidecarInv, NEW a \in Approval, Given(a)
    PROVE  LET now == {<<p[1], observations[a.of].reads[p[1]]>> : p \in a.items}
           IN  /\ now \in SUBSET Placed
               /\ observations[a.of] = a.hash => now = a.items
  <1> DEFINE now == {<<p[1], observations[a.of].reads[p[1]]>> : p \in a.items}
  <1>1. observations[a.of] \in Observation
    BY DEF Given, SidecarInv, SidecarTypeOK
  <1>2. \A p \in a.items : p[1] \in Items /\ p = <<p[1], p[2]>>
    BY DEF Approval, Placed
  <1>3. \A p \in a.items : observations[a.of].reads[p[1]] \in Readings
    BY <1>1, <1>2, ObservationRead
  <1>4. now \in SUBSET Placed
    BY <1>2, <1>3 DEF Placed
  <1>5. ASSUME observations[a.of] = a.hash PROVE now = a.items
    <2>1. \A p \in a.items : p[2] = observations[a.of].reads[p[1]]
      BY <1>5 DEF Given
    <2>2. \A p \in a.items : p = <<p[1], observations[a.of].reads[p[1]]>>
      BY <1>2, <2>1
    <2> QED
      BY <2>2
  <1> QED
    BY <1>4, <1>5

LEMMA ReadCandidatesFits ==
    ASSUME SidecarInv, PageBounds, ReadTable \/ ReadDimension
    PROVE  SidecarInv' /\ UNCHANGED <<kind, approved, drawings>>
  <1>1. ReadCandidates /\ JobAt("checked") /\ kind \in {"table", "dimension"}
    BY DEF ReadTable, ReadDimension, ReadCandidates
  <1>2. PICK a \in Job.by :
          Become([Job EXCEPT !.step = "read",
             !.items = {<<p[1], observations[a.of].reads[p[1]]>> : p \in a.items},
             !.base = layout])
    BY <1>1 DEF ReadCandidates
  <1>3. PICK now : now = {<<p[1], observations[a.of].reads[p[1]]>> : p \in a.items}
    OBVIOUS
  <1>4. /\ Job.by = {a} /\ Given(a) /\ a \in Approval
        /\ ~Job.raced => observations[a.of] = a.hash
    BY <1>1, Checked
  <1>5. now \in SUBSET Placed /\ (observations[a.of] = a.hash => now = a.items)
    BY <1>3, <1>4, ReadAgain
  <1>6. (Job.raced => kind \in {"text", "hatch"}) => now = Granted(Job.by)
    BY <1>1, <1>4, <1>5, GrantedOne
  <1>7. Become([Job EXCEPT !.step = "read", !.items = now, !.base = layout])
    BY <1>2, <1>3
  <1> QED
    BY <1>1, <1>5, <1>6, <1>7, ReadingFits

LEMMA ReadBoundariesFits ==
    ASSUME SidecarInv, PageBounds, ReadBoundaries
    PROVE  SidecarInv' /\ UNCHANGED <<kind, approved, drawings>>
  <1>1. JobAt("checked")
    BY DEF ReadBoundaries
  <1>2. PICK a \in Job.by :
          Become([Job EXCEPT !.step = "read", !.items = a.items, !.base = layout])
    BY DEF ReadBoundaries
  <1>3. Job.by = {a} /\ a \in Approval
    BY <1>1, Checked
  <1>4. a.items \in SUBSET Placed
    BY <1>3 DEF Approval
  <1>5. a.items = Granted(Job.by)
    BY <1>3, GrantedOne
  <1> QED
    BY <1>1, <1>2, <1>4, <1>5, ReadingFits

LEMMA ReadPatternsFits ==
    ASSUME SidecarInv, PageBounds, NEW o \in DOMAIN observations, ReadPatterns(o)
    PROVE  SidecarInv' /\ UNCHANGED <<kind, approved, drawings>>
  <1>1. PICK job : job = [step |-> "read", by |-> {}, items |-> Saw(o, Items),
                          base |-> layout, raced |-> FALSE]
    OBVIOUS
  <1>2. kind = "linetype" /\ Len(drawings) < MaxRoots /\ Become(job)
    BY <1>1 DEF ReadPatterns
  <1>3. Saw(o, Items) \subseteq Placed
    BY SawTyped DEF SidecarInv
  <1>4. layout \in 0..Unbound
    BY DEF SidecarInv, SidecarTypeOK, Unbound, PageBounds
  <1>5. job \in Rebuild
    BY <1>1, <1>3, <1>4 DEF Rebuild
  <1>6. job.step = "read" /\ job.by = {}
    BY <1>1
  <1>7. JobFits(job)
    BY <1>2, <1>6 DEF JobFits
  <1> QED
    BY <1>2, <1>5, <1>6, <1>7, BecomingInv

-----------------------------------------------------------------------------
(* Every step of the sidecar. *)

\* What a step never takes back.
Grows ==
    /\ kind' = kind /\ approved \subseteq approved'
    /\ DOMAIN drawings \subseteq DOMAIN drawings'
    /\ \A n \in DOMAIN drawings : drawings'[n].raced = drawings[n].raced

LEMMA ObserveAnewFits ==
    ASSUME SidecarInv, PageBounds, ObserveAnew
    PROVE  SidecarInv' /\ Grows
  <1>1. /\ observations' = Append(observations, Observed)
        /\ Len(observations) < MaxFiles
        /\ UNCHANGED <<kind, render, layout, ground, approval, approved, rebuild, drawings,
                       answered, edits>>
    BY DEF ObserveAnew, grants, results
  <1>2. Observed \in Observation
    BY DEF Observed, Observation, Readings
  <1>3. observations \in Seq(Observation)
    BY DEF SidecarInv, SidecarTypeOK
  <1>4. /\ observations' \in Seq(Observation) /\ Len(observations') <= MaxFiles
        /\ \A o \in DOMAIN observations :
             o \in DOMAIN observations' /\ observations'[o] = observations[o]
    BY <1>1, <1>2, <1>3 DEF PageBounds
  <1>5. SidecarTypeOK'
    BY <1>1, <1>4 DEF SidecarInv, SidecarTypeOK, AtMostOne
  <1>6. SidecarFits'
    BY <1>1, <1>4, ObservingFits
  <1> QED
    BY <1>1, <1>5, <1>6 DEF SidecarInv, Grows

LEMMA ObserveGridFits ==
    ASSUME SidecarInv, PageBounds, ObserveGrid
    PROVE  SidecarInv' /\ Grows
  <1>1. /\ ground' = TRUE
        /\ UNCHANGED <<kind, render, layout, observations, approval, approved, rebuild, drawings,
                       answered, edits>>
    BY DEF ObserveGrid, grants, results
  <1>2. SidecarTypeOK'
    BY <1>1 DEF SidecarInv, SidecarTypeOK, AtMostOne
  <1>3. SidecarFits'
    BY <1>1, ObservingFits
  <1> QED
    BY <1>1, <1>2, <1>3 DEF SidecarInv, Grows

LEMMA ObserveTextFits ==
    ASSUME SidecarInv, PageBounds, ObserveText
    PROVE  SidecarInv' /\ Grows
  <1>1. UNCHANGED <<kind, render, layout, approval, approved, rebuild, drawings, answered, edits>>
    BY DEF ObserveText, grants, results
  <1>2. /\ ground' \in BOOLEAN
        /\ \/ observations = <<>> /\ observations' = <<Observed>>
           \/ observations' = observations
    BY DEF ObserveText, SidecarInv, SidecarTypeOK
  <1>3. Observed \in Observation
    BY DEF Observed, Observation, Readings
  <1>4. observations' \in Seq(Observation) /\ Len(observations') <= MaxFiles
    <2>1. CASE observations' = <<Observed>>
      BY <1>3, <2>1 DEF PageBounds
    <2>2. CASE observations' = observations
      BY <2>2 DEF SidecarInv, SidecarTypeOK
    <2> QED
      BY <1>2, <2>1, <2>2
  <1>5. \A o \in DOMAIN observations :
          o \in DOMAIN observations' /\ observations'[o] = observations[o]
    BY <1>2
  <1>6. SidecarTypeOK'
    BY <1>1, <1>2, <1>4 DEF SidecarInv, SidecarTypeOK, AtMostOne
  <1>7. SidecarFits'
    BY <1>1, <1>5, ObservingFits
  <1> QED
    BY <1>1, <1>6, <1>7 DEF SidecarInv, Grows

LEMMA ApprovesFit ==
    ASSUME SidecarInv, PageBounds, NEW o \in DOMAIN observations, NEW chosen \in SUBSET Items,
           \/ ApproveText(o, chosen) \/ ApproveTable(o, chosen)
           \/ ApproveHatch(o, chosen) \/ ApproveDimension(o, chosen)
    PROVE  SidecarInv' /\ Grows
  <1>1. layout \in 0..Unbound /\ Unbound \in 0..Unbound
    BY DEF SidecarInv, SidecarTypeOK, Unbound, PageBounds
  <1>2. PICK base \in 0..Unbound : Approve(o, chosen, base)
    BY <1>1 DEF ApproveText, ApproveTable, ApproveHatch, ApproveDimension
  <1>3. SidecarInv'
    BY <1>2, ApprovingFits
  <1>4. kind' = kind /\ drawings' = drawings /\ approved \subseteq approved'
    BY <1>2 DEF Approve, results
  <1> QED
    BY <1>3, <1>4 DEF Grows

LEMMA StopFits ==
    ASSUME SidecarInv, PageBounds, Stop
    PROVE  SidecarInv' /\ Grows
  <1>1. /\ rebuild' = {}
        /\ UNCHANGED <<kind, render, layout, ground, observations, approval, approved, drawings,
                       answered, edits>>
    BY DEF Stop, evidence, grants
  <1>2. SidecarTypeOK'
    BY <1>1 DEF SidecarInv, SidecarTypeOK, AtMostOne
  <1>3. ApprovalsGiven'
    BY <1>1 DEF SidecarInv, SidecarFits, ApprovalsGiven, Given
  <1>4. \A n \in DOMAIN drawings : DrawingFits(drawings[n])'
    BY <1>1 DEF SidecarInv, SidecarFits, DrawingFits, Granted, Unbound
  <1>5. AnswersFit'
    BY <1>1 DEF SidecarInv, SidecarFits, AnswersFit, Granted
  <1> QED
    BY <1>1, <1>2, <1>3, <1>4, <1>5 DEF SidecarInv, SidecarFits, Grows

\* An observation after it was altered, or given ids.
LEMMA ObservationEdited ==
    ASSUME NEW x \in Observation, NEW i \in Items
    PROVE  /\ [x EXCEPT !.reads[i] = "altered"] \in Observation
           /\ [x EXCEPT !.named = TRUE] \in Observation
  <1>1. x.reads \in [Items -> Readings]
    BY DEF Observation
  <1>2. [x.reads EXCEPT ![i] = "altered"] \in [Items -> Readings]
    BY <1>1 DEF Readings
  <1>3. [x EXCEPT !.reads = [x.reads EXCEPT ![i] = "altered"]] \in Observation
    BY <1>2 DEF Observation
  <1>4. [x EXCEPT !.named = TRUE] \in Observation
    BY DEF Observation
  <1> QED
    BY <1>3, <1>4

\* The typing and the rest of an edit that touches no drawing.
LEMMA EditFits ==
    ASSUME SidecarInv, PageBounds,
           UNCHANGED <<kind, ground, approved, drawings, answered>>,
           render' \in 0..MaxEdits, layout' \in 0..MaxEdits, edits' \in 0..MaxEdits,
           observations' \in Seq(Observation), Len(observations') = Len(observations),
           approval' \subseteq approval, rebuild' = Raced
    PROVE  SidecarInv' /\ Grows
  <1>1. DOMAIN observations' = DOMAIN observations
    BY DEF SidecarInv, SidecarTypeOK
  <1>2. SidecarTypeOK'
    BY RacedTyped DEF SidecarInv, SidecarTypeOK, AtMostOne
  <1>3. SidecarFits'
    BY <1>1, RacingFits
  <1> QED
    BY <1>2, <1>3 DEF SidecarInv, Grows

LEMMA EditObservationFits ==
    ASSUME SidecarInv, PageBounds, NEW o \in DOMAIN observations, NEW i \in Items,
           EditObservation(o, i)
    PROVE  SidecarInv' /\ Grows
  <1>1. PICK x : x = [observations[o] EXCEPT !.reads[i] = "altered"]
    OBVIOUS
  <1>2. observations \in Seq(Observation) /\ observations[o] \in Observation
    BY DEF SidecarInv, SidecarTypeOK
  <1>3. x \in Observation
    BY <1>1, <1>2, ObservationEdited
  <1>4. /\ observations' = [observations EXCEPT ![o].reads[i] = "altered"]
        /\ edits' = edits + 1 /\ edits < MaxEdits /\ rebuild' = Raced
        /\ UNCHANGED <<kind, render, layout, ground, approval, approved, drawings, answered>>
    BY DEF EditObservation, Edit, grants
  <1>5. observations' = [observations EXCEPT ![o] = x]
    BY <1>1, <1>2, <1>4
  <1>6. observations' \in Seq(Observation) /\ Len(observations') = Len(observations)
    BY <1>2, <1>3, <1>5
  <1>7. render' \in 0..MaxEdits /\ layout' \in 0..MaxEdits /\ edits' \in 0..MaxEdits
    BY <1>4 DEF SidecarInv, SidecarTypeOK, PageBounds
  <1> QED
    BY <1>4, <1>6, <1>7, EditFits

LEMMA NameCandidatesFits ==
    ASSUME SidecarInv, PageBounds, NEW o \in DOMAIN observations, NameCandidates(o)
    PROVE  SidecarInv' /\ Grows
  <1>1. PICK x : x = [observations[o] EXCEPT !.named = TRUE]
    OBVIOUS
  <1>2. observations \in Seq(Observation) /\ observations[o] \in Observation
    BY DEF SidecarInv, SidecarTypeOK
  <1>3. x \in Observation
    BY <1>1, <1>2 DEF Observation
  <1>4. /\ observations' = [observations EXCEPT ![o].named = TRUE]
        /\ rebuild' = Raced
        /\ UNCHANGED <<kind, render, layout, ground, approval, approved, drawings, answered,
                       edits>>
    BY DEF NameCandidates, grants
  <1>5. observations' = [observations EXCEPT ![o] = x]
    BY <1>1, <1>2, <1>4
  <1>6. observations' \in Seq(Observation) /\ Len(observations') = Len(observations)
    BY <1>2, <1>3, <1>5
  <1>7. render' \in 0..MaxEdits /\ layout' \in 0..MaxEdits /\ edits' \in 0..MaxEdits
    BY <1>4 DEF SidecarInv, SidecarTypeOK
  <1> QED
    BY <1>4, <1>6, <1>7, EditFits

LEMMA ReplaceFits ==
    ASSUME SidecarInv, PageBounds, Counted,
           ReplaceRender \/ ReplaceLayout \/ Withdraw
    PROVE  SidecarInv' /\ Grows
  <1>1. /\ edits' = edits + 1 /\ edits < MaxEdits /\ rebuild' = Raced
        /\ approval' \subseteq approval
        /\ UNCHANGED <<kind, ground, observations, approved, drawings, answered>>
    BY DEF ReplaceRender, ReplaceLayout, Withdraw, Edit, evidence,
       grants
  <1>2. render' \in {render, render + 1} /\ layout' \in {layout, layout + 1}
    BY DEF ReplaceRender, ReplaceLayout, Withdraw
  <1> QED
    <2>1. /\ render' \in 0..MaxEdits /\ layout' \in 0..MaxEdits /\ edits' \in 0..MaxEdits
      BY <1>1, <1>2 DEF Counted, SidecarInv, SidecarTypeOK, PageBounds
    <2>2. observations' \in Seq(Observation) /\ Len(observations') = Len(observations)
      BY <1>1 DEF SidecarInv, SidecarTypeOK
    <2> QED
      BY <1>1, <2>1, <2>2, EditFits

LEMMA SidecarStep ==
    ASSUME SidecarInv, PageBounds, Counted, SidecarNext
    PROVE  SidecarInv' /\ Grows /\ Counted'
  <1>1. SidecarInv' /\ Grows
    <2>1. CASE ObserveGrid
      BY <2>1, ObserveGridFits
    <2>2. CASE ObserveText
      BY <2>2, ObserveTextFits
    <2>3. CASE \/ ObserveTable \/ ObserveDimension
               \/ ObserveHatch \/ ObserveLinetype
      BY <2>3, ObserveAnewFits
         DEF ObserveTable, ObserveDimension, ObserveHatch, ObserveLinetype
    <2>4. CASE \E o \in DOMAIN observations, chosen \in SUBSET Items :
                 \/ ApproveText(o, chosen) \/ ApproveTable(o, chosen)
                 \/ ApproveHatch(o, chosen) \/ ApproveDimension(o, chosen)
      BY <2>4, ApprovesFit
    <2>5. CASE \/ Check \/ ReadText \/ ReadTable \/ ReadDimension \/ ReadBoundaries
               \/ \E o \in DOMAIN observations : ReadPatterns(o)
      BY <2>5, CheckFits, ReadTextFits, ReadCandidatesFits, ReadBoundariesFits, ReadPatternsFits
         DEF Grows
    <2>6. CASE PublishText
      <3>1. kind' = kind /\ approved' = approved /\ DOMAIN drawings = {}
        BY <2>6 DEF PublishText, Answer, grants
      <3> QED
        BY <2>6, <3>1, PublishTextFits DEF Grows
    <2>7. CASE ReuseText
      <3>1. kind' = kind /\ approved' = approved /\ drawings' = drawings
        BY <2>7 DEF ReuseText, Answer, grants
      <3> QED
        BY <2>7, <3>1, ReuseTextFits DEF Grows
    <2>8. CASE WriteDrawing
      <3>1. /\ kind' = kind /\ approved' = approved
            /\ drawings' = Append(drawings, Drawn({}))
        BY <2>8 DEF WriteDrawing, grants
      <3>2. /\ DOMAIN drawings \subseteq DOMAIN drawings'
            /\ \A n \in DOMAIN drawings : drawings'[n] = drawings[n]
        BY <3>1 DEF SidecarInv, SidecarTypeOK
      <3> QED
        BY <2>8, <3>1, <3>2, WriteDrawingFits DEF Grows
    <2>9. CASE WriteReport
      <3>1. kind' = kind /\ approved' = approved
        BY <2>9 DEF WriteReport, grants
      <3> QED
        BY <2>9, <3>1, WriteReportFits DEF Grows
    <2>10. CASE Stop
      BY <2>10, StopFits
    <2>11. CASE \E o \in DOMAIN observations, i \in Items : EditObservation(o, i)
      BY <2>11, EditObservationFits
    <2>12. CASE \E o \in DOMAIN observations : NameCandidates(o)
      BY <2>12, NameCandidatesFits
    <2>13. CASE ReplaceRender \/ ReplaceLayout \/ Withdraw
      BY <2>13, ReplaceFits
    <2>14. CASE \E d \in DOMAIN drawings : EditDrawing(d)
      <3>1. kind' = kind /\ approved' = approved
        BY <2>14 DEF EditDrawing, grants
      <3> QED
        BY <2>14, <3>1, EditDrawingFits DEF Grows
    <2> QED
      BY <2>1, <2>2, <2>3, <2>4, <2>5, <2>6, <2>7, <2>8, <2>9, <2>10, <2>11, <2>12, <2>13, <2>14
         DEF SidecarNext
  <1>2. Counted'
    <2>1. render \in Nat /\ layout \in Nat /\ edits \in Nat
      BY DEF SidecarInv, SidecarTypeOK, PageBounds
    <2>2. CASE edits' = edits + 1 /\ render' \in {render, render + 1}
               /\ layout' \in {layout, layout + 1}
      BY <2>1, <2>2 DEF Counted
    <2>3. CASE UNCHANGED <<edits, render, layout>>
      BY <2>3 DEF Counted
    <2> QED
      BY <2>2, <2>3 DEF SidecarNext, ObserveGrid, ObserveText, ObserveAnew,
         ObserveTable, ObserveDimension, ObserveHatch, ObserveLinetype,
         ApproveText, ApproveTable, ApproveHatch, ApproveDimension,
         Approve, Check, ReadText, ReadTable, ReadDimension, ReadCandidates, ReadBoundaries,
         ReadPatterns, Become, PublishText, ReuseText, Answer,
         WriteDrawing, WriteReport, Stop, EditObservation,
         NameCandidates, ReplaceRender, ReplaceLayout, Withdraw,
         EditDrawing, Edit
  <1> QED
    BY <1>1, <1>2

-----------------------------------------------------------------------------
(* The page's steps, first by what they leave alone. *)

PageParts == UNION {[ids -> Part] : ids \in SUBSET Regions}

LEMMA PartsTyped ==
    ASSUME NEW ids \in SUBSET Regions, NEW parts \in [ids -> Part]
    PROVE  parts \in PageParts
  BY DEF PageParts

LEMMA NoParts == <<>> \in PageParts
  <1>1. <<>> \in [{} -> Part]
    OBVIOUS
  <1> QED
    BY <1>1, PartsTyped

LEMMA PartOfParts ==
    ASSUME NEW parts \in PageParts, NEW g \in DOMAIN parts
    PROVE  parts[g] \in Part /\ parts[g].of \in Revisions
  BY DEF PageParts, Part

\* A step that leaves the sidecar alone, but for the count of the edits.
LEMMA SidecarStays ==
    ASSUME SidecarInv, Counted, PageBounds,
           UNCHANGED <<kind, render, layout, ground, observations, approval, approved, rebuild,
                       drawings, answered>>,
           edits' \in 0..MaxEdits, edits <= edits'
    PROVE  SidecarInv' /\ Counted' /\ Grows
  <1>1. SidecarTypeOK'
    BY DEF SidecarInv, SidecarTypeOK, AtMostOne
  <1>2. ApprovalsGiven'
    BY DEF SidecarInv, SidecarFits, ApprovalsGiven, Given
  <1>3. \A j \in rebuild : JobFits(j)'
    BY DEF SidecarInv, SidecarFits, JobFits, Granted, Unbound
  <1>4. \A n \in DOMAIN drawings : DrawingFits(drawings[n])'
    BY DEF SidecarInv, SidecarFits, DrawingFits, Granted, Unbound
  <1>5. AnswersFit'
    BY DEF SidecarInv, SidecarFits, AnswersFit, Granted
  <1>6. Counted'
    BY DEF Counted, SidecarInv, SidecarTypeOK, PageBounds
  <1>7. Grows
    BY DEF Grows
  <1> QED
    BY <1>1, <1>2, <1>3, <1>4, <1>5, <1>6, <1>7 DEF SidecarInv, SidecarFits

LEMMA SidecarUnchanged ==
    ASSUME SidecarInv, Counted, PageBounds, UNCHANGED sidecar
    PROVE  SidecarInv' /\ Counted' /\ Grows
  <1>1. /\ UNCHANGED <<kind, render, layout, ground, observations, approval, approved, rebuild,
                       drawings, answered>>
        /\ edits' = edits
    BY DEF sidecar, evidence, grants, results
  <1>2. edits' \in 0..MaxEdits /\ edits <= edits'
    BY <1>1 DEF SidecarInv, SidecarTypeOK
  <1> QED
    BY <1>1, <1>2, SidecarStays

\* Region approvals are never taken back.
Standing == \A r \in Revisions : regionApprovals[r] \subseteq regionApprovals'[r]

LEMMA BoxedStays ==
    ASSUME Standing, NEW g, NEW r \in Revisions, NEW box, Boxed(g, r, box)
    PROVE  Boxed(g, r, box)'
  BY DEF Standing, Boxed

LEMMA CandidateStays ==
    ASSUME Standing, Grows, NEW g, NEW c \in Candidate, CandidateFits(g, c)
    PROVE  CandidateFits(g, c)'
  <1>1. c.of \in Revisions
    BY DEF Candidate
  <1>2. Placing(c.raced, c.items)'
    BY DEF CandidateFits, Placing, Grows
  <1>3. \A box \in c.box : Boxed(g, c.of, box)'
    BY <1>1, BoxedStays DEF CandidateFits
  <1> QED
    BY <1>2, <1>3 DEF CandidateFits

LEMMA PartsStay ==
    ASSUME Standing, Grows, NEW r \in Revisions, NEW parts \in PageParts, PartsFit(r, parts)
    PROVE  PartsFit(r, parts)'
  <1>1. PICK a \in regionApprovals[r] :
          /\ DOMAIN parts = a.ids
          /\ \A g \in a.ids :
               /\ parts[g].at = a.hash.boxes[g]
               /\ Boxed(g, parts[g].of, parts[g].from)
               /\ Placing(parts[g].raced, parts[g].items)
    BY DEF PartsFit
  <1>2. a \in regionApprovals'[r]
    BY DEF Standing
  <1>3. ASSUME NEW g \in a.ids
        PROVE  /\ Boxed(g, parts[g].of, parts[g].from)'
               /\ Placing(parts[g].raced, parts[g].items)'
    <2>1. parts[g].of \in Revisions
      BY <1>1, <1>3, PartOfParts
    <2>2. Boxed(g, parts[g].of, parts[g].from)'
      BY <1>1, <1>3, <2>1, BoxedStays
    <2>3. Placing(parts[g].raced, parts[g].items)'
      BY <1>1, <1>3 DEF Placing, Grows
    <2> QED
      BY <2>2, <2>3
  <1> QED
    BY <1>1, <1>2, <1>3 DEF PartsFit

LEMMA WorkStays ==
    ASSUME Standing, Grows, NEW w \in Work, WorkFits(w),
           \A g \in w.making : candidates'[g] = candidates[g]
    PROVE  WorkFits(w)'
  <1>1. w.revision \in Revisions /\ w.parts \in PageParts
    BY DEF Work, PageParts
  <1>2. (\E a \in regionApprovals[w.revision] : w.todo \subseteq a.ids)'
    BY <1>1 DEF WorkFits, Standing
  <1>3. (\A g \in w.making : \A c \in candidates[g] : c.of = w.revision)'
    BY DEF WorkFits
  <1>4. (w.command = "handoff" =>
           /\ kind \in {"text", "dimension", "linetype"}
           /\ w.drawing \in DOMAIN drawings
           /\ Placing(drawings[w.drawing].raced /\ kind = "dimension", w.checked))'
    BY DEF WorkFits, Grows, Placing
  <1>5. (w.command = "compose" => PartsFit(w.revision, w.parts))'
    BY <1>1, PartsStay DEF WorkFits
  <1> QED
    BY <1>2, <1>3, <1>4, <1>5 DEF WorkFits

LEMMA CompositionStays ==
    ASSUME Standing, Grows, NEW r \in Revisions, NEW x \in Composition,
           PartsFit(r, x.parts), x.report \subseteq regionApprovals[r]
    PROVE  PartsFit(r, x.parts)' /\ x.report \subseteq regionApprovals'[r]
  <1>1. x.parts \in PageParts
    BY DEF Composition, PageParts
  <1> QED
    BY <1>1, PartsStay DEF Standing

\* The data of the page, piece by piece.
LEMMA PageData ==
    ASSUME PageTypeOK
    PROVE  /\ \A r \in Revisions :
                /\ regionApprovals[r] \subseteq RegionApproval
                /\ proposals[r] \subseteq Proposal
                /\ compositions[r] \subseteq Composition
           /\ \A g \in Regions : candidates[g] \subseteq Candidate
           /\ work \subseteq Work
  BY DEF PageTypeOK

\* A step that leaves candidates, work and compositions alone.
LEMMA FitsStay ==
    ASSUME PageInv, Standing, Grows, UNCHANGED <<candidates, work, compositions>>
    PROVE  PageFits'
  <1>1. \A g \in Regions : \A c \in candidates[g] : CandidateFits(g, c)'
    BY PageData, CandidateStays DEF PageInv, PageFits
  <1>2. \A w \in work : WorkFits(w)'
    BY PageData, WorkStays DEF PageInv, PageFits
  <1>3. \A r \in Revisions : \A x \in compositions[r] :
          PartsFit(r, x.parts)' /\ x.report \subseteq regionApprovals'[r]
    BY PageData, CompositionStays DEF PageInv, PageFits
  <1> QED
    BY <1>1, <1>2, <1>3 DEF PageFits, Revisions

\* What each variable of the page holds.
LEMMA PageTyped ==
    ASSUME PageTypeOK
    PROVE  /\ proposals \in [Revisions -> SUBSET Proposal]
           /\ regionApprovals \in [Revisions -> SUBSET RegionApproval]
           /\ candidates \in [Regions -> SUBSET Candidate]
           /\ compositions \in [Revisions -> SUBSET Composition]
           /\ work \subseteq Work /\ AtMostOne(work)
           /\ \A r \in Revisions : /\ AtMostOne(proposals[r])
                                        /\ AtMostOne(regionApprovals[r])
                                        /\ AtMostOne(compositions[r])
           /\ \A g \in Regions : AtMostOne(candidates[g])
  BY DEF PageTypeOK

LEMMA ProposalTyped ==
    ASSUME NEW r \in Revisions, PageTypeOK, NEW p \in Proposal,
           proposals' = [proposals EXCEPT ![r] = {p}],
           UNCHANGED <<regionApprovals, candidates, work, compositions>>
    PROVE  PageTypeOK'
  <1>1. proposals' \in [Revisions -> SUBSET Proposal]
    BY PageTyped
  <1>2. \A q \in Revisions : AtMostOne(proposals'[q])
    BY PageTyped DEF AtMostOne
  <1> QED
    BY <1>1, <1>2 DEF PageTypeOK, AtMostOne, Revisions

LEMMA ProposeFits ==
    ASSUME PageInv, PageBounds, NEW r \in Revisions, NEW boxes \in Drafts[r],
           Propose(r, boxes)
    PROVE  PageInv'
  <1>1. PICK p : p = [boxes |-> boxes, intact |-> TRUE]
    OBVIOUS
  <1>2. /\ proposals' = [proposals EXCEPT ![r] = {p}]
        /\ UNCHANGED sidecar /\ UNCHANGED <<regionApprovals, candidates, work, compositions>>
    BY <1>1 DEF Propose
  <1>3. p \in Proposal
    BY <1>1 DEF PageBounds, Proposal
  <1>4. PageTypeOK'
    BY <1>2, <1>3, ProposalTyped DEF PageInv
  <1>5. SidecarInv' /\ Counted' /\ Grows
    BY <1>2, SidecarUnchanged DEF PageInv
  <1>6. PageFits'
    BY <1>2, <1>5, FitsStay DEF Standing
  <1> QED
    BY <1>4, <1>5, <1>6 DEF PageInv

LEMMA EditProposalFits ==
    ASSUME PageInv, PageBounds, NEW r \in Revisions, EditProposal(r)
    PROVE  PageInv'
  <1>1. PICK boxes \in [Regions -> Boxes] :
          proposals' = [proposals EXCEPT ![r] = {[boxes |-> boxes, intact |-> FALSE]}]
    BY DEF EditProposal
  <1>2. /\ edits < MaxEdits /\ edits' = edits + 1
        /\ UNCHANGED <<kind, render, layout, ground, observations, approval, approved, rebuild,
                       drawings, answered>>
        /\ UNCHANGED <<regionApprovals, candidates, work, compositions>>
    BY DEF EditProposal, Edit, evidence, grants, results
  <1>3. PICK p : p = [boxes |-> boxes, intact |-> FALSE]
    OBVIOUS
  <1>4. p \in Proposal
    BY <1>3 DEF Proposal
  <1>5. PageTypeOK'
    BY <1>1, <1>2, <1>3, <1>4, ProposalTyped DEF PageInv
  <1>6. edits' \in 0..MaxEdits /\ edits <= edits'
    BY <1>2 DEF PageInv, SidecarInv, SidecarTypeOK, PageBounds
  <1>7. SidecarInv' /\ Counted' /\ Grows
    BY <1>2, <1>6, SidecarStays DEF PageInv
  <1>8. PageFits'
    BY <1>2, <1>7, FitsStay DEF Standing
  <1> QED
    BY <1>5, <1>7, <1>8 DEF PageInv

LEMMA ApproveRegionsFits ==
    ASSUME PageInv, PageBounds, NEW r \in Revisions, NEW ids \in SUBSET Regions,
           ApproveRegions(r, ids)
    PROVE  PageInv'
  <1>1. PICK p \in proposals[r] :
          regionApprovals' = [regionApprovals EXCEPT ![r] = {[ids |-> ids, hash |-> p]}]
    BY DEF ApproveRegions
  <1>2. PICK a : a = [ids |-> ids, hash |-> p]
    OBVIOUS
  <1>3. /\ regionApprovals[r] = {}
        /\ UNCHANGED sidecar /\ UNCHANGED <<proposals, candidates, work, compositions>>
    BY DEF ApproveRegions
  <1>4. a \in RegionApproval
    BY <1>2, PageTyped DEF PageInv, RegionApproval
  <1>5. regionApprovals' = [regionApprovals EXCEPT ![r] = {a}]
    BY <1>1, <1>2
  <1>6. PageTypeOK'
    <2>1. regionApprovals' \in [Revisions -> SUBSET RegionApproval]
      BY <1>4, <1>5, PageTyped DEF PageInv
    <2>2. \A q \in Revisions : AtMostOne(regionApprovals'[q])
      BY <1>5, PageTyped DEF PageInv, AtMostOne
    <2> QED
      BY <1>3, <2>1, <2>2 DEF PageInv, PageTypeOK, AtMostOne, Revisions
  <1>7. SidecarInv' /\ Counted' /\ Grows
    BY <1>3, SidecarUnchanged DEF PageInv
  <1>8. Standing
    BY <1>3, <1>5, PageTyped DEF PageInv, Standing
  <1>9. PageFits'
    BY <1>3, <1>7, <1>8, FitsStay
  <1> QED
    BY <1>6, <1>7, <1>9 DEF PageInv

-----------------------------------------------------------------------------
\* The approval in force is the revision's, and the proposal what it approved.
LEMMA ForceIs ==
    ASSUME PageInv, NEW r \in Revisions, NEW a \in InForce(r)
    PROVE  /\ a \in regionApprovals[r] /\ a.ids \in SUBSET Regions
           /\ proposals[r] = {a.hash} /\ \A g : BoxOf(r, g) = a.hash.boxes[g]
           /\ a.hash.boxes \in [Regions -> Boxes]
  <1>1. a \in regionApprovals[r] /\ proposals[r] = {a.hash}
    BY DEF InForce
  <1>2. a \in RegionApproval
    BY <1>1, PageTyped DEF PageInv
  <1>3. a.ids \in SUBSET Regions /\ a.hash.boxes \in [Regions -> Boxes]
    BY <1>2 DEF RegionApproval, Proposal
  <1>4. \A g : BoxOf(r, g) = a.hash.boxes[g]
    <2>1. (CHOOSE p \in proposals[r] : TRUE) = a.hash
      BY <1>1
    <2> QED
      BY <2>1 DEF BoxOf
  <1> QED
    BY <1>1, <1>3, <1>4

LEMMA WorkTyped ==
    ASSUME NEW command \in {"reconstruct", "handoff", "compose"}, NEW r \in Revisions,
           NEW todo \in SUBSET Regions, NEW n \in 0..MaxRoots, NEW parts \in PageParts,
           NEW checked \in SUBSET Placed
    PROVE  [command |-> command, revision |-> r, todo |-> todo, making |-> {}, drawing |-> n,
            parts |-> parts, checked |-> checked] \in Work
  BY DEF Work, PageParts

\* A command begins, with data of its kind and fit.
LEMMA BeginFits ==
    ASSUME PageInv, PageBounds, NEW w \in Work, WorkFits(w), work' = {w},
           UNCHANGED sidecar,
           UNCHANGED <<proposals, regionApprovals, candidates, compositions>>
    PROVE  PageInv'
  <1>1. PageTypeOK'
    BY DEF PageInv, PageTypeOK, AtMostOne, Revisions
  <1>2. SidecarInv' /\ Counted' /\ Grows
    BY SidecarUnchanged DEF PageInv
  <1>3. Standing
    BY DEF Standing
  <1>4. \A g \in Regions : \A c \in candidates[g] : CandidateFits(g, c)'
    BY <1>2, <1>3, PageData, CandidateStays DEF PageInv, PageFits
  <1>5. WorkFits(w)'
    BY <1>2, <1>3, WorkStays
  <1>6. \A r \in Revisions : \A x \in compositions[r] :
          PartsFit(r, x.parts)' /\ x.report \subseteq regionApprovals'[r]
    BY <1>2, <1>3, PageData, CompositionStays DEF PageInv, PageFits
  <1>7. PageFits'
    BY <1>4, <1>5, <1>6 DEF PageFits, Revisions
  <1> QED
    BY <1>1, <1>2, <1>7 DEF PageInv

LEMMA ReconstructFits ==
    ASSUME PageInv, PageBounds, NEW r \in Revisions, Reconstruct(r)
    PROVE  PageInv'
  <1>1. PICK a \in InForce(r) : Begin("reconstruct", r, a.ids, 0, <<>>)
    BY DEF Reconstruct
  <1>2. PICK w : w = [command |-> "reconstruct", revision |-> r, todo |-> a.ids, making |-> {},
                      drawing |-> 0, parts |-> <<>>, checked |-> {}]
    OBVIOUS
  <1>3. /\ work' = {w} /\ UNCHANGED sidecar
        /\ UNCHANGED <<proposals, regionApprovals, candidates, compositions>>
    BY <1>1, <1>2 DEF Begin
  <1>4. a \in regionApprovals[r] /\ a.ids \in SUBSET Regions
    BY <1>1, ForceIs
  <1>5. w \in Work
    <2>1. 0 \in 0..MaxRoots
      BY DEF PageBounds
    <2> QED
      BY <1>2, <1>4, <2>1, NoParts, WorkTyped
  <1>6. w.revision = r /\ w.todo = a.ids /\ w.making = {} /\ w.command = "reconstruct"
    BY <1>2
  <1>7. WorkFits(w)
    BY <1>4, <1>6 DEF WorkFits
  <1> QED
    BY <1>3, <1>5, <1>7, BeginFits

LEMMA HandoffFits ==
    ASSUME PageInv, PageBounds, NEW r \in Revisions, Handoff(r)
    PROVE  PageInv'
  <1>0. PICK n : n = Len(drawings)
    OBVIOUS
  <1>1. PICK a \in InForce(r) : Begin("handoff", r, a.ids, n, <<>>)
    BY <1>0 DEF Handoff
  <1>2. /\ kind \in {"text", "dimension", "linetype"} /\ drawings # <<>> /\ drawings[n].intact
    BY <1>0 DEF Handoff, OwnerOutput
  <1>3. /\ n \in 1..MaxRoots /\ n \in DOMAIN drawings /\ drawings[n] \in Drawing
    BY <1>0, <1>2 DEF PageInv, SidecarInv, SidecarTypeOK, PageBounds
  <1>4. PICK w : w = [command |-> "handoff", revision |-> r, todo |-> a.ids, making |-> {},
                      drawing |-> n, parts |-> <<>>, checked |-> drawings[n].items]
    OBVIOUS
  <1>5. /\ work' = {w} /\ UNCHANGED sidecar
        /\ UNCHANGED <<proposals, regionApprovals, candidates, compositions>>
    BY <1>1, <1>3, <1>4 DEF Begin
  <1>6. a \in regionApprovals[r] /\ a.ids \in SUBSET Regions
    BY <1>1, ForceIs
  <1>7. drawings[n].items \in SUBSET Placed
    BY <1>3 DEF Drawing
  <1>8. w \in Work
    <2>1. n \in 0..MaxRoots
      BY <1>3 DEF PageBounds
    <2> QED
      BY <1>4, <1>6, <1>7, <2>1, NoParts, WorkTyped
  <1>9. /\ w.revision = r /\ w.todo = a.ids /\ w.making = {} /\ w.command = "handoff"
        /\ w.drawing = n /\ w.checked = drawings[n].items
    BY <1>4
  <1>10. Placing(drawings[n].raced /\ kind = "dimension", drawings[n].items)
    <2>1. DrawingFits(drawings[n]) /\ \A b \in drawings[n].by : b.items \subseteq approved
      BY <1>3 DEF PageInv, SidecarInv, SidecarFits, ApprovalsGiven
    <2>2. Granted(drawings[n].by) \subseteq approved
      BY <2>1 DEF Granted
    <2> QED
      BY <1>2, <2>1, <2>2 DEF Placing, DrawingFits
  <1>11. WorkFits(w)
    BY <1>2, <1>3, <1>6, <1>9, <1>10 DEF WorkFits
  <1> QED
    BY <1>5, <1>8, <1>11, BeginFits

\* The part a candidate gives to a page.
LEMMA PartIs ==
    ASSUME PageInv, NEW r \in Revisions, NEW a \in InForce(r), NEW g \in a.ids,
           \E c \in candidates[g] : c.box # {}
    PROVE  /\ PartOf(r, g) \in Part
           /\ PartOf(r, g).at = a.hash.boxes[g]
           /\ Boxed(g, PartOf(r, g).of, PartOf(r, g).from)
           /\ Placing(PartOf(r, g).raced, PartOf(r, g).items)
  <1>1. g \in Regions /\ BoxOf(r, g) = a.hash.boxes[g] /\ a.hash.boxes[g] \in Boxes
    BY ForceIs
  <1>2. PICK c \in candidates[g] : c.box # {}
    OBVIOUS
  <1>3. c = CHOOSE x \in candidates[g] : TRUE
    BY <1>1, PageTyped DEF PageInv, AtMostOne
  <1>4. PICK from \in c.box : from = CHOOSE b \in c.box : TRUE
    BY <1>2
  <1>5. c \in Candidate /\ CandidateFits(g, c)
    BY <1>1, PageTyped DEF PageInv, PageFits
  <1>6. PartOf(r, g) = [at |-> a.hash.boxes[g], from |-> from, of |-> c.of,
                             items |-> c.items, raced |-> c.raced]
    BY <1>1, <1>3, <1>4 DEF PartOf
  <1>7. PartOf(r, g) \in Part
    BY <1>1, <1>4, <1>5, <1>6 DEF Candidate, Part
  <1>8. Boxed(g, c.of, from) /\ Placing(c.raced, c.items)
    BY <1>4, <1>5 DEF CandidateFits
  <1> QED
    BY <1>6, <1>7, <1>8

LEMMA ComposeFits ==
    ASSUME PageInv, PageBounds, NEW r \in Revisions, Compose(r)
    PROVE  PageInv'
  <1>1. PICK a \in InForce(r) :
          /\ \A g \in a.ids : \E c \in candidates[g] : c.box # {}
          /\ Begin("compose", r, {}, 0, [g \in a.ids |-> PartOf(r, g)])
    BY DEF Compose
  <1>2. PICK parts : parts = [g \in a.ids |-> PartOf(r, g)]
    OBVIOUS
  <1>3. PICK w : w = [command |-> "compose", revision |-> r, todo |-> {}, making |-> {},
                      drawing |-> 0, parts |-> parts, checked |-> {}]
    OBVIOUS
  <1>4. /\ work' = {w} /\ UNCHANGED sidecar
        /\ UNCHANGED <<proposals, regionApprovals, candidates, compositions>>
    BY <1>1, <1>2, <1>3 DEF Begin
  <1>5. a \in regionApprovals[r] /\ a.ids \in SUBSET Regions
    BY ForceIs
  <1>6. \A g \in a.ids :
          /\ parts[g] \in Part /\ parts[g].at = a.hash.boxes[g]
          /\ Boxed(g, parts[g].of, parts[g].from)
          /\ Placing(parts[g].raced, parts[g].items)
    BY <1>1, <1>2, PartIs
  <1>7. parts \in [a.ids -> Part]
    BY <1>2, <1>6
  <1>8. parts \in PageParts
    BY <1>5, <1>7, PartsTyped
  <1>9. PartsFit(r, parts)
    BY <1>5, <1>6, <1>7 DEF PartsFit
  <1>10. w \in Work
    <2>1. 0 \in 0..MaxRoots
      BY DEF PageBounds
    <2> QED
      BY <1>3, <1>8, <2>1, WorkTyped
  <1>11. /\ w.revision = r /\ w.todo = {} /\ w.making = {} /\ w.command = "compose"
         /\ w.parts = parts
    BY <1>3
  <1>12. WorkFits(w)
    BY <1>5, <1>9, <1>11 DEF WorkFits
  <1> QED
    BY <1>4, <1>10, <1>12, BeginFits

-----------------------------------------------------------------------------
\* A command after a region of its own.
LEMMA LessIs ==
    ASSUME NEW w \in Work, NEW g, NEW v \in Less(w, g)
    PROVE  /\ v \in Work /\ v.command = w.command /\ v.revision = w.revision
           /\ v.todo \subseteq w.todo /\ v.making = {} /\ v.drawing = w.drawing
           /\ v.checked = w.checked /\ v.parts = w.parts
           /\ Less(w, g) = {v}
  <1>1. v = [w EXCEPT !.todo = @ \ {g}, !.making = {}] /\ Less(w, g) = {v}
    BY DEF Less
  <1>2. v \in Work
    BY <1>1 DEF Work
  <1>3. v.command = w.command /\ v.revision = w.revision
    BY <1>1 DEF Work
  <1>4. v.todo = w.todo \ {g} /\ v.making = {}
    BY <1>1 DEF Work
  <1>5. v.drawing = w.drawing /\ v.checked = w.checked
    BY <1>1 DEF Work
  <1>6. v.parts = w.parts
    BY <1>1 DEF Work
  <1> QED
    BY <1>1, <1>2, <1>3, <1>4, <1>5, <1>6

LEMMA LessFits ==
    ASSUME NEW w \in Work, WorkFits(w), NEW g
    PROVE  /\ Less(w, g) \subseteq Work /\ AtMostOne(Less(w, g))
           /\ \A v \in Less(w, g) : WorkFits(v) /\ v.making = {}
  <1>1. ASSUME NEW v \in Less(w, g)
        PROVE  v \in Work /\ WorkFits(v) /\ v.making = {} /\ Less(w, g) = {v}
    BY LessIs DEF WorkFits
  <1> QED
    BY <1>1 DEF AtMostOne

\* A command works on the candidate of one region.
LEMMA CandidateStep ==
    ASSUME PageInv, PageBounds, NEW g \in Regions,
           NEW made \in SUBSET Candidate, AtMostOne(made),
           candidates' = [candidates EXCEPT ![g] = made],
           \A c \in made : CandidateFits(g, c),
           work' \subseteq Work, AtMostOne(work'),
           \A w \in work' : WorkFits(w)',
           UNCHANGED sidecar, UNCHANGED <<proposals, regionApprovals, compositions>>
    PROVE  PageInv'
  <1>1. candidates' \in [Regions -> SUBSET Candidate]
    BY PageTyped DEF PageInv
  <1>2. \A h \in Regions : candidates'[h] = IF h = g THEN made ELSE candidates[h]
    BY PageTyped DEF PageInv
  <1>3. \A h \in Regions : AtMostOne(candidates'[h])
    BY <1>2, PageTyped DEF PageInv
  <1>4. PageTypeOK'
    BY <1>1, <1>3 DEF PageInv, PageTypeOK, AtMostOne, Revisions
  <1>5. SidecarInv' /\ Counted' /\ Grows
    BY SidecarUnchanged DEF PageInv
  <1>6. Standing
    BY DEF Standing
  <1>7. \A h \in Regions : \A c \in candidates'[h] : CandidateFits(h, c)
    BY <1>2 DEF PageInv, PageFits
  <1>8. \A h \in Regions : \A c \in candidates'[h] : CandidateFits(h, c)'
    BY <1>1, <1>5, <1>6, <1>7, CandidateStays
  <1>9. \A r \in Revisions : \A x \in compositions[r] :
          PartsFit(r, x.parts)' /\ x.report \subseteq regionApprovals'[r]
    BY <1>5, <1>6, PageData, CompositionStays DEF PageInv, PageFits
  <1>10. PageFits'
    BY <1>8, <1>9 DEF PageFits, Revisions
  <1> QED
    BY <1>4, <1>5, <1>10 DEF PageInv

LEMMA MakeRootFits ==
    ASSUME PageInv, PageBounds, NEW g \in Regions, MakeRoot(g)
    PROVE  PageInv'
  <1>1. PICK w \in Doing("reconstruct") :
          /\ g \in w.todo /\ w.making = {} /\ candidates[g] = {}
          /\ candidates' = [candidates EXCEPT ![g] =
               {[box |-> {}, of |-> w.revision, items |-> {}, raced |-> FALSE]}]
          /\ work' = {[w EXCEPT !.making = {g}]}
    BY DEF MakeRoot
  <1>2. UNCHANGED sidecar /\ UNCHANGED <<proposals, regionApprovals, compositions>>
    BY DEF MakeRoot
  <1>3. PICK c : c = [box |-> {}, of |-> w.revision, items |-> {}, raced |-> FALSE]
    OBVIOUS
  <1>4. PICK v : v = [w EXCEPT !.making = {g}]
    OBVIOUS
  <1>5. w \in Work /\ WorkFits(w) /\ w.command = "reconstruct"
    BY <1>1, PageTyped DEF PageInv, PageFits, Doing
  <1>6. c \in Candidate /\ c.of = w.revision /\ c.box = {} /\ c.items = {}
    BY <1>3, <1>5 DEF Candidate, Work
  <1>7. CandidateFits(g, c)
    BY <1>6 DEF CandidateFits, Placing
  <1>8. candidates' = [candidates EXCEPT ![g] = {c}] /\ candidates'[g] = {c}
    BY <1>1, <1>3, PageTyped DEF PageInv
  <1>9. v \in Work
    BY <1>4, <1>5 DEF Work
  <1>10. v.command = w.command /\ v.revision = w.revision /\ v.todo = w.todo /\ v.making = {g}
    BY <1>4, <1>5 DEF Work
  <1>11. WorkFits(v)'
    <2>1. (\E a \in regionApprovals[v.revision] : v.todo \subseteq a.ids)'
      BY <1>2, <1>5, <1>10 DEF WorkFits
    <2>2. v.making \subseteq v.todo
      BY <1>1, <1>10
    <2>3. (\A h \in v.making : \A x \in candidates[h] : x.of = v.revision)'
      BY <1>6, <1>8, <1>10
    <2> QED
      BY <1>5, <1>10, <2>1, <2>2, <2>3 DEF WorkFits
  <1>12. {c} \in SUBSET Candidate /\ AtMostOne({c})
    BY <1>6 DEF AtMostOne
  <1>13. work' = {v}
    BY <1>1, <1>4
  <1>14. work' \subseteq Work /\ AtMostOne(work') /\ \A x \in work' : WorkFits(x)'
    BY <1>9, <1>11, <1>13 DEF AtMostOne
  <1> QED
    BY <1>2, <1>7, <1>8, <1>12, <1>14, CandidateStep

\* Work that makes no directory does not look at the candidates.
LEMMA WorkIdle ==
    ASSUME PageInv, PageBounds, UNCHANGED sidecar, UNCHANGED regionApprovals,
           NEW w \in Work, WorkFits(w), w.making = {}
    PROVE  WorkFits(w)'
  <1>1. Grows
    BY SidecarUnchanged DEF PageInv
  <1>2. Standing
    BY DEF Standing
  <1> QED
    BY <1>1, <1>2, WorkStays

LEMMA WriteGeometryFits ==
    ASSUME PageInv, PageBounds, NEW g \in Regions, WriteGeometry(g)
    PROVE  PageInv'
  <1>1. PICK w \in Doing("reconstruct") : \E a \in regionApprovals[w.revision] :
          /\ w.making = {g}
          /\ candidates' = [candidates EXCEPT ![g] = {[c EXCEPT !.box = {a.hash.boxes[g]}] : c \in @}]
          /\ work' = Less(w, g)
    BY DEF WriteGeometry
  <1>2. PICK a \in regionApprovals[w.revision] :
          /\ w.making = {g}
          /\ candidates' = [candidates EXCEPT ![g] = {[c EXCEPT !.box = {a.hash.boxes[g]}] : c \in @}]
          /\ work' = Less(w, g)
    BY <1>1
  <1>3. UNCHANGED sidecar /\ UNCHANGED <<proposals, regionApprovals, compositions>>
    BY DEF WriteGeometry
  <1>4. w \in Work /\ WorkFits(w) /\ w.revision \in Revisions
    BY PageTyped DEF PageInv, PageFits, Doing, Work
  <1>5. a \in RegionApproval /\ AtMostOne(regionApprovals[w.revision])
    BY <1>4, PageTyped DEF PageInv
  <1>6. a.hash.boxes[g] \in Boxes
    BY <1>5 DEF RegionApproval, Proposal
  <1>7. g \in a.ids
    BY <1>2, <1>4, <1>5 DEF WorkFits, AtMostOne
  <1>8. PICK made : made = {[c EXCEPT !.box = {a.hash.boxes[g]}] : c \in candidates[g]}
    OBVIOUS
  <1>9. candidates' = [candidates EXCEPT ![g] = made]
    BY <1>2, <1>8, PageTyped DEF PageInv
  <1>10. ASSUME NEW k \in made PROVE k \in Candidate /\ CandidateFits(g, k)
    <2>1. PICK c \in candidates[g] : k = [c EXCEPT !.box = {a.hash.boxes[g]}]
      BY <1>8
    <2>2. c \in Candidate /\ CandidateFits(g, c) /\ c.of = w.revision
      BY <1>2, <1>4, PageTyped DEF PageInv, PageFits, WorkFits
    <2>3. k \in Candidate
      BY <1>6, <2>1, <2>2 DEF Candidate
    <2>4. k.box = {a.hash.boxes[g]} /\ k.of = c.of /\ k.items = c.items
      BY <2>1, <2>2 DEF Candidate
    <2>5. k.raced = c.raced
      BY <2>1, <2>2 DEF Candidate
    <2>6. Boxed(g, k.of, a.hash.boxes[g])
      BY <1>7, <2>2, <2>4 DEF Boxed
    <2>7. Placing(k.raced, k.items)
      BY <2>2, <2>4, <2>5 DEF CandidateFits
    <2> QED
      BY <2>3, <2>4, <2>6, <2>7 DEF CandidateFits
  <1>11. AtMostOne(made)
    <2>1. \A x, y \in candidates[g] : x = y
      BY PageTyped DEF PageInv, AtMostOne
    <2>2. ASSUME NEW k \in made, NEW m \in made PROVE k = m
      <3>1. PICK x \in candidates[g] : k = [x EXCEPT !.box = {a.hash.boxes[g]}]
        BY <1>8
      <3>2. PICK y \in candidates[g] : m = [y EXCEPT !.box = {a.hash.boxes[g]}]
        BY <1>8
      <3>3. x = y
        BY <2>1
      <3> QED
        BY <3>1, <3>2, <3>3
    <2> QED
      BY <2>2 DEF AtMostOne
  <1>12. made \in SUBSET Candidate
    BY <1>10
  <1>13. work' \subseteq Work /\ AtMostOne(work') /\ \A x \in work' : WorkFits(x)'
    BY <1>2, <1>3, <1>4, LessFits, WorkIdle
  <1> QED
    BY <1>3, <1>9, <1>10, <1>11, <1>12, <1>13, CandidateStep

LEMMA HandOverFits ==
    ASSUME PageInv, PageBounds, NEW g \in Regions, HandOver(g)
    PROVE  PageInv'
  <1> DEFINE Lying(w, a) == {p \in drawings[w.drawing].items : p[1] \in Inside[a.hash.boxes[g]]}
             Moved(w) == (drawings[w.drawing].raced /\ kind = "dimension")
                         \/ drawings[w.drawing].items # w.checked
  <1>1. PICK w \in Doing("handoff") : \E a \in regionApprovals[w.revision] :
          \E c \in candidates[g] :
            /\ candidates' = [candidates EXCEPT ![g] =
                 {[c EXCEPT !.items = @ \cup Lying(w, a),
                            !.raced = @ \/ (drawings[w.drawing].raced /\ kind = "dimension")
                                        \/ drawings[w.drawing].items # w.checked]}]
            /\ work' = Less(w, g)
    BY DEF HandOver
  <1>2. PICK a \in regionApprovals[w.revision], c \in candidates[g] :
          /\ candidates' = [candidates EXCEPT ![g] =
               {[c EXCEPT !.items = @ \cup Lying(w, a),
                          !.raced = @ \/ (drawings[w.drawing].raced /\ kind = "dimension")
                                      \/ drawings[w.drawing].items # w.checked]}]
          /\ work' = Less(w, g)
    BY <1>1
  <1>3. UNCHANGED sidecar /\ UNCHANGED <<proposals, regionApprovals, compositions>>
    BY DEF HandOver
  <1>4. w \in Work /\ WorkFits(w) /\ w.command = "handoff"
    BY PageTyped DEF PageInv, PageFits, Doing
  <1>5. c \in Candidate /\ CandidateFits(g, c)
    BY PageTyped DEF PageInv, PageFits
  <1>6. /\ w.drawing \in DOMAIN drawings
        /\ Placing(drawings[w.drawing].raced /\ kind = "dimension", w.checked)
    BY <1>4 DEF WorkFits
  <1>7. drawings[w.drawing] \in Drawing
    BY <1>6 DEF PageInv, SidecarInv, SidecarTypeOK
  <1>8. PICK lying : lying = Lying(w, a)
    OBVIOUS
  <1>9. lying \subseteq drawings[w.drawing].items /\ lying \in SUBSET Placed
    BY <1>7, <1>8 DEF Drawing
  <1>10. PICK moved \in BOOLEAN : moved <=> Moved(w)
    OBVIOUS
  <1>11. PICK k : k = [c EXCEPT !.items = c.items \cup lying, !.raced = c.raced \/ moved]
    OBVIOUS
  <1>12. candidates' = [candidates EXCEPT ![g] = {k}]
    BY <1>2, <1>5, <1>8, <1>10, <1>11, PageTyped DEF PageInv
  <1>13. k \in Candidate
    BY <1>5, <1>9, <1>11 DEF Candidate
  <1>14. k.box = c.box /\ k.of = c.of /\ k.items = c.items \cup lying
    BY <1>5, <1>11 DEF Candidate
  <1>15. k.raced <=> c.raced \/ moved
    BY <1>5, <1>11 DEF Candidate
  <1>16. Placing(k.raced, k.items)
    <2>1. SUFFICES ASSUME kind # "linetype", ~k.raced PROVE k.items \subseteq approved
      BY DEF Placing
    <2>2. ~c.raced /\ ~Moved(w)
      BY <1>10, <1>15, <2>1
    <2>3. c.items \subseteq approved
      BY <1>5, <2>1, <2>2 DEF CandidateFits, Placing
    <2>4. lying \subseteq approved
      BY <1>6, <1>9, <2>1, <2>2 DEF Placing
    <2> QED
      BY <1>14, <2>3, <2>4
  <1>17. CandidateFits(g, k)
    BY <1>5, <1>14, <1>16 DEF CandidateFits
  <1>18. {k} \in SUBSET Candidate /\ AtMostOne({k})
    BY <1>13 DEF AtMostOne
  <1>19. \A v \in Less(w, g) : WorkFits(v) /\ v \in Work /\ v.making = {}
    BY <1>4, LessFits
  <1>20. work' \subseteq Work /\ AtMostOne(work') /\ \A x \in work' : WorkFits(x)'
    BY <1>2, <1>3, <1>4, <1>19, LessFits, WorkIdle
  <1> QED
    BY <1>3, <1>12, <1>17, <1>18, <1>20, CandidateStep

\* A page is written, or reported.
LEMMA CompositionStep ==
    ASSUME PageInv, PageBounds, NEW r \in Revisions, NEW x \in Composition,
           compositions' = [compositions EXCEPT ![r] = {x}],
           PartsFit(r, x.parts), x.report \subseteq regionApprovals[r],
           work' \subseteq work,
           UNCHANGED sidecar, UNCHANGED <<proposals, regionApprovals, candidates>>
    PROVE  PageInv'
  <1>1. compositions' \in [Revisions -> SUBSET Composition]
    BY PageTyped DEF PageInv
  <1>2. \A q \in Revisions : compositions'[q] = IF q = r THEN {x} ELSE compositions[q]
    BY PageTyped DEF PageInv
  <1>3. \A q \in Revisions : AtMostOne(compositions'[q])
    BY <1>2, PageTyped DEF PageInv, AtMostOne
  <1>4. PageTypeOK'
    BY <1>1, <1>3 DEF PageInv, PageTypeOK, AtMostOne, Revisions
  <1>5. SidecarInv' /\ Counted' /\ Grows
    BY SidecarUnchanged DEF PageInv
  <1>6. Standing
    BY DEF Standing
  <1>7. \A g \in Regions : \A c \in candidates[g] : CandidateFits(g, c)'
    BY <1>5, <1>6, PageData, CandidateStays DEF PageInv, PageFits
  <1>8. \A w \in work' : WorkFits(w)'
    BY <1>5, <1>6, PageData, WorkStays DEF PageInv, PageFits
  <1>9. ASSUME NEW q \in Revisions, NEW y \in compositions'[q]
        PROVE  PartsFit(q, y.parts)' /\ y.report \subseteq regionApprovals'[q]
    <2>1. y \in Composition /\ PartsFit(q, y.parts) /\ y.report \subseteq regionApprovals[q]
      BY <1>2, PageTyped DEF PageInv, PageFits
    <2> QED
      BY <1>5, <1>6, <2>1, CompositionStays
  <1>10. PageFits'
    BY <1>7, <1>8, <1>9 DEF PageFits, Revisions
  <1> QED
    BY <1>4, <1>5, <1>10 DEF PageInv

LEMMA WriteCompositionFits ==
    ASSUME PageInv, PageBounds, WriteComposition
    PROVE  PageInv'
  <1>1. PICK w \in Doing("compose") :
          compositions' = [compositions EXCEPT ![w.revision] = {[parts |-> w.parts, report |-> {}]}]
    BY DEF WriteComposition
  <1>2. /\ work' = work /\ UNCHANGED sidecar
        /\ UNCHANGED <<proposals, regionApprovals, candidates>>
    BY DEF WriteComposition
  <1>3. PICK x : x = [parts |-> w.parts, report |-> {}]
    OBVIOUS
  <1>4. w \in Work /\ WorkFits(w) /\ w.command = "compose"
    BY PageTyped DEF PageInv, PageFits, Doing
  <1>5. w.revision \in Revisions /\ x \in Composition
    BY <1>3, <1>4 DEF Work, Composition
  <1>6. PartsFit(w.revision, x.parts) /\ x.report \subseteq regionApprovals[w.revision]
    BY <1>3, <1>4 DEF WorkFits
  <1> QED
    BY <1>1, <1>2, <1>3, <1>5, <1>6, CompositionStep

LEMMA ReportCompositionFits ==
    ASSUME PageInv, PageBounds, ReportComposition
    PROVE  PageInv'
  <1>1. PICK w \in Doing("compose") : \E c \in compositions[w.revision] :
          compositions' = [compositions EXCEPT ![w.revision] =
            {[c EXCEPT !.report = regionApprovals[w.revision]]}]
    BY DEF ReportComposition
  <1>2. PICK c \in compositions[w.revision] :
          compositions' = [compositions EXCEPT ![w.revision] =
            {[c EXCEPT !.report = regionApprovals[w.revision]]}]
    BY <1>1
  <1>3. /\ work' = {} /\ UNCHANGED sidecar
        /\ UNCHANGED <<proposals, regionApprovals, candidates>>
    BY DEF ReportComposition
  <1>4. w.revision \in Revisions
    BY PageTyped DEF PageInv, Doing, Work
  <1>5. c \in Composition /\ PartsFit(w.revision, c.parts)
    BY <1>4, PageTyped DEF PageInv, PageFits
  <1>6. regionApprovals[w.revision] \in SUBSET RegionApproval
    BY <1>4, PageTyped DEF PageInv
  <1>7. PICK x : x = [c EXCEPT !.report = regionApprovals[w.revision]]
    OBVIOUS
  <1>8. x \in Composition
    BY <1>5, <1>6, <1>7 DEF Composition
  <1>9. x.parts = c.parts /\ x.report = regionApprovals[w.revision]
    BY <1>5, <1>7 DEF Composition
  <1> QED
    BY <1>2, <1>3, <1>4, <1>5, <1>7, <1>8, <1>9, CompositionStep

LEMMA StopWorkFits ==
    ASSUME PageInv, PageBounds, StopWork
    PROVE  PageInv'
  <1>1. /\ work' = {} /\ UNCHANGED sidecar
        /\ UNCHANGED <<proposals, regionApprovals, candidates, compositions>>
    BY DEF StopWork
  <1>2. SidecarInv' /\ Counted' /\ Grows
    BY <1>1, SidecarUnchanged DEF PageInv
  <1>3. Standing
    BY <1>1 DEF Standing
  <1>4. PageTypeOK'
    BY <1>1 DEF PageInv, PageTypeOK, AtMostOne, Revisions
  <1>5. \A g \in Regions : \A c \in candidates[g] : CandidateFits(g, c)'
    BY <1>2, <1>3, PageData, CandidateStays DEF PageInv, PageFits
  <1>6. \A r \in Revisions : \A x \in compositions[r] :
          PartsFit(r, x.parts)' /\ x.report \subseteq regionApprovals'[r]
    BY <1>2, <1>3, PageData, CompositionStays DEF PageInv, PageFits
  <1>7. PageFits'
    BY <1>1, <1>5, <1>6 DEF PageFits, Revisions
  <1> QED
    BY <1>2, <1>4, <1>7 DEF PageInv

-----------------------------------------------------------------------------
LEMMA PageInvInit ==
    ASSUME PageBounds, FidelityInit
    PROVE  PageInv
  <1>1. SidecarTypeOK
    <2>1. observations \in Seq(Observation) /\ Len(observations) <= MaxFiles
      BY DEF FidelityInit, SidecarInit, PageBounds
    <2>2. drawings \in Seq(Drawing) /\ Len(drawings) <= MaxRoots
      BY DEF FidelityInit, SidecarInit, PageBounds
    <2>3. /\ kind \in Kinds /\ ground \in BOOLEAN
          /\ render \in 0..MaxEdits /\ layout \in 0..MaxEdits /\ edits \in 0..MaxEdits
      <3>1. kind \in Kinds
        BY DEF FidelityInit, SidecarInit
      <3>2. ground = FALSE /\ render = 0 /\ layout = 0 /\ edits = 0
        BY DEF FidelityInit, SidecarInit
      <3>3. ground \in BOOLEAN
        BY <3>2
      <3>4. 0 \in 0..MaxEdits
        BY DEF PageBounds
      <3> QED
        BY <3>1, <3>2, <3>3, <3>4
    <2>4. approval = {} /\ rebuild = {} /\ approved = {} /\ answered = {}
      BY DEF FidelityInit, SidecarInit
    <2> QED
      BY <2>1, <2>2, <2>3, <2>4 DEF SidecarTypeOK, AtMostOne
  <1>2. SidecarFits
    <2>1. DOMAIN drawings = {}
      BY DEF FidelityInit, SidecarInit
    <2> QED
      BY <2>1 DEF FidelityInit, SidecarInit, SidecarFits, ApprovalsGiven, AnswersFit
  <1>3. Counted
    BY DEF FidelityInit, SidecarInit, Counted
  <1>4. PageTypeOK
    BY DEF FidelityInit, PageInit, PageTypeOK, AtMostOne
  <1>5. PageFits
    BY DEF FidelityInit, PageInit, PageFits
  <1> QED
    BY <1>1, <1>2, <1>3, <1>4, <1>5 DEF PageInv, SidecarInv

LEMMA PageStep ==
    ASSUME PageBounds, PageInv, [FidelityNext]_(fidelity)
    PROVE  PageInv'
  <1>1. CASE SidecarNext /\ UNCHANGED page
    <2>1. UNCHANGED <<proposals, regionApprovals, candidates, work, compositions>>
      BY <1>1 DEF page
    <2>2. SidecarInv' /\ Counted' /\ Grows
      BY <1>1, SidecarStep DEF PageInv
    <2>3. PageTypeOK'
      BY <2>1 DEF PageInv, PageTypeOK, AtMostOne, Revisions
    <2>4. PageFits'
      BY <2>1, <2>2, FitsStay DEF Standing
    <2> QED
      BY <2>2, <2>3, <2>4 DEF PageInv
  <1>2. CASE \E r \in Revisions : \E boxes \in Drafts[r] : Propose(r, boxes)
    BY <1>2, ProposeFits
  <1>3. CASE \E r \in Revisions : \E ids \in SUBSET Regions : ApproveRegions(r, ids)
    BY <1>3, ApproveRegionsFits
  <1>4. CASE \E r \in Revisions :
               Reconstruct(r) \/ Handoff(r) \/ Compose(r) \/ EditProposal(r)
    BY <1>4, ReconstructFits, HandoffFits, ComposeFits, EditProposalFits
  <1>5. CASE \E g \in Regions : MakeRoot(g) \/ WriteGeometry(g) \/ HandOver(g)
    BY <1>5, MakeRootFits, WriteGeometryFits, HandOverFits
  <1>6. CASE WriteComposition \/ ReportComposition \/ StopWork
    BY <1>6, WriteCompositionFits, ReportCompositionFits, StopWorkFits
  <1>7. CASE UNCHANGED fidelity
    <2>1. /\ UNCHANGED sidecar
          /\ UNCHANGED <<proposals, regionApprovals, candidates, work, compositions>>
      BY <1>7 DEF fidelity, page
    <2>2. SidecarInv' /\ Counted' /\ Grows
      BY <2>1, SidecarUnchanged DEF PageInv
    <2>3. PageTypeOK'
      BY <2>1 DEF PageInv, PageTypeOK, AtMostOne, Revisions
    <2>4. PageFits'
      BY <2>1, <2>2, FitsStay DEF Standing
    <2> QED
      BY <2>2, <2>3, <2>4 DEF PageInv
  <1> QED
    BY <1>1, <1>2, <1>3, <1>4, <1>5, <1>6, <1>7 DEF FidelityNext

\* What the invariant says of drawings and pages is what was to be shown.
LEMMA PageInvShows ==
    ASSUME PageBounds, PageInv
    PROVE  ApprovedIsDrawn
  <1>1. FidelityTypeOK
    BY DEF PageInv, SidecarInv, FidelityTypeOK
  <1>2. EmittedIsApproved
    <2>1. ASSUME kind # "linetype", NEW n \in DOMAIN drawings
          PROVE  /\ drawings[n].intact /\ (drawings[n].raced => kind \in {"text", "hatch"})
                      => drawings[n].items = Granted(drawings[n].by)
                 /\ ~drawings[n].raced =>
                      \A a \in drawings[n].by : a.base \in {drawings[n].base, Unbound}
      BY <2>1 DEF PageInv, SidecarInv, SidecarFits, DrawingFits
    <2>2. ASSUME NEW a \in answered, drawings[1].intact
          PROVE  drawings[1].items = Granted(a.by) /\ drawings[1].base = a.base
      BY <2>2 DEF PageInv, SidecarInv, SidecarFits, AnswersFit
    <2> QED
      BY <2>1, <2>2 DEF EmittedIsApproved
  <1>3. PlacedIsApproved
    <2>1. ASSUME kind # "linetype", NEW g \in Regions, NEW c \in candidates[g], ~c.raced
          PROVE  c.items \subseteq approved
      BY <2>1 DEF PageInv, PageFits, CandidateFits, Placing
    <2>2. ASSUME kind # "linetype", NEW r \in Revisions, NEW x \in compositions[r],
                 NEW g \in DOMAIN x.parts, ~x.parts[g].raced
          PROVE  x.parts[g].items \subseteq approved
      BY <2>2 DEF PageInv, PageFits, PartsFit, Placing
    <2> QED
      BY <2>1, <2>2 DEF PlacedIsApproved
  <1>4. ComposedIsApproved
    <2>1. ASSUME NEW r \in Revisions, NEW x \in compositions[r]
          PROVE  \E a \in regionApprovals[r] :
                   /\ x.report \subseteq {a}
                   /\ DOMAIN x.parts = a.ids
                   /\ \A g \in a.ids :
                        /\ x.parts[g].at = a.hash.boxes[g]
                        /\ \E b \in regionApprovals[x.parts[g].of] :
                             g \in b.ids /\ x.parts[g].from = b.hash.boxes[g]
      <3>1. PICK a \in regionApprovals[r] :
              /\ DOMAIN x.parts = a.ids
              /\ \A g \in a.ids :
                   /\ x.parts[g].at = a.hash.boxes[g]
                   /\ Boxed(g, x.parts[g].of, x.parts[g].from)
        BY DEF PageInv, PageFits, PartsFit
      <3>2. x.report \subseteq {a}
        BY PageTyped DEF PageInv, PageFits, AtMostOne
      <3> QED
        BY <3>1, <3>2 DEF Boxed
    <2> QED
      BY <2>1 DEF ComposedIsApproved
  <1> QED
    BY <1>1, <1>2, <1>3, <1>4 DEF ApprovedIsDrawn, PagesAreApproved

\* What a rebuild draws of text, tables, dimensions and hatches is what was
\* approved, upon the base that was approved, and a page is composed of what
\* was approved, in the boxes approved, of regions of an approved revision:
\* however files are edited by hand and commands killed in between, and but
\* for what was read again, unchecked, after it had changed.
THEOREM ApprovedIsWhatIsDrawn ==
    ASSUME PageBounds
    PROVE  FidelitySpec => []ApprovedIsDrawn
  <1>1. FidelityInit => PageInv
    BY PageInvInit
  <1>2. PageInv /\ [FidelityNext]_(fidelity) => PageInv'
    BY PageStep
  <1>3. PageInv => ApprovedIsDrawn
    BY PageInvShows
  <1> QED
    BY <1>1, <1>2, <1>3, PTL DEF FidelitySpec

-----------------------------------------------------------------------------
(***************************************************************************)
(* The files of a page (PageOutput), for any number of runs and events.    *)
(***************************************************************************)
OutputBounds == MaxEvents \in Nat /\ Output!Other \notin Runs

\* One of a set, or none.
Single(S) == {{}} \cup {{x} : x \in S}

OutputTyped ==
    /\ file \in [Output!Names -> Single([by : Output!Owners, content : Output!Contents])]
    /\ oPc \in [Runs -> 1 .. 29]
    /\ bytes \in [Runs -> Output!Contents]
    /\ temporary \in [Runs -> [Output!Names -> SUBSET Output!Contents]]
    /\ expected \in [Runs -> [Output!Names -> Output!Contents]]
    /\ entry \in [Runs -> [Output!Names -> SUBSET Output!Contents]]
    /\ changed \in [Runs -> 0 .. 2]
    /\ after \in [Runs -> SUBSET Output!Names] /\ swapped \in [Runs -> SUBSET Output!Names]
    /\ adopted \in [Runs -> SUBSET Output!Names]

\* Where a run has a temporary file.
Writing(f, n) ==
    \/ f = "png" /\ n \in 3 .. 4
    \/ f = "candidates" /\ (n \in 7 .. 10 \/ n \in 24 .. 25)
    \/ f = "ir" /\ n \in 8 .. 13
    \/ f = "view" /\ n \in 18 .. 19

\* Where the run has checked a file that it published last.
FileChecked(f, n) ==
    /\ n # 28
    /\ \/ f = "png" /\ n >= 6
       \/ f = "ir" /\ n >= 15
       \/ f = "candidates" /\ (n \in 12 .. 24 \/ n >= 27)
       \/ f = "view" /\ n >= 21

TemporaryFits(r) ==
    \A f \in Output!Names :
        temporary[r][f] # {} => Writing(f, oPc[r]) \/ (oPc[r] = 28 /\ r \in stuck)

\* Where what it holds is still to be hashed.
Drafted(f, n) ==
    \/ f = "candidates" /\ (n \in 7 .. 9 \/ n = 24)
    \/ f = "ir" /\ n \in 8 .. 12
    \/ f = "view" /\ n = 18

\* What a temporary file holds before it is hashed, unless others wrote into it.
DraftFits(r) ==
    /\ oPc[r] \in 8 .. 12 => temporary[r]["ir"] = {bytes[r]} \/ "ir" \in adopted[r]
    /\ oPc[r] \in 7 .. 9 =>
          temporary[r]["candidates"] = {bytes[r]} \/ "candidates" \in adopted[r]
    /\ oPc[r] = 24 =>
          temporary[r]["candidates"] \subseteq entry[r]["candidates"] \/ "candidates" \in adopted[r]

OwnFits(r) ==
    \A f \in Output!Names :
        FileChecked(f, oPc[r]) => f \in after[r] \/ file[f] = {[by |-> r, content |-> expected[r][f]]}

ExpectedFits(r) ==
    /\ oPc[r] >= 13 /\ oPc[r] # 28 => expected[r]["ir"] = bytes[r] \/ "ir" \in adopted[r]
    /\ oPc[r] \in 10 .. 23 =>
          expected[r]["candidates"] = bytes[r] \/ "candidates" \in adopted[r]
    /\ oPc[r] >= 25 /\ oPc[r] # 28 =>
          expected[r]["candidates"] \in entry[r]["candidates"] \/ "candidates" \in adopted[r]

EntryFits(r) ==
    /\ oPc[r] <= 15 => entry[r]["ir"] = {}
    /\ oPc[r] <= 16 => entry[r]["candidates"] = {}
    /\ oPc[r] >= 16 /\ oPc[r] # 28 => entry[r]["ir"] = {bytes[r]} \/ "ir" \in swapped[r]
    /\ oPc[r] >= 17 /\ oPc[r] # 28 =>
          /\ entry[r]["candidates"] # {}
          /\ entry[r]["candidates"] = {bytes[r]} \/ "candidates" \in swapped[r]
    /\ oPc[r] >= 22 /\ oPc[r] # 28 =>
          "view" \in swapped[r]
          \/ (entry[r]["view"] = {expected[r]["view"]} /\ "view" \notin adopted[r])

\* The page is that of the PDF, or changed since; and a view that was cut of
\* another page was cut before it changed back.
Shown(c) == \A x \in file["png"] : x.content = c

\* A view with content c is of the page of the PDF, or of a page changed since.
CutFits(r, c) ==
    \/ c = bytes[r]
    \/ changed[r] >= 1 /\ (Shown(bytes[r]) => changed[r] = 2)

ViewFits(r) ==
    /\ oPc[r] >= 9 /\ oPc[r] # 28 =>
          /\ Shown(bytes[r]) \/ changed[r] >= 1
          /\ "png" \in after[r] \/ expected[r]["png"] = bytes[r]
    /\ oPc[r] = 18 => "view" \in adopted[r] \/ \A c \in temporary[r]["view"] : CutFits(r, c)
    /\ oPc[r] >= 19 /\ oPc[r] # 28 => "view" \in adopted[r] \/ CutFits(r, expected[r]["view"])
    /\ oPc[r] >= 23 /\ oPc[r] # 28 =>
          expected[r]["view"] = bytes[r] \/ changed[r] = 2 \/ "view" \in adopted[r]

RunFits(r) ==
    /\ TemporaryFits(r) /\ DraftFits(r) /\ OwnFits(r) /\ ExpectedFits(r)
    /\ EntryFits(r) /\ ViewFits(r)

\* A complete manifest says what its run, which has ended, had read.
ManifestFits ==
    \A m \in manifest :
        /\ m.run \in Runs /\ m.status \in {"in_progress", "failed", "complete"}
        /\ m.status = "complete" => oPc[m.run] = 29 /\ m.entry = entry[m.run]

OutputInv == OutputTyped /\ (\A r \in Runs : RunFits(r)) /\ ManifestFits

-----------------------------------------------------------------------------
\* Where a run stands before each of its steps.
LEMMA StepsDomain == DOMAIN Output!Steps = 1 .. 27 /\ Len(Output!Steps) = 27
  <1>1. DOMAIN Output!Steps = 1 .. 27
    BY DEF Output!Steps
  <1>2. Len(Output!Steps) = 27
    BY DEF Output!Steps
  <1> QED
    BY <1>1, <1>2

\* What is done at each step, and to which file.
Kind(n) ==
    IF n \in {2, 6, 7, 17, 23} THEN "write"
    ELSE IF n \in {3, 9, 12, 18, 24} THEN "hash"
    ELSE IF n \in {4, 10, 13, 19, 25} THEN "move"
    ELSE IF n \in {5, 11, 14, 20, 26} THEN "verify"
    ELSE IF n \in {8, 22} THEN "look"
    ELSE IF n \in {15, 16, 21} THEN "read"
    ELSE IF n \in {1} THEN "start"
    ELSE "complete"

Subject(n) ==
    IF n \in {6, 9, 10, 11, 16, 23, 24, 25, 26} THEN "candidates"
    ELSE IF n \in {7, 12, 13, 14, 15} THEN "ir"
    ELSE IF n \in {17, 18, 19, 20, 21} THEN "view"
    ELSE "png"

LEMMA StepTable ==
    ASSUME NEW n \in 1 .. 27
    PROVE  Output!Steps[n] = <<Kind(n), Subject(n)>>
  <1>1. CASE n \in 1 .. 7
    BY <1>1 DEF Output!Steps, Output!Write, Output!Hash, Output!Move, Output!Verify, Kind, Subject
  <1>2. CASE n \in 8 .. 14
    BY <1>2 DEF Output!Steps, Output!Write, Output!Hash, Output!Move, Output!Verify, Kind, Subject
  <1>3. CASE n \in 15 .. 21
    BY <1>3 DEF Output!Steps, Output!Write, Output!Hash, Output!Move, Output!Verify, Kind, Subject
  <1>4. CASE n \in 22 .. 27
    BY <1>4 DEF Output!Steps, Output!Write, Output!Hash, Output!Move, Output!Verify, Kind, Subject
  <1> QED
    BY <1>1, <1>2, <1>3, <1>4

LEMMA StandsAt ==
    ASSUME NEW r \in Runs, oPc \in [Runs -> 1 .. 29], NEW what, NEW f,
           Output!At(r, <<what, f>>)
    PROVE  oPc[r] \in 1 .. 27 /\ what = Kind(oPc[r]) /\ f = Subject(oPc[r])
  <1>1. oPc[r] \in 1 .. 27 /\ Output!Steps[oPc[r]] = <<what, f>>
    BY StepsDomain DEF Output!At
  <1>2. <<what, f>> = <<Kind(oPc[r]), Subject(oPc[r])>>
    BY <1>1, StepTable
  <1> QED
    BY <1>1, <1>2

LEMMA WritesAt ==
    ASSUME NEW r \in Runs, NEW f \in Output!Names, oPc \in [Runs -> 1 .. 29],
           Output!At(r, Output!Write(f))
    PROVE  \/ f = "png" /\ oPc[r] = 2
           \/ f = "candidates" /\ oPc[r] \in {6, 23}
           \/ f = "ir" /\ oPc[r] = 7
           \/ f = "view" /\ oPc[r] = 17
  <1>1. Output!At(r, <<"write", f>>)
    BY DEF Output!Write
  <1>2. oPc[r] \in 1 .. 27 /\ "write" = Kind(oPc[r]) /\ f = Subject(oPc[r])
    BY <1>1, StandsAt
  <1> QED
    BY <1>2 DEF Kind, Subject

LEMMA HashesAt ==
    ASSUME NEW r \in Runs, NEW f \in Output!Names, oPc \in [Runs -> 1 .. 29],
           Output!At(r, Output!Hash(f))
    PROVE  \/ f = "png" /\ oPc[r] = 3
           \/ f = "candidates" /\ oPc[r] \in {9, 24}
           \/ f = "ir" /\ oPc[r] = 12
           \/ f = "view" /\ oPc[r] = 18
  <1>1. Output!At(r, <<"hash", f>>)
    BY DEF Output!Hash
  <1>2. oPc[r] \in 1 .. 27 /\ "hash" = Kind(oPc[r]) /\ f = Subject(oPc[r])
    BY <1>1, StandsAt
  <1> QED
    BY <1>2 DEF Kind, Subject

LEMMA MovesAt ==
    ASSUME NEW r \in Runs, NEW f \in Output!Names, oPc \in [Runs -> 1 .. 29],
           Output!At(r, Output!Move(f))
    PROVE  \/ f = "png" /\ oPc[r] = 4
           \/ f = "candidates" /\ oPc[r] \in {10, 25}
           \/ f = "ir" /\ oPc[r] = 13
           \/ f = "view" /\ oPc[r] = 19
  <1>1. Output!At(r, <<"move", f>>)
    BY DEF Output!Move
  <1>2. oPc[r] \in 1 .. 27 /\ "move" = Kind(oPc[r]) /\ f = Subject(oPc[r])
    BY <1>1, StandsAt
  <1> QED
    BY <1>2 DEF Kind, Subject

LEMMA VerifiesAt ==
    ASSUME NEW r \in Runs, NEW f \in Output!Names, oPc \in [Runs -> 1 .. 29],
           Output!At(r, Output!Verify(f))
    PROVE  \/ f = "png" /\ oPc[r] = 5
           \/ f = "candidates" /\ oPc[r] \in {11, 26}
           \/ f = "ir" /\ oPc[r] = 14
           \/ f = "view" /\ oPc[r] = 20
  <1>1. Output!At(r, <<"verify", f>>)
    BY DEF Output!Verify
  <1>2. oPc[r] \in 1 .. 27 /\ "verify" = Kind(oPc[r]) /\ f = Subject(oPc[r])
    BY <1>1, StandsAt
  <1> QED
    BY <1>2 DEF Kind, Subject

LEMMA ReadsAt ==
    ASSUME NEW r \in Runs, NEW f \in Output!Names, oPc \in [Runs -> 1 .. 29],
           Output!At(r, <<"read", f>>)
    PROVE  \/ f = "ir" /\ oPc[r] = 15
           \/ f = "candidates" /\ oPc[r] = 16
           \/ f = "view" /\ oPc[r] = 21
  <1>1. Output!At(r, <<"read", f>>)
    OBVIOUS
  <1>2. oPc[r] \in 1 .. 27 /\ "read" = Kind(oPc[r]) /\ f = Subject(oPc[r])
    BY <1>1, StandsAt
  <1> QED
    BY <1>2 DEF Kind, Subject

LEMMA LooksAt ==
    ASSUME NEW r \in Runs, oPc \in [Runs -> 1 .. 29], Output!At(r, <<"look", "png">>)
    PROVE  oPc[r] \in {8, 22}
  <1>1. Output!At(r, <<"look", "png">>)
    OBVIOUS
  <1>2. oPc[r] \in 1 .. 27 /\ "look" = Kind(oPc[r]) /\ "png" = Subject(oPc[r])
    BY <1>1, StandsAt
  <1> QED
    BY <1>2 DEF Kind, Subject

LEMMA CompletesAt ==
    ASSUME NEW r \in Runs, oPc \in [Runs -> 1 .. 29], Output!At(r, <<"complete", "png">>)
    PROVE  oPc[r] = 27
  <1>1. Output!At(r, <<"complete", "png">>)
    OBVIOUS
  <1>2. oPc[r] \in 1 .. 27 /\ "complete" = Kind(oPc[r]) /\ "png" = Subject(oPc[r])
    BY <1>1, StandsAt
  <1> QED
    BY <1>2 DEF Kind, Subject

LEMMA EndsAt ==
    Output!Failed = 28 /\ Output!Done = 29 /\ \A r : Output!Running(r) <=> oPc[r] \in 2 .. 27
  BY StepsDomain DEF Output!Failed, Output!Done, Output!Running

-----------------------------------------------------------------------------
\* What of a run the others' steps leave alone.
Kept(q) ==
    /\ oPc'[q] = oPc[q] /\ bytes'[q] = bytes[q] /\ temporary'[q] = temporary[q]
    /\ expected'[q] = expected[q] /\ entry'[q] = entry[q] /\ swapped'[q] = swapped[q]
    /\ adopted'[q] = adopted[q]
    /\ q \in stuck => q \in stuck'

\* A run to which nothing happens stands as it stood.
LEMMA UntouchedFits ==
    ASSUME NEW q \in Runs, RunFits(q), Kept(q), file' = file, changed'[q] = changed[q],
           after'[q] = after[q]
    PROVE  RunFits(q)'
  <1> USE DEF Kept
  <1>1. TemporaryFits(q)'
    BY DEF RunFits, TemporaryFits, Writing, Output!Names
  <1>2. OwnFits(q)'
    BY DEF RunFits, OwnFits, FileChecked, Output!Names
  <1>3. ExpectedFits(q)'
    BY DEF RunFits, ExpectedFits
  <1>4. EntryFits(q)'
    BY DEF RunFits, EntryFits
  <1>5. ViewFits(q)'
    BY DEF RunFits, ViewFits, CutFits, Shown
  <1>6. DraftFits(q)'
    BY DEF RunFits, DraftFits
  <1> QED
    BY <1>1, <1>2, <1>3, <1>4, <1>5, <1>6 DEF RunFits

\* A file that somebody else moves or writes is noted by every run that counts on it.
LEMMA ShakenFits ==
    ASSUME NEW q \in Runs, OutputTyped, RunFits(q), Kept(q), NEW f \in Output!Names, NEW who,
           who # q, NEW x, file' = [file EXCEPT ![f] = {x}], Output!Shake(f, who)
    PROVE  RunFits(q)'
  <1> USE DEF Kept
  <1>1. /\ oPc[q] \in 1 .. 29 /\ changed[q] \in 0 .. 2
        /\ \A g \in Output!Names : g # f => file'[g] = file[g]
    BY DEF OutputTyped
  <1>2. /\ oPc[q] \in 2 .. 27 \/ oPc[q] = 29 => after'[q] = after[q] \cup {f}
        /\ oPc[q] \in {1, 28} => after'[q] = after[q]
        /\ f # "png" => changed'[q] = changed[q]
        /\ f = "png" /\ (oPc[q] \in 2 .. 27 \/ oPc[q] = 29) =>
              changed'[q] = IF changed[q] < 2 THEN changed[q] + 1 ELSE changed[q]
    <2>1. Output!Running(q) <=> oPc[q] \in 2 .. 27
      BY EndsAt
    <2> QED
      BY <2>1, EndsAt, <1>1 DEF Output!Shake
  <1>3. TemporaryFits(q)'
    BY DEF RunFits, TemporaryFits, Writing, Output!Names
  <1>4. OwnFits(q)'
    <2> SUFFICES ASSUME NEW g \in Output!Names, FileChecked(g, oPc[q]), g \notin after'[q]
                 PROVE  file'[g] = {[by |-> q, content |-> expected[q][g]]}
      BY DEF OwnFits
    <2>1. oPc[q] \in 2 .. 27 \/ oPc[q] = 29
      BY <1>1 DEF FileChecked
    <2>2. g # f /\ g \notin after[q]
      BY <1>2, <2>1
    <2> QED
      BY <1>1, <2>2 DEF RunFits, OwnFits
  <1>5. ExpectedFits(q)'
    BY DEF RunFits, ExpectedFits
  <1>6. EntryFits(q)'
    BY DEF RunFits, EntryFits
  <1>7. ViewFits(q)'
    <2>1. CASE f = "png"
      <3>1. CASE oPc[q] \in 2 .. 27 \/ oPc[q] = 29
        <4>1. changed'[q] = (IF changed[q] < 2 THEN changed[q] + 1 ELSE changed[q])
          BY <2>1, <3>1, <1>2
        <4>2. changed'[q] >= 1 /\ (changed[q] >= 1 => changed'[q] = 2)
              /\ (changed[q] = 2 => changed'[q] = 2)
          BY <4>1, <1>1
        <4>3. ASSUME NEW c, CutFits(q, c) PROVE CutFits(q, c)'
          BY <4>2, <4>3, <1>1 DEF CutFits
        <4>4. oPc[q] = 18 =>
                "view" \in adopted[q] \/ \A c \in temporary[q]["view"] : CutFits(q, c)'
          BY <4>3 DEF RunFits, ViewFits
        <4>5. oPc[q] >= 19 /\ oPc[q] # 28 =>
                "view" \in adopted[q] \/ CutFits(q, expected[q]["view"])'
          BY <4>3 DEF RunFits, ViewFits
        <4>6. oPc[q] >= 23 /\ oPc[q] # 28 =>
                expected[q]["view"] = bytes[q] \/ changed'[q] = 2 \/ "view" \in adopted[q]
          BY <4>2 DEF RunFits, ViewFits
        <4>7. "png" \in after'[q]
          BY <1>2, <2>1, <3>1
        <4> QED
          BY <4>2, <4>4, <4>5, <4>6, <4>7, <1>1 DEF ViewFits, CutFits
      <3>2. CASE ~(oPc[q] \in 2 .. 27 \/ oPc[q] = 29)
        BY <3>2, <1>1 DEF ViewFits
      <3> QED
        BY <3>1, <3>2
    <2>2. CASE f # "png"
      <3>1. file'["png"] = file["png"] /\ changed'[q] = changed[q]
        BY <2>2, <1>1, <1>2 DEF Output!Names
      <3>2. "png" \in after[q] => "png" \in after'[q]
        BY <1>1, <1>2
      <3> QED
        BY <3>1, <3>2 DEF RunFits, ViewFits, CutFits, Shown
    <2> QED
      BY <2>1, <2>2
  <1>8. DraftFits(q)'
    BY DEF RunFits, DraftFits
  <1> QED
    BY <1>3, <1>4, <1>5, <1>6, <1>7, <1>8 DEF RunFits

\* The manifest rests, or says something other than that its page is complete.
LEMMA ManifestKept ==
    ASSUME OutputInv, NEW r \in Runs, oPc[r] # 29,
           \A q \in Runs \ {r} : oPc'[q] = oPc[q] /\ entry'[q] = entry[q],
           \/ manifest' = manifest
           \/ \E e : \E status \in {"in_progress", "failed"} :
                 manifest' = {[run |-> r, status |-> status, entry |-> e]}
    PROVE  ManifestFits'
  <1>1. CASE manifest' = manifest
    BY <1>1 DEF OutputInv, ManifestFits
  <1>2. CASE ~(manifest' = manifest)
    BY <1>2 DEF ManifestFits
  <1> QED
    BY <1>1, <1>2

\* A step of a run that moves no file.
LEMMA OwnStep ==
    ASSUME OutputInv, NEW r \in Runs, oPc[r] # 29, OutputTyped', file' = file, RunFits(r)',
           \A q \in Runs \ {r} : Kept(q) /\ changed'[q] = changed[q] /\ after'[q] = after[q],
           \/ manifest' = manifest
           \/ \E e : \E status \in {"in_progress", "failed"} :
                 manifest' = {[run |-> r, status |-> status, entry |-> e]}
    PROVE  OutputInv'
  <1>1. ManifestFits'
    BY ManifestKept DEF Kept
  <1>2. ASSUME NEW q \in Runs PROVE RunFits(q)'
    <2>1. RunFits(q)
      BY DEF OutputInv
    <2> QED
      BY <2>1, UntouchedFits
  <1> QED
    BY <1>1, <1>2 DEF OutputInv

LEMMA OutputStarts ==
    ASSUME OutputBounds, Output!Init
    PROVE  OutputInv
  <1> USE DEF Output!Init, Output!Absent
  <1>1. OutputTyped
    BY DEF OutputTyped, Output!Contents, Output!Foreign, Single
  <1>2. ASSUME NEW r \in Runs PROVE RunFits(r)
    BY DEF RunFits, TemporaryFits, DraftFits, OwnFits, ExpectedFits, EntryFits, ViewFits,
       FileChecked, Writing, Output!Names
  <1> QED
    BY <1>1, <1>2 DEF OutputInv, ManifestFits

LEMMA ForgetTyped ==
    ASSUME OutputTyped, NEW r \in Runs, Output!Forget(r)
    PROVE  /\ bytes' \in [Runs -> Output!Contents]
           /\ expected' \in [Runs -> [Output!Names -> Output!Contents]]
           /\ entry' \in [Runs -> [Output!Names -> SUBSET Output!Contents]]
           /\ changed' \in [Runs -> 0 .. 2]
           /\ after' \in [Runs -> SUBSET Output!Names]
           /\ swapped' \in [Runs -> SUBSET Output!Names]
           /\ adopted' \in [Runs -> SUBSET Output!Names]
           /\ \A q \in Runs \ {r} :
                 /\ bytes'[q] = bytes[q] /\ expected'[q] = expected[q] /\ entry'[q] = entry[q]
                 /\ changed'[q] = changed[q] /\ after'[q] = after[q]
                 /\ swapped'[q] = swapped[q] /\ adopted'[q] = adopted[q]
  <1>1. /\ [f \in Output!Names |-> Output!Foreign] \in [Output!Names -> Output!Contents]
        /\ [f \in Output!Names |-> Output!Absent] \in [Output!Names -> SUBSET Output!Contents]
        /\ Output!Foreign \in Output!Contents
    BY DEF Output!Contents, Output!Absent
  <1> QED
    BY <1>1 DEF OutputTyped, Output!Forget

LEMMA FailKeeps ==
    ASSUME OutputInv, NEW r \in Runs, oPc[r] # 29, Output!Fail(r)
    PROVE  OutputInv'
  <1>1. /\ oPc' = [oPc EXCEPT ![r] = 28] /\ Output!Cleanup(r)
        /\ \/ manifest' = {[run |-> r, status |-> "failed", entry |-> entry[r]]}
           \/ manifest' = manifest
        /\ Output!Forget(r) /\ file' = file
    BY EndsAt DEF Output!Fail, Output!Says
  <1>2. OutputTyped
    BY DEF OutputInv
  <1>3. PICK left \in SUBSET Output!Names :
           /\ temporary' = [temporary EXCEPT ![r] =
                 [f \in Output!Names |-> IF f \in left THEN temporary[r][f] ELSE {}]]
           /\ stuck' = IF left = {} THEN stuck ELSE stuck \cup {r}
    BY <1>1 DEF Output!Cleanup, Output!Absent
  <1>4. OutputTyped'
    <2>1. oPc' \in [Runs -> 1 .. 29]
      BY <1>1, <1>2 DEF OutputTyped
    <2>2. [f \in Output!Names |-> IF f \in left THEN temporary[r][f] ELSE {}]
             \in [Output!Names -> SUBSET Output!Contents]
      BY <1>2 DEF OutputTyped
    <2>3. temporary' \in [Runs -> [Output!Names -> SUBSET Output!Contents]]
      BY <1>2, <1>3, <2>2 DEF OutputTyped
    <2>4. file' \in [Output!Names -> Single([by : Output!Owners, content : Output!Contents])]
      BY <1>1, <1>2 DEF OutputTyped
    <2> QED
      BY <1>1, <1>2, <2>1, <2>3, <2>4, ForgetTyped DEF OutputTyped
  <1>5. ASSUME NEW q \in Runs \ {r}
        PROVE  Kept(q) /\ changed'[q] = changed[q] /\ after'[q] = after[q]
    <2>1. /\ bytes'[q] = bytes[q] /\ expected'[q] = expected[q] /\ entry'[q] = entry[q]
          /\ changed'[q] = changed[q] /\ after'[q] = after[q]
          /\ swapped'[q] = swapped[q] /\ adopted'[q] = adopted[q]
      BY <1>1, <1>2, ForgetTyped
    <2>2. oPc'[q] = oPc[q] /\ temporary'[q] = temporary[q]
      BY <1>1, <1>2, <1>3 DEF OutputTyped
    <2>3. q \in stuck => q \in stuck'
      BY <1>3
    <2> QED
      BY <2>1, <2>2, <2>3 DEF Kept
  <1>6. RunFits(r)'
    <2>1. oPc'[r] = 28
      BY <1>1, <1>2 DEF OutputTyped
    <2>2. \A f \in Output!Names : temporary'[r][f] # {} => r \in stuck'
      <3> SUFFICES ASSUME NEW f \in Output!Names, temporary'[r][f] # {} PROVE r \in stuck'
        OBVIOUS
      <3>1. temporary'[r][f] = IF f \in left THEN temporary[r][f] ELSE {}
        BY <1>2, <1>3 DEF OutputTyped
      <3>2. left # {}
        BY <3>1
      <3> QED
        BY <1>3, <3>2
    <2>3. TemporaryFits(r)'
      BY <2>1, <2>2 DEF TemporaryFits
    <2> QED
      BY <2>1, <2>3 DEF RunFits, DraftFits, OwnFits, ExpectedFits, EntryFits, ViewFits, FileChecked
  <1>7. \/ manifest' = manifest
        \/ \E e : \E status \in {"in_progress", "failed"} :
              manifest' = {[run |-> r, status |-> status, entry |-> e]}
    BY <1>1
  <1> QED
    BY <1>1, <1>4, <1>5, <1>6, <1>7, OwnStep

LEMMA KillKeeps ==
    ASSUME OutputInv, NEW r \in Runs, Output!Kill(r)
    PROVE  OutputInv'
  <1>1. /\ oPc[r] \in 2 .. 27 /\ oPc' = [oPc EXCEPT ![r] = 28] /\ stuck' = stuck \cup {r}
        /\ Output!Forget(r) /\ file' = file /\ manifest' = manifest /\ temporary' = temporary
    BY EndsAt DEF Output!Kill, Output!output
  <1>2. OutputTyped /\ OutputTyped'
    <2>1. OutputTyped
      BY DEF OutputInv
    <2>2. oPc' \in [Runs -> 1 .. 29]
      BY <1>1, <2>1 DEF OutputTyped
    <2>3. /\ temporary' \in [Runs -> [Output!Names -> SUBSET Output!Contents]]
          /\ file' \in [Output!Names -> Single([by : Output!Owners, content : Output!Contents])]
      BY <1>1, <2>1 DEF OutputTyped
    <2> QED
      BY <1>1, <2>1, <2>2, <2>3, ForgetTyped DEF OutputTyped
  <1>3. ASSUME NEW q \in Runs \ {r}
        PROVE  Kept(q) /\ changed'[q] = changed[q] /\ after'[q] = after[q]
    BY <1>1, <1>2, ForgetTyped DEF OutputTyped, Kept
  <1>4. RunFits(r)'
    <2>1. oPc'[r] = 28 /\ r \in stuck'
      BY <1>1, <1>2 DEF OutputTyped
    <2> QED
      BY <2>1 DEF RunFits, TemporaryFits, DraftFits, OwnFits, ExpectedFits, EntryFits, ViewFits,
         FileChecked
  <1> QED
    BY <1>1, <1>2, <1>3, <1>4, OwnStep

LEMMA StartKeeps ==
    ASSUME OutputInv, NEW r \in Runs, Output!Start(r)
    PROVE  OutputInv'
  <1>1. PICK v \in Output!Versions : bytes' = [bytes EXCEPT ![r] = v]
    BY DEF Output!Start
  <1>2. /\ oPc[r] = 1 /\ oPc' = [oPc EXCEPT ![r] = oPc[r] + 1]
        /\ manifest' = {[run |-> r, status |-> "in_progress", entry |-> entry[r]]}
        /\ file' = file /\ temporary' = temporary /\ expected' = expected /\ entry' = entry
        /\ stuck' = stuck /\ changed' = changed /\ after' = after /\ swapped' = swapped
        /\ adopted' = adopted
    BY DEF Output!Start, Output!Go, Output!Says, Output!history
  <1>3. OutputTyped /\ OutputTyped'
    <2>1. OutputTyped
      BY DEF OutputInv
    <2>2. oPc' \in [Runs -> 1 .. 29]
      BY <1>2, <2>1 DEF OutputTyped
    <2>3. bytes' \in [Runs -> Output!Contents]
      BY <1>1, <2>1 DEF OutputTyped, Output!Contents
    <2> QED
      BY <1>2, <2>1, <2>2, <2>3 DEF OutputTyped
  <1>4. ASSUME NEW q \in Runs \ {r}
        PROVE  Kept(q) /\ changed'[q] = changed[q] /\ after'[q] = after[q]
    BY <1>1, <1>2, <1>3 DEF OutputTyped, Kept
  <1>5. RunFits(r)'
    <2>1. oPc'[r] = 2 /\ RunFits(r)
      BY <1>2, <1>3 DEF OutputTyped, OutputInv
    <2>2. TemporaryFits(r)'
      BY <1>2, <2>1 DEF RunFits, TemporaryFits, Writing, Output!Names
    <2> QED
      BY <1>2, <2>1, <2>2 DEF RunFits, DraftFits, OwnFits, ExpectedFits, EntryFits, ViewFits,
         FileChecked
  <1>6. \E e : \E status \in {"in_progress", "failed"} :
           manifest' = {[run |-> r, status |-> status, entry |-> e]}
    BY <1>2
  <1>7. oPc[r] # 29 /\ file' = file
    BY <1>2
  <1> QED
    BY <1>3, <1>4, <1>5, <1>6, <1>7, OwnStep

LEMMA WriteKeeps ==
    ASSUME OutputInv, NEW r \in Runs, NEW f \in Output!Names, Output!WriteTemporary(r, f)
    PROVE  OutputInv'
  <1>1. PICK c \in Output!Made(r, f) : temporary' = [temporary EXCEPT ![r][f] = {c}]
    BY DEF Output!WriteTemporary
  <1>2. /\ oPc' = [oPc EXCEPT ![r] = oPc[r] + 1]
        /\ adopted' = [adopted EXCEPT ![r] = adopted[r] \ {f}]
        /\ manifest' = manifest /\ file' = file /\ bytes' = bytes /\ entry' = entry
        /\ expected' = expected /\ stuck' = stuck /\ changed' = changed /\ after' = after
        /\ swapped' = swapped
    BY DEF Output!WriteTemporary, Output!Go, Output!memory, Output!output
  <1>3. OutputTyped /\ RunFits(r)
    BY DEF OutputInv
  <1>4. \/ f = "png" /\ oPc[r] = 2
        \/ f = "candidates" /\ oPc[r] \in {6, 23}
        \/ f = "ir" /\ oPc[r] = 7
        \/ f = "view" /\ oPc[r] = 17
    <2>1. Output!At(r, Output!Write(f)) /\ oPc \in [Runs -> 1 .. 29]
      BY <1>3 DEF Output!WriteTemporary, OutputTyped
    <2> QED
      BY <2>1, WritesAt
  <1>5. /\ c \in Output!Contents
        /\ f \in {"png", "ir"} \/ oPc[r] = 6 => c = bytes[r]
        /\ f = "candidates" /\ entry[r]["candidates"] # {} => c \in entry[r]["candidates"]
        /\ f = "view" => \E x \in file["png"] : x.content = c
    <2>1. CASE f = "view"
      <3>1. PICK x \in file["png"] : x.content = c
        BY <1>1, <2>1 DEF Output!Made
      <3>2. c \in Output!Contents
        BY <1>3, <3>1 DEF OutputTyped, Single, Output!Names
      <3> QED
        BY <2>1, <3>1, <3>2, <1>4
    <2>2. CASE f # "view"
      <3>1. entry[r][f] \in SUBSET Output!Contents /\ bytes[r] \in Output!Contents
        BY <1>3 DEF OutputTyped
      <3>2. oPc[r] = 6 => f = "candidates" /\ entry[r]["candidates"] = {}
        BY <1>3, <1>4 DEF RunFits, EntryFits
      <3> QED
        BY <1>1, <2>2, <3>1, <3>2 DEF Output!Made, Output!Absent
    <2> QED
      BY <2>1, <2>2
  <1>6. OutputTyped'
    <2>1. oPc' \in [Runs -> 1 .. 29]
      BY <1>2, <1>3, <1>4 DEF OutputTyped
    <2>2. temporary' \in [Runs -> [Output!Names -> SUBSET Output!Contents]]
      BY <1>1, <1>3, <1>5 DEF OutputTyped
    <2>3. adopted' \in [Runs -> SUBSET Output!Names]
      BY <1>2, <1>3 DEF OutputTyped
    <2> QED
      BY <1>2, <1>3, <2>1, <2>2, <2>3 DEF OutputTyped
  <1>7. ASSUME NEW q \in Runs \ {r}
        PROVE  Kept(q) /\ changed'[q] = changed[q] /\ after'[q] = after[q]
    BY <1>1, <1>2, <1>3 DEF OutputTyped, Kept
  <1>8. RunFits(r)'
    <2>1. /\ oPc'[r] = oPc[r] + 1 /\ temporary'[r][f] = {c}
          /\ \A g \in Output!Names \ {f} : temporary'[r][g] = temporary[r][g]
          /\ \A g \in Output!Names \ {f} : g \in adopted'[r] <=> g \in adopted[r]
      BY <1>1, <1>2, <1>3, <1>4 DEF OutputTyped
    <2>2. TemporaryFits(r)'
      BY <1>2, <1>3, <1>4, <2>1 DEF RunFits, TemporaryFits, Writing, Output!Names
    <2>3. OwnFits(r)'
      BY <1>2, <1>3, <1>4, <2>1 DEF RunFits, OwnFits, FileChecked, Output!Names
    <2>4. ExpectedFits(r)'
      BY <1>2, <1>3, <1>4, <2>1 DEF RunFits, ExpectedFits, Output!Names
    <2>5. EntryFits(r)'
      BY <1>2, <1>3, <1>4, <2>1 DEF RunFits, EntryFits, Output!Names
    <2>6. ViewFits(r)'
      <3>1. CASE f = "view"
        <4>1. Shown(bytes[r]) \/ changed[r] >= 1
          BY <1>3, <1>4, <3>1 DEF RunFits, ViewFits
        <4>2. CutFits(r, c)
          BY <1>5, <3>1, <4>1 DEF CutFits, Shown
        <4> QED
          BY <1>2, <1>3, <1>4, <2>1, <3>1, <4>1, <4>2 DEF RunFits, ViewFits, CutFits, Shown
      <3>2. CASE f # "view"
        BY <1>2, <1>3, <1>4, <2>1, <3>2 DEF RunFits, ViewFits, CutFits, Shown, Output!Names
      <3> QED
        BY <3>1, <3>2
    <2>7. DraftFits(r)'
      <3>1. oPc[r] = 23 => c \in entry[r]["candidates"]
        BY <1>3, <1>4, <1>5 DEF RunFits, EntryFits
      <3> QED
        BY <1>2, <1>3, <1>4, <1>5, <2>1, <3>1 DEF RunFits, DraftFits, Output!Names
    <2> QED
      BY <2>2, <2>3, <2>4, <2>5, <2>6, <2>7 DEF RunFits
  <1> QED
    BY <1>2, <1>4, <1>6, <1>7, <1>8, OwnStep

LEMMA HashKeeps ==
    ASSUME OutputInv, NEW r \in Runs, NEW f \in Output!Names, Output!HashTemporary(r, f)
    PROVE  OutputInv'
  <1>1. PICK c \in temporary[r][f] : expected' = [expected EXCEPT ![r][f] = c]
    BY DEF Output!HashTemporary
  <1>2. /\ oPc' = [oPc EXCEPT ![r] = oPc[r] + 1]
        /\ manifest' = manifest /\ file' = file /\ bytes' = bytes /\ entry' = entry
        /\ temporary' = temporary /\ stuck' = stuck /\ changed' = changed /\ after' = after
        /\ swapped' = swapped /\ adopted' = adopted
    BY DEF Output!HashTemporary, Output!Go, Output!history, Output!output
  <1>3. OutputTyped /\ RunFits(r)
    BY DEF OutputInv
  <1>4. \/ f = "png" /\ oPc[r] = 3
        \/ f = "candidates" /\ oPc[r] \in {9, 24}
        \/ f = "ir" /\ oPc[r] = 12
        \/ f = "view" /\ oPc[r] = 18
    <2>1. Output!At(r, Output!Hash(f)) /\ oPc \in [Runs -> 1 .. 29]
      BY <1>3 DEF Output!HashTemporary, OutputTyped
    <2> QED
      BY <2>1, HashesAt
  <1>5. OutputTyped'
    <2>1. oPc' \in [Runs -> 1 .. 29]
      BY <1>2, <1>3, <1>4 DEF OutputTyped
    <2>2. c \in Output!Contents
      BY <1>1, <1>3 DEF OutputTyped
    <2>3. expected' \in [Runs -> [Output!Names -> Output!Contents]]
      BY <1>1, <1>3, <2>2 DEF OutputTyped
    <2> QED
      BY <1>2, <1>3, <2>1, <2>3 DEF OutputTyped
  <1>6. ASSUME NEW q \in Runs \ {r}
        PROVE  Kept(q) /\ changed'[q] = changed[q] /\ after'[q] = after[q]
    BY <1>1, <1>2, <1>3 DEF OutputTyped, Kept
  <1>7. RunFits(r)'
    <2>1. /\ oPc'[r] = oPc[r] + 1 /\ expected'[r][f] = c
          /\ \A g \in Output!Names \ {f} : expected'[r][g] = expected[r][g]
      BY <1>1, <1>2, <1>3, <1>4 DEF OutputTyped
    <2>2. TemporaryFits(r)'
      BY <1>2, <1>3, <1>4, <2>1 DEF RunFits, TemporaryFits, Writing, Output!Names
    <2>3. OwnFits(r)'
      <3> SUFFICES ASSUME NEW g \in Output!Names, FileChecked(g, oPc'[r]), g \notin after[r]
                   PROVE  file[g] = {[by |-> r, content |-> expected'[r][g]]}
        BY <1>2 DEF OwnFits
      <3>1. g # f /\ FileChecked(g, oPc[r])
        BY <1>4, <2>1 DEF FileChecked, Output!Names
      <3> QED
        BY <1>3, <2>1, <3>1 DEF RunFits, OwnFits
    <2>4. ExpectedFits(r)'
      <3>1. oPc[r] = 12 => c = bytes[r] \/ "ir" \in adopted[r]
        BY <1>1, <1>3, <1>4 DEF RunFits, DraftFits
      <3>2. oPc[r] = 9 => c = bytes[r] \/ "candidates" \in adopted[r]
        BY <1>1, <1>3, <1>4 DEF RunFits, DraftFits
      <3>3. oPc[r] = 24 => c \in entry[r]["candidates"] \/ "candidates" \in adopted[r]
        BY <1>1, <1>3, <1>4 DEF RunFits, DraftFits
      <3> QED
        BY <1>2, <1>3, <1>4, <2>1, <3>1, <3>2, <3>3 DEF RunFits, ExpectedFits, Output!Names
    <2>5. EntryFits(r)'
      BY <1>2, <1>3, <1>4, <2>1 DEF RunFits, EntryFits, Output!Names
    <2>6. ViewFits(r)'
      <3>1. oPc[r] = 18 => "view" \in adopted[r] \/ CutFits(r, c)
        BY <1>1, <1>3, <1>4 DEF RunFits, ViewFits
      <3> QED
        BY <1>2, <1>3, <1>4, <2>1, <3>1 DEF RunFits, ViewFits, CutFits, Shown, Output!Names
    <2>7. DraftFits(r)'
      BY <1>2, <1>3, <1>4, <2>1 DEF RunFits, DraftFits
    <2> QED
      BY <2>2, <2>3, <2>4, <2>5, <2>6, <2>7 DEF RunFits
  <1>8. oPc[r] # 29
    BY <1>4
  <1> QED
    BY <1>2, <1>5, <1>6, <1>7, <1>8, OwnStep

LEMMA ShakeTyped ==
    ASSUME OutputTyped, NEW f \in Output!Names, NEW who, Output!Shake(f, who)
    PROVE  /\ changed' \in [Runs -> 0 .. 2]
           /\ after' \in [Runs -> SUBSET Output!Names]
  <1>1. changed \in [Runs -> 0 .. 2] /\ after \in [Runs -> SUBSET Output!Names]
    BY DEF OutputTyped
  <1>2. changed' \in [Runs -> 0 .. 2]
    BY <1>1 DEF Output!Shake
  <1>3. after' \in [Runs -> SUBSET Output!Names]
    BY <1>1 DEF Output!Shake
  <1> QED
    BY <1>2, <1>3

LEMMA MoveKeeps ==
    ASSUME OutputInv, NEW r \in Runs, NEW f \in Output!Names, Output!MoveTemporary(r, f)
    PROVE  OutputInv'
  <1>1. OutputTyped /\ RunFits(r)
    BY DEF OutputInv
  <1>2. \/ f = "png" /\ oPc[r] = 4
        \/ f = "candidates" /\ oPc[r] \in {10, 25}
        \/ f = "ir" /\ oPc[r] = 13
        \/ f = "view" /\ oPc[r] = 19
    <2>1. Output!At(r, Output!Move(f)) /\ oPc \in [Runs -> 1 .. 29]
      BY <1>1 DEF Output!MoveTemporary, OutputTyped
    <2> QED
      BY <2>1, MovesAt
  <1>3. CASE temporary[r][f] # {expected[r][f]}
    <2>1. Output!Fail(r)
      BY <1>3 DEF Output!MoveTemporary
    <2>2. oPc[r] # 29
      BY <1>2
    <2> QED
      BY <2>1, <2>2, FailKeeps
  <1>4. CASE temporary[r][f] = {expected[r][f]}
    <2>1. PICK c \in {expected[r][f], Output!Foreign} :
             file' = [file EXCEPT ![f] = {[by |-> r, content |-> c]}]
      BY <1>4 DEF Output!MoveTemporary
    <2>2. /\ temporary' = [temporary EXCEPT ![r][f] = {}] /\ Output!Shake(f, r)
          /\ oPc' = [oPc EXCEPT ![r] = oPc[r] + 1]
          /\ manifest' = manifest /\ bytes' = bytes /\ expected' = expected
          /\ entry' = entry /\ stuck' = stuck /\ swapped' = swapped /\ adopted' = adopted
      BY <1>4 DEF Output!MoveTemporary, Output!Go, Output!memory, Output!Absent
    <2>3. OutputTyped'
      <3>1. c \in Output!Contents /\ r \in Output!Owners
        BY <1>1 DEF OutputTyped, Output!Contents, Output!Owners
      <3>2. {[by |-> r, content |-> c]}
               \in Single([by : Output!Owners, content : Output!Contents])
        BY <3>1 DEF Single
      <3>3. file' \in [Output!Names -> Single([by : Output!Owners, content : Output!Contents])]
        BY <1>1, <2>1, <3>2 DEF OutputTyped
      <3>4. oPc' \in [Runs -> 1 .. 29]
        BY <1>1, <1>2, <2>2 DEF OutputTyped
      <3>5. temporary' \in [Runs -> [Output!Names -> SUBSET Output!Contents]]
        BY <1>1, <2>2 DEF OutputTyped
      <3> QED
        BY <1>1, <2>2, <3>3, <3>4, <3>5, ShakeTyped DEF OutputTyped
    <2>4. ASSUME NEW q \in Runs \ {r} PROVE Kept(q)
      BY <1>1, <2>2 DEF OutputTyped, Kept
    <2>5. ASSUME NEW q \in Runs \ {r} PROVE RunFits(q)'
      <3>1. RunFits(q) /\ r # q
        BY DEF OutputInv
      <3> QED
        BY <1>1, <2>1, <2>2, <2>4, <3>1, ShakenFits
    <2>6. RunFits(r)'
      <3>1. /\ oPc'[r] = oPc[r] + 1 /\ temporary'[r][f] = {}
            /\ \A g \in Output!Names \ {f} :
                  temporary'[r][g] = temporary[r][g] /\ file'[g] = file[g]
        BY <1>1, <1>2, <2>1, <2>2 DEF OutputTyped
      <3>2. after'[r] = after[r] \ {f} /\ (f # "png" => changed'[r] = changed[r])
        BY <2>2 DEF Output!Shake
      <3>3. TemporaryFits(r)'
        BY <1>1, <1>2, <2>2, <3>1 DEF RunFits, TemporaryFits, Writing, Output!Names
      <3>4. OwnFits(r)'
        <4> SUFFICES ASSUME NEW g \in Output!Names, FileChecked(g, oPc'[r]), g \notin after'[r]
                     PROVE  file'[g] = {[by |-> r, content |-> expected'[r][g]]}
          BY DEF OwnFits
        <4>1. g # f /\ FileChecked(g, oPc[r])
          BY <1>2, <3>1 DEF FileChecked, Output!Names
        <4> QED
          BY <1>1, <2>2, <3>1, <3>2, <4>1 DEF RunFits, OwnFits
      <3>5. ExpectedFits(r)'
        BY <1>1, <1>2, <2>2, <3>1 DEF RunFits, ExpectedFits
      <3>6. EntryFits(r)'
        BY <1>1, <1>2, <2>2, <3>1 DEF RunFits, EntryFits
      <3>7. ViewFits(r)'
        <4>1. CASE f = "png"
          <5>1. oPc'[r] = 5
            BY <1>2, <3>1, <4>1
          <5> QED
            BY <5>1 DEF ViewFits
        <4>2. CASE f # "png"
          <5>1. file'["png"] = file["png"] /\ ("png" \in after'[r] <=> "png" \in after[r])
            BY <3>1, <3>2, <4>2 DEF Output!Names
          <5> QED
            BY <1>1, <1>2, <2>2, <3>1, <3>2, <4>2, <5>1 DEF RunFits, ViewFits, CutFits, Shown
        <4> QED
          BY <4>1, <4>2
      <3>8. DraftFits(r)'
        BY <1>1, <1>2, <2>2, <3>1 DEF RunFits, DraftFits, Output!Names
      <3> QED
        BY <3>3, <3>4, <3>5, <3>6, <3>7, <3>8 DEF RunFits
    <2>7. ManifestFits'
      <3>1. oPc[r] # 29
        BY <1>2
      <3> QED
        BY <2>2, <2>4, <3>1, ManifestKept DEF Kept
    <2> QED
      BY <2>3, <2>5, <2>6, <2>7 DEF OutputInv
  <1> QED
    BY <1>3, <1>4

LEMMA VerifyKeeps ==
    ASSUME OutputInv, NEW r \in Runs, NEW f \in Output!Names, Output!VerifyPublished(r, f)
    PROVE  OutputInv'
  <1>1. OutputTyped /\ RunFits(r)
    BY DEF OutputInv
  <1>2. \/ f = "png" /\ oPc[r] = 5
        \/ f = "candidates" /\ oPc[r] \in {11, 26}
        \/ f = "ir" /\ oPc[r] = 14
        \/ f = "view" /\ oPc[r] = 20
    <2>1. Output!At(r, Output!Verify(f)) /\ oPc \in [Runs -> 1 .. 29]
      BY <1>1 DEF Output!VerifyPublished, OutputTyped
    <2> QED
      BY <2>1, VerifiesAt
  <1>3. CASE file[f] # {[by |-> r, content |-> expected[r][f]]}
    <2>1. Output!Fail(r)
      BY <1>3 DEF Output!VerifyPublished
    <2>2. oPc[r] # 29
      BY <1>2
    <2> QED
      BY <2>1, <2>2, FailKeeps
  <1>4. CASE file[f] = {[by |-> r, content |-> expected[r][f]]}
    <2>1. /\ after' = [after EXCEPT ![r] = after[r] \ {f}]
          /\ oPc' = [oPc EXCEPT ![r] = oPc[r] + 1]
          /\ manifest' = manifest /\ file' = file /\ bytes' = bytes /\ expected' = expected
          /\ entry' = entry /\ temporary' = temporary /\ stuck' = stuck
          /\ changed' = changed /\ swapped' = swapped /\ adopted' = adopted
      BY <1>4 DEF Output!VerifyPublished, Output!Go, Output!memory, Output!output
    <2>2. OutputTyped'
      <3>1. oPc' \in [Runs -> 1 .. 29]
        BY <1>1, <1>2, <2>1 DEF OutputTyped
      <3>2. after' \in [Runs -> SUBSET Output!Names]
        BY <1>1, <2>1 DEF OutputTyped
      <3> QED
        BY <1>1, <2>1, <3>1, <3>2 DEF OutputTyped
    <2>3. ASSUME NEW q \in Runs \ {r}
          PROVE  Kept(q) /\ changed'[q] = changed[q] /\ after'[q] = after[q]
      BY <1>1, <2>1 DEF OutputTyped, Kept
    <2>4. RunFits(r)'
      <3>1. oPc'[r] = oPc[r] + 1 /\ after'[r] = after[r] \ {f}
        BY <1>1, <2>1 DEF OutputTyped
      <3>2. TemporaryFits(r)'
        BY <1>1, <1>2, <2>1, <3>1 DEF RunFits, TemporaryFits, Writing, Output!Names
      <3>3. OwnFits(r)'
        <4> SUFFICES ASSUME NEW g \in Output!Names, FileChecked(g, oPc'[r]), g \notin after'[r],
                            g # f
                     PROVE  file'[g] = {[by |-> r, content |-> expected'[r][g]]}
          BY <1>4, <2>1 DEF OwnFits
        <4>1. FileChecked(g, oPc[r])
          BY <1>2, <3>1 DEF FileChecked, Output!Names
        <4> QED
          BY <1>1, <2>1, <3>1, <4>1 DEF RunFits, OwnFits
      <3>4. ExpectedFits(r)'
        BY <1>1, <1>2, <2>1, <3>1 DEF RunFits, ExpectedFits
      <3>5. EntryFits(r)'
        BY <1>1, <1>2, <2>1, <3>1 DEF RunFits, EntryFits
      <3>6. ViewFits(r)'
        <4>1. f # "png" => ("png" \in after'[r] <=> "png" \in after[r])
          BY <3>1
        <4> QED
          BY <1>1, <1>2, <2>1, <3>1, <4>1 DEF RunFits, ViewFits, CutFits, Shown
      <3>7. DraftFits(r)'
        BY <1>1, <1>2, <2>1, <3>1 DEF RunFits, DraftFits
      <3> QED
        BY <3>2, <3>3, <3>4, <3>5, <3>6, <3>7 DEF RunFits
    <2>5. oPc[r] # 29
      BY <1>2
    <2> QED
      BY <2>1, <2>2, <2>3, <2>4, <2>5, OwnStep
  <1> QED
    BY <1>3, <1>4

LEMMA LookKeeps ==
    ASSUME OutputInv, NEW r \in Runs, Output!LookAgain(r)
    PROVE  OutputInv'
  <1>1. OutputTyped /\ RunFits(r)
    BY DEF OutputInv
  <1>2. oPc[r] \in {8, 22}
    <2>1. Output!At(r, <<"look", "png">>) /\ oPc \in [Runs -> 1 .. 29]
      BY <1>1 DEF Output!LookAgain, OutputTyped
    <2> QED
      BY <2>1, LooksAt
  <1>3. CASE {x.content : x \in file["png"]} # {bytes[r]}
    <2>1. Output!Fail(r)
      BY <1>3 DEF Output!LookAgain
    <2>2. oPc[r] # 29
      BY <1>2
    <2> QED
      BY <2>1, <2>2, FailKeeps
  <1>4. CASE {x.content : x \in file["png"]} = {bytes[r]}
    <2>1. /\ oPc' = [oPc EXCEPT ![r] = oPc[r] + 1]
          /\ manifest' = manifest /\ file' = file /\ bytes' = bytes /\ expected' = expected
          /\ entry' = entry /\ temporary' = temporary /\ stuck' = stuck
          /\ changed' = changed /\ after' = after /\ swapped' = swapped /\ adopted' = adopted
      BY <1>4 DEF Output!LookAgain, Output!Go, Output!memory, Output!output, Output!history
    <2>2. OutputTyped'
      <3>1. oPc' \in [Runs -> 1 .. 29]
        BY <1>1, <1>2, <2>1 DEF OutputTyped
      <3> QED
        BY <1>1, <2>1, <3>1 DEF OutputTyped
    <2>3. ASSUME NEW q \in Runs \ {r}
          PROVE  Kept(q) /\ changed'[q] = changed[q] /\ after'[q] = after[q]
      BY <1>1, <2>1 DEF OutputTyped, Kept
    <2>4. RunFits(r)'
      <3>1. oPc'[r] = oPc[r] + 1
        BY <1>1, <2>1 DEF OutputTyped
      <3>2. TemporaryFits(r)'
        BY <1>1, <1>2, <2>1, <3>1 DEF RunFits, TemporaryFits, Writing, Output!Names
      <3>3. OwnFits(r)'
        BY <1>1, <1>2, <2>1, <3>1 DEF RunFits, OwnFits, FileChecked, Output!Names
      <3>4. ExpectedFits(r)'
        BY <1>1, <1>2, <2>1, <3>1 DEF RunFits, ExpectedFits
      <3>5. EntryFits(r)'
        BY <1>1, <1>2, <2>1, <3>1 DEF RunFits, EntryFits
      <3>6. ViewFits(r)'
        <4>1. Shown(bytes[r])
          BY <1>4 DEF Shown
        <4>2. "png" \in after[r] \/ expected[r]["png"] = bytes[r]
          <5>1. FileChecked("png", oPc[r])
            BY <1>2 DEF FileChecked
          <5>2. "png" \in after[r] \/ file["png"] = {[by |-> r, content |-> expected[r]["png"]]}
            BY <1>1, <5>1 DEF RunFits, OwnFits, Output!Names
          <5>3. [by |-> r, content |-> expected[r]["png"]].content = expected[r]["png"]
            OBVIOUS
          <5> QED
            BY <4>1, <5>2, <5>3 DEF Shown
        <4>3. oPc[r] = 22 =>
                expected[r]["view"] = bytes[r] \/ changed[r] = 2 \/ "view" \in adopted[r]
          BY <1>1, <4>1 DEF RunFits, ViewFits, CutFits
        <4> QED
          BY <1>1, <1>2, <2>1, <3>1, <4>1, <4>2, <4>3 DEF RunFits, ViewFits, CutFits, Shown
      <3>7. DraftFits(r)'
        BY <1>1, <1>2, <2>1, <3>1 DEF RunFits, DraftFits
      <3> QED
        BY <3>2, <3>3, <3>4, <3>5, <3>6, <3>7 DEF RunFits
    <2>5. oPc[r] # 29
      BY <1>2
    <2> QED
      BY <2>1, <2>2, <2>3, <2>4, <2>5, OwnStep
  <1> QED
    BY <1>3, <1>4

LEMMA ReadKeeps ==
    ASSUME OutputInv, NEW r \in Runs, NEW f \in Output!Names, Output!ReadBack(r, f)
    PROVE  OutputInv'
  <1> DEFINE read == {x.content : x \in file[f]}
  <1>1. OutputTyped /\ RunFits(r)
    BY DEF OutputInv
  <1>2. \/ f = "ir" /\ oPc[r] = 15
        \/ f = "candidates" /\ oPc[r] = 16
        \/ f = "view" /\ oPc[r] = 21
    <2>1. Output!At(r, <<"read", f>>) /\ oPc \in [Runs -> 1 .. 29]
      BY <1>1 DEF Output!ReadBack, OutputTyped
    <2> QED
      BY <2>1, ReadsAt
  <1>3. /\ entry' = [entry EXCEPT ![r][f] = read]
        /\ swapped' = [swapped EXCEPT ![r] =
              swapped[r] \cup ({f} \cap (after[r] \cup adopted[r]))]
        /\ oPc' = [oPc EXCEPT ![r] = oPc[r] + 1]
        /\ manifest' = manifest /\ file' = file /\ bytes' = bytes /\ expected' = expected
        /\ temporary' = temporary /\ stuck' = stuck /\ changed' = changed /\ after' = after
        /\ adopted' = adopted
    BY DEF Output!ReadBack, Output!Go, Output!output
  <1>4. read \in SUBSET Output!Contents
    <2>1. file[f] \in Single([by : Output!Owners, content : Output!Contents])
      BY <1>1 DEF OutputTyped
    <2>2. \A x \in file[f] : x.content \in Output!Contents
      BY <2>1 DEF Single
    <2> QED
      BY <2>2
  <1>5. read # {}
    <2>1. PICK x \in file[f] : TRUE
      BY DEF Output!ReadBack, Output!Absent
    <2>2. x.content \in read
      OBVIOUS
    <2> QED
      BY <2>2
  <1>6. read = {expected[r][f]} \/ f \in after[r]
    <2>1. FileChecked(f, oPc[r])
      BY <1>2 DEF FileChecked
    <2>2. f \in after[r] \/ file[f] = {[by |-> r, content |-> expected[r][f]]}
      BY <1>1, <2>1 DEF RunFits, OwnFits
    <2>3. ASSUME file[f] = {[by |-> r, content |-> expected[r][f]]}
          PROVE  read = {expected[r][f]}
      <3>1. [by |-> r, content |-> expected[r][f]].content = expected[r][f]
        OBVIOUS
      <3>2. \A c : c \in read <=> c = expected[r][f]
        BY <2>3, <3>1
      <3> QED
        BY <3>2
    <2> QED
      BY <2>2, <2>3
  <1> HIDE DEF read
  <1>7. OutputTyped'
    <2>1. oPc' \in [Runs -> 1 .. 29]
      BY <1>1, <1>2, <1>3 DEF OutputTyped
    <2>2. entry' \in [Runs -> [Output!Names -> SUBSET Output!Contents]]
      BY <1>1, <1>3, <1>4 DEF OutputTyped
    <2>3. swapped' \in [Runs -> SUBSET Output!Names]
      BY <1>1, <1>3 DEF OutputTyped
    <2> QED
      BY <1>1, <1>3, <2>1, <2>2, <2>3 DEF OutputTyped
  <1>8. ASSUME NEW q \in Runs \ {r}
        PROVE  Kept(q) /\ changed'[q] = changed[q] /\ after'[q] = after[q]
    BY <1>1, <1>3 DEF OutputTyped, Kept
  <1>9. RunFits(r)'
    <2>1. /\ oPc'[r] = oPc[r] + 1 /\ entry'[r][f] = read
          /\ \A g \in Output!Names \ {f} : entry'[r][g] = entry[r][g]
          /\ swapped[r] \subseteq swapped'[r]
          /\ f \in after[r] \/ f \in adopted[r] => f \in swapped'[r]
      BY <1>1, <1>3 DEF OutputTyped
    <2>2. TemporaryFits(r)'
      BY <1>1, <1>2, <1>3, <2>1 DEF RunFits, TemporaryFits, Writing, Output!Names
    <2>3. OwnFits(r)'
      BY <1>1, <1>2, <1>3, <2>1 DEF RunFits, OwnFits, FileChecked, Output!Names
    <2>4. ExpectedFits(r)'
      BY <1>1, <1>2, <1>3, <2>1 DEF RunFits, ExpectedFits
    <2>5. EntryFits(r)'
      <3>1. f # "view" => expected[r][f] = bytes[r] \/ f \in adopted[r]
        BY <1>1, <1>2 DEF RunFits, ExpectedFits
      <3>2. \A g \in {"ir", "candidates", "view"} : g # f => entry'[r][g] = entry[r][g]
        BY <2>1 DEF Output!Names
      <3> QED
        BY <1>1, <1>2, <1>3, <1>6, <1>5, <2>1, <3>1, <3>2 DEF RunFits, EntryFits
    <2>6. ViewFits(r)'
      BY <1>1, <1>2, <1>3, <2>1 DEF RunFits, ViewFits, CutFits, Shown
    <2>7. DraftFits(r)'
      BY <1>1, <1>2, <1>3, <2>1 DEF RunFits, DraftFits
    <2> QED
      BY <2>2, <2>3, <2>4, <2>5, <2>6, <2>7 DEF RunFits
  <1>10. oPc[r] # 29
    BY <1>2
  <1> QED
    BY <1>3, <1>7, <1>8, <1>9, <1>10, OwnStep

LEMMA CompleteKeeps ==
    ASSUME OutputInv, NEW r \in Runs, Output!Complete(r)
    PROVE  OutputInv'
  <1>1. OutputTyped /\ RunFits(r)
    BY DEF OutputInv
  <1>2. oPc[r] = 27
    <2>1. Output!At(r, <<"complete", "png">>) /\ oPc \in [Runs -> 1 .. 29]
      BY <1>1 DEF Output!Complete, OutputTyped
    <2> QED
      BY <2>1, CompletesAt
  <1>3. /\ oPc' = [oPc EXCEPT ![r] = 29]
        /\ manifest' = {[run |-> r, status |-> "complete", entry |-> entry[r]]}
        /\ file' = file /\ bytes' = bytes /\ expected' = expected /\ entry' = entry
        /\ temporary' = temporary /\ stuck' = stuck /\ changed' = changed
        /\ after' = after /\ swapped' = swapped /\ adopted' = adopted
    BY EndsAt DEF Output!Complete, Output!Says, Output!memory, Output!history
  <1>4. OutputTyped'
    <2>1. oPc' \in [Runs -> 1 .. 29]
      BY <1>1, <1>3 DEF OutputTyped
    <2> QED
      BY <1>1, <1>3, <2>1 DEF OutputTyped
  <1>5. oPc'[r] = 29
    BY <1>1, <1>3 DEF OutputTyped
  <1>6. ASSUME NEW q \in Runs \ {r} PROVE RunFits(q)'
    <2>1. Kept(q) /\ changed'[q] = changed[q] /\ after'[q] = after[q] /\ RunFits(q)
      BY <1>1, <1>3 DEF OutputTyped, Kept, OutputInv
    <2> QED
      BY <1>3, <2>1, UntouchedFits
  <1>7. RunFits(r)'
    <2>1. TemporaryFits(r)'
      BY <1>1, <1>2, <1>3, <1>5 DEF RunFits, TemporaryFits, Writing, Output!Names
    <2>2. OwnFits(r)'
      BY <1>1, <1>2, <1>3, <1>5 DEF RunFits, OwnFits, FileChecked, Output!Names
    <2>3. ExpectedFits(r)'
      BY <1>1, <1>2, <1>3, <1>5 DEF RunFits, ExpectedFits
    <2>4. EntryFits(r)'
      BY <1>1, <1>2, <1>3, <1>5 DEF RunFits, EntryFits
    <2>5. ViewFits(r)'
      BY <1>1, <1>2, <1>3, <1>5 DEF RunFits, ViewFits, CutFits, Shown
    <2>6. DraftFits(r)'
      BY <1>5 DEF DraftFits
    <2> QED
      BY <2>1, <2>2, <2>3, <2>4, <2>5, <2>6 DEF RunFits
  <1>8. ManifestFits'
    BY <1>3, <1>5 DEF ManifestFits
  <1> QED
    BY <1>4, <1>6, <1>7, <1>8 DEF OutputInv

LEMMA OverwriteKeeps ==
    ASSUME OutputBounds, OutputInv, NEW f \in Output!Names, NEW by \in Output!Owners,
           NEW c \in Output!Contents, Output!Overwrite(f, by, c)
    PROVE  OutputInv'
  <1>1. /\ file' = [file EXCEPT ![f] = {[by |-> by, content |-> c]}]
        /\ Output!Shake(f, Output!Other)
        /\ manifest' = manifest /\ oPc' = oPc /\ bytes' = bytes /\ expected' = expected
        /\ entry' = entry /\ temporary' = temporary /\ stuck' = stuck /\ swapped' = swapped
        /\ adopted' = adopted
    BY DEF Output!Overwrite, Output!memory
  <1>2. OutputTyped
    BY DEF OutputInv
  <1>3. OutputTyped'
    <2>1. {[by |-> by, content |-> c]} \in Single([by : Output!Owners, content : Output!Contents])
      BY DEF Single
    <2>2. file' \in [Output!Names -> Single([by : Output!Owners, content : Output!Contents])]
      BY <1>1, <1>2, <2>1 DEF OutputTyped
    <2> QED
      BY <1>1, <1>2, <2>2, ShakeTyped DEF OutputTyped
  <1>4. ASSUME NEW q \in Runs PROVE RunFits(q)'
    <2>1. Kept(q) /\ RunFits(q) /\ Output!Other # q
      BY <1>1 DEF Kept, OutputInv, OutputBounds
    <2> QED
      BY <1>1, <1>2, <2>1, ShakenFits
  <1>5. ManifestFits'
    BY <1>1 DEF OutputInv, ManifestFits
  <1> QED
    BY <1>3, <1>4, <1>5 DEF OutputInv

LEMMA OverwriteTemporaryKeeps ==
    ASSUME OutputInv, NEW r \in Runs, NEW f \in Output!Names, Output!OverwriteTemporary(r, f)
    PROVE  OutputInv'
  <1>1. OutputTyped /\ RunFits(r)
    BY DEF OutputInv
  <1> DEFINE hashed == Output!At(r, Output!Move(f))
  <1>2. adopted' = [adopted EXCEPT ![r] = IF hashed THEN adopted[r] ELSE adopted[r] \cup {f}]
    BY DEF Output!OverwriteTemporary
  <1> HIDE DEF hashed
  <1>3. /\ temporary' = [temporary EXCEPT ![r][f] = {Output!Foreign}]
        /\ file' = file /\ manifest' = manifest /\ oPc' = oPc /\ bytes' = bytes
        /\ expected' = expected /\ entry' = entry /\ stuck' = stuck /\ changed' = changed
        /\ after' = after /\ swapped' = swapped
        /\ oPc[r] \in 2 .. 27 /\ temporary[r][f] # {}
    BY EndsAt DEF Output!OverwriteTemporary, Output!output, Output!memory, Output!Absent
  <1>4. Writing(f, oPc[r]) /\ oPc[r] # 29
    BY <1>1, <1>3 DEF RunFits, TemporaryFits
  <1>5. OutputTyped'
    <2>1. temporary' \in [Runs -> [Output!Names -> SUBSET Output!Contents]]
      BY <1>1, <1>3 DEF OutputTyped, Output!Contents
    <2>2. adopted' \in [Runs -> SUBSET Output!Names]
      BY <1>1, <1>2 DEF OutputTyped
    <2> QED
      BY <1>1, <1>3, <2>1, <2>2 DEF OutputTyped
  <1>6. ASSUME NEW q \in Runs \ {r}
        PROVE  Kept(q) /\ changed'[q] = changed[q] /\ after'[q] = after[q]
    BY <1>1, <1>2, <1>3 DEF OutputTyped, Kept
  <1>7. RunFits(r)'
    <2>1. /\ \A g \in Output!Names \ {f} : temporary'[r][g] = temporary[r][g]
          /\ adopted[r] \subseteq adopted'[r]
          /\ \A g \in Output!Names \ {f} : g \in adopted'[r] <=> g \in adopted[r]
      BY <1>1, <1>2, <1>3 DEF OutputTyped
    <2>2. TemporaryFits(r)'
      <3> SUFFICES ASSUME NEW g \in Output!Names, temporary'[r][g] # {}, g # f
                   PROVE  Writing(g, oPc[r]) \/ (oPc[r] = 28 /\ r \in stuck)
        BY <1>3, <1>4 DEF TemporaryFits
      <3> QED
        BY <1>1, <2>1 DEF RunFits, TemporaryFits
    <2>3. OwnFits(r)' /\ ExpectedFits(r)'
      BY <1>1, <1>3, <2>1 DEF RunFits, OwnFits, ExpectedFits
    <2>4. EntryFits(r)'
      <3>1. f = "view" => oPc[r] < 22
        BY <1>4 DEF Writing
      <3> QED
        BY <1>1, <1>3, <2>1, <3>1 DEF RunFits, EntryFits, Output!Names
    <2>5. Drafted(f, oPc[r]) => f \in adopted'[r]
      <3>1. ASSUME Drafted(f, oPc[r]), hashed PROVE FALSE
        <4>1. oPc \in [Runs -> 1 .. 29]
          BY <1>1 DEF OutputTyped
        <4> QED
          BY <3>1, <4>1, MovesAt DEF Drafted, hashed
      <3>2. adopted'[r] = IF hashed THEN adopted[r] ELSE adopted[r] \cup {f}
        BY <1>1, <1>2 DEF OutputTyped
      <3> QED
        BY <3>1, <3>2
    <2>6. ViewFits(r)'
      <3>1. oPc[r] = 18 => "view" \in adopted'[r] \/ temporary'[r]["view"] = temporary[r]["view"]
        BY <2>1, <2>5 DEF Drafted, Output!Names
      <3> QED
        BY <1>1, <1>3, <2>1, <3>1 DEF RunFits, ViewFits, CutFits, Shown
    <2>7. DraftFits(r)'
      BY <1>1, <1>3, <2>1, <2>5 DEF RunFits, DraftFits, Drafted, Output!Names
    <2> QED
      BY <2>2, <2>3, <2>4, <2>6, <2>7 DEF RunFits
  <1> QED
    BY <1>3, <1>4, <1>5, <1>6, <1>7, OwnStep

LEMMA TakeTemporaryKeeps ==
    ASSUME OutputInv, NEW r \in Runs, NEW f \in Output!Names, Output!TakeTemporary(r, f)
    PROVE  OutputInv'
  <1>1. OutputTyped /\ RunFits(r)
    BY DEF OutputInv
  <1>2. \/ f = "png" /\ oPc[r] = 4
        \/ f = "candidates" /\ oPc[r] \in {10, 25}
        \/ f = "ir" /\ oPc[r] = 13
        \/ f = "view" /\ oPc[r] = 19
    <2>1. Output!At(r, Output!Move(f)) /\ oPc \in [Runs -> 1 .. 29]
      BY <1>1 DEF Output!TakeTemporary, OutputTyped
    <2> QED
      BY <2>1, MovesAt
  <1>3. /\ temporary' = [temporary EXCEPT ![r][f] = {}]
        /\ file' = file /\ manifest' = manifest /\ oPc' = oPc /\ bytes' = bytes
        /\ expected' = expected /\ entry' = entry /\ stuck' = stuck /\ changed' = changed
        /\ after' = after /\ swapped' = swapped /\ adopted' = adopted
    BY DEF Output!TakeTemporary, Output!output, Output!memory, Output!history, Output!Absent
  <1>4. OutputTyped'
    <2>1. temporary' \in [Runs -> [Output!Names -> SUBSET Output!Contents]]
      BY <1>1, <1>3 DEF OutputTyped
    <2> QED
      BY <1>1, <1>3, <2>1 DEF OutputTyped
  <1>5. ASSUME NEW q \in Runs \ {r}
        PROVE  Kept(q) /\ changed'[q] = changed[q] /\ after'[q] = after[q]
    BY <1>1, <1>3 DEF OutputTyped, Kept
  <1>6. RunFits(r)'
    <2>1. temporary'[r][f] = {} /\ \A g \in Output!Names \ {f} : temporary'[r][g] = temporary[r][g]
      BY <1>1, <1>3 DEF OutputTyped
    <2>2. TemporaryFits(r)'
      BY <1>1, <1>3, <2>1 DEF RunFits, TemporaryFits
    <2>3. OwnFits(r)' /\ ExpectedFits(r)'
      BY <1>1, <1>3 DEF RunFits, OwnFits, ExpectedFits
    <2>4. EntryFits(r)'
      BY <1>1, <1>3 DEF RunFits, EntryFits
    <2>5. ViewFits(r)'
      BY <1>1, <1>2, <1>3, <2>1 DEF RunFits, ViewFits, CutFits, Shown, Output!Names
    <2>6. DraftFits(r)'
      BY <1>1, <1>2, <1>3, <2>1 DEF RunFits, DraftFits, Output!Names
    <2> QED
      BY <2>2, <2>3, <2>4, <2>5, <2>6 DEF RunFits
  <1>7. oPc[r] # 29
    BY <1>2
  <1> QED
    BY <1>3, <1>4, <1>5, <1>6, <1>7, OwnStep

LEMMA OutputInvariant ==
    ASSUME OutputBounds
    PROVE  Output!Spec => []OutputInv
  <1>1. Output!Init => OutputInv
    BY OutputStarts
  <1>2. ASSUME OutputInv, Output!Next
        PROVE  OutputInv'
    <2>1. ASSUME NEW r \in Runs, Output!Error(r) PROVE OutputInv'
      <3>1. oPc[r] # 29 /\ Output!Fail(r)
        BY <2>1, EndsAt DEF Output!Error
      <3> QED
        BY <1>2, <3>1, FailKeeps
    <2> QED
      BY <1>2, <2>1, StartKeeps, LookKeeps, CompleteKeeps, KillKeeps, WriteKeeps, HashKeeps,
         MoveKeeps, VerifyKeeps, ReadKeeps, OverwriteTemporaryKeeps, TakeTemporaryKeeps,
         OverwriteKeeps DEF Output!Next
  <1>3. ASSUME OutputInv, UNCHANGED Output!vars
        PROVE  OutputInv'
    <2>1. /\ file' = file /\ manifest' = manifest /\ oPc' = oPc /\ bytes' = bytes
          /\ expected' = expected /\ entry' = entry /\ temporary' = temporary
          /\ stuck' = stuck /\ changed' = changed /\ after' = after /\ swapped' = swapped
          /\ adopted' = adopted
      BY <1>3 DEF Output!vars, Output!output, Output!memory, Output!history
    <2>2. OutputTyped'
      BY <1>3, <2>1 DEF OutputInv, OutputTyped
    <2>3. ASSUME NEW q \in Runs PROVE RunFits(q)'
      <3>1. Kept(q) /\ RunFits(q)
        BY <1>3, <2>1 DEF Kept, OutputInv
      <3> QED
        BY <2>1, <3>1, UntouchedFits
    <2>4. ManifestFits'
      BY <1>3, <2>1 DEF OutputInv, ManifestFits
    <2> QED
      BY <2>2, <2>3, <2>4 DEF OutputInv
  <1> QED
    BY <1>1, <1>2, <1>3, PTL DEF Output!Spec

\* What the manifest of run_pdf says of a complete page was read from files
\* made of the PDF that it names, unless another run or program wrote into a
\* temporary file between its writing and its hash, or changed a file between its
\* check and its reading (and for the view, changed the page and changed it
\* back); a run that ends leaves its own files unless they were touched, and the
\* page of the PDF whatever was written into its temporary file; a temporary file
\* is left only by a run that was killed or could not delete it.
THEOREM PagesAreSourced ==
    ASSUME OutputBounds
    PROVE  Output!Spec => []PageFilesAreTrue
  <1>1. OutputInv => PageFilesAreTrue
    <2> SUFFICES ASSUME OutputInv PROVE Output!PageFilesAreTrue
      BY DEF PageFilesAreTrue
    <2>1. Output!TypeOK
      <3>1. \A f \in Output!Names : file[f] \subseteq [by : Output!Owners, content : Output!Contents]
        BY DEF OutputInv, OutputTyped, Single
      <3>2. oPc \in [Runs -> 1 .. Output!Done]
        BY EndsAt DEF OutputInv, OutputTyped
      <3> QED
        BY <3>1, <3>2 DEF OutputInv, ManifestFits, Output!TypeOK
    <2>2. Output!PageIsSourced
      <3> SUFFICES ASSUME NEW m \in manifest, m.status = "complete"
                   PROVE  LET r == m.run IN
                          /\ \A f \in {"ir", "candidates"} :
                                m.entry[f] # {bytes[r]} => f \in swapped[r]
                          /\ m.entry["view"] # {bytes[r]} =>
                                "view" \in swapped[r] \/ changed[r] = 2
        BY DEF Output!PageIsSourced
      <3>1. m.run \in Runs /\ oPc[m.run] = 29 /\ m.entry = entry[m.run] /\ RunFits(m.run)
        BY DEF OutputInv, ManifestFits
      <3> QED
        BY <3>1 DEF RunFits, EntryFits, ViewFits
    <2>3. Output!EndIsOwn
      <3> SUFFICES ASSUME NEW r \in Runs, oPc[r] = 29, NEW f \in Output!Names \ after[r]
                   PROVE  \E x \in file[f] :
                            /\ x.by = r /\ x.content = expected[r][f]
                            /\ x.content \notin Output!Meant(r, f) =>
                                  /\ f # "png"
                                  /\ f \in adopted[r] \/ (f = "view" /\ changed[r] = 2)
        BY EndsAt DEF Output!EndIsOwn
      <3>1. FileChecked(f, oPc[r]) /\ RunFits(r)
        BY DEF FileChecked, Output!Names, OutputInv
      <3>2. file[f] = {[by |-> r, content |-> expected[r][f]]}
        BY <3>1 DEF RunFits, OwnFits
      <3>3. ASSUME expected[r][f] \notin Output!Meant(r, f)
            PROVE  f # "png" /\ (f \in adopted[r] \/ (f = "view" /\ changed[r] = 2))
        <4>1. CASE f = "png"
          BY <3>1, <3>3, <4>1 DEF RunFits, ViewFits, Output!Meant
        <4>2. CASE f = "ir"
          BY <3>1, <3>3, <4>2 DEF RunFits, ExpectedFits, Output!Meant
        <4>3. CASE f = "candidates"
          BY <3>1, <3>3, <4>3 DEF RunFits, ExpectedFits, Output!Meant
        <4>4. CASE f = "view"
          BY <3>1, <3>3, <4>4 DEF RunFits, ViewFits, Output!Meant
        <4> QED
          BY <4>1, <4>2, <4>3, <4>4 DEF Output!Names
      <3> DEFINE own == [by |-> r, content |-> expected[r][f]]
      <3>4. own \in file[f] /\ own.by = r /\ own.content = expected[r][f]
        BY <3>2
      <3> QED
        BY <3>3, <3>4
    <2>4. Output!LeftoverIsExplained
      <3> SUFFICES ASSUME NEW r \in Runs, ~Output!Running(r), r \notin stuck,
                          NEW f \in Output!Names
                   PROVE  temporary[r][f] = {}
        BY DEF Output!LeftoverIsExplained, Output!Absent
      <3>1. oPc[r] \in {1, 28, 29}
        BY EndsAt DEF OutputInv, OutputTyped
      <3> QED
        BY <3>1 DEF OutputInv, RunFits, TemporaryFits, Writing
    <2> QED
      BY <2>1, <2>2, <2>3, <2>4 DEF Output!PageFilesAreTrue
  <1> QED
    BY <1>1, OutputInvariant, PTL
=============================================================================
