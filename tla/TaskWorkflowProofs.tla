-------------------------- MODULE TaskWorkflowProofs --------------------------
(* WorkflowInv is an inductive invariant of TaskWorkflow.                  *)
EXTENDS TaskWorkflow, TLAPS

USE RequestsAssumption

(* A new task, its first event and idle requests satisfy the invariant.    *)
LEMMA InitInv == Init => WorkflowInv
  <1> SUFFICES ASSUME Init PROVE WorkflowInv
    OBVIOUS
  <1>1. NewTask \in Rows /\ WellFormed(NewTask) /\ NoAsk \in [ to : Statuses ]
    BY DEF NewTask, Rows, Statuses, WellFormed, NoAsk
  <1>2. log \in Seq(Events) /\ Len(log) = 1 /\ log[1].after = NewTask
    BY <1>1 DEF Init, Events
  <1>3. TypeOK
    BY <1>1, <1>2 DEF TypeOK, Init, Asks
  <1>4. LockHolds
    BY DEF LockHolds, Init
  <1>5. StatusHistoryComplete
    BY <1>2 DEF StatusHistoryComplete, Init, IsMove, NoMoveBetween
  <1>6. ReplayFaithfulUnlessGap
    BY <1>2 DEF ReplayFaithfulUnlessGap, Replayed, Init
  <1> QED BY <1>3, <1>4, <1>5, <1>6 DEF WorkflowInv

(* A transition's result satisfies the table's constraints.                *)
LEMMA MovedOK ==
  ASSUME NEW row \in Rows, NEW to \in Statuses
  PROVE  /\ Moved(row, to) \in Rows
         /\ WellFormed(Moved(row, to))
         /\ Moved(row, to).status = to
         /\ Moved(row, to).asset = row.asset
  BY DEF Moved, Rows, WellFormed, Statuses

(* An assignment leaves the columns the constraints are about.             *)
LEMMA AssignedOK ==
  ASSUME NEW row \in Rows, WellFormed(row), NEW asset \in Assets \union {None}
  PROVE  LET new == [ row EXCEPT !.asset = asset ]
         IN  /\ new \in Rows /\ WellFormed(new)
             /\ new.status = row.status
             /\ (asset = row.asset => new = row)
  <1> DEFINE new == [ row EXCEPT !.asset = asset ]
  <1>1. new \in Rows /\ WellFormed(new) /\ new.status = row.status
    BY DEF Rows, WellFormed
  <1>2. ASSUME asset = row.asset PROVE new = row
    BY <1>2 DEF Rows
  <1> QED BY <1>1, <1>2

(* TypeOK survives every step.                                             *)
LEMMA TypeStep == TypeOK /\ [Next]_vars => TypeOK'
  <1> SUFFICES ASSUME TypeOK, [Next]_vars PROVE TypeOK'
    OBVIOUS
  <1> USE DEF TypeOK
  <1>0. NewTask \in Rows /\ WellFormed(NewTask) /\ NoAsk \in [ to : Statuses ]
    BY DEF NewTask, Rows, Statuses, WellFormed, NoAsk
  <1>1. ASSUME NEW r \in Requests, Load(r) PROVE TypeOK'
    BY <1>1 DEF Load, Goto
  <1>2. ASSUME NEW r \in Requests, NEW to \in Statuses, NEW g \in BOOLEAN,
               RequestTransition(r, to, g)
        PROVE  TypeOK'
    BY <1>2 DEF RequestTransition, Goto, Asks
  <1>3. ASSUME NEW r \in Requests, NEW a \in Assets \union {None}, RequestUpdate(r, a)
        PROVE  TypeOK'
    BY <1>3 DEF RequestUpdate, Goto, Asks
  <1>4. ASSUME NEW r \in Requests, Refuse(r) PROVE TypeOK'
    BY <1>0, <1>4 DEF Refuse, Respond, Goto, Asks
  <1>5. ASSUME NEW r \in Requests, Lock(r) PROVE TypeOK'
    BY <1>5 DEF Lock, Goto
  <1>6. ASSUME NEW r \in Requests, LoseRace(r) PROVE TypeOK'
    BY <1>0, <1>6 DEF LoseRace, Respond, Goto, Asks
  <1>7. ASSUME NEW r \in Requests, CommitTransition(r) PROVE TypeOK'
    <2> DEFINE after == Moved(copy[r], asked[r].to)
    <2>1. asked[r].to \in Statuses /\ copy[r] \in Rows
      BY <1>7 DEF CommitTransition
    <2>2. after \in Rows /\ WellFormed(after)
      BY <2>1, MovedOK
    <2>3. task' \in Rows /\ WellFormed(task')
      <3>1. task.asset \in Assets \union {None}
        BY DEF Rows
      <3>2. task' = [ after EXCEPT !.asset = task.asset ]
        BY <1>7 DEF CommitTransition
      <3> QED BY <2>2, <3>1, <3>2, AssignedOK
    <2>4. Event("transitioned", r, after) \in Events
      BY <2>1, <2>2 DEF Event, Events
    <2>5. log' \in Seq(Events) /\ log' # << >>
      BY <2>4, <1>7 DEF CommitTransition
    <2> QED BY <1>0, <1>7, <2>3, <2>5 DEF CommitTransition, Respond, Release, Goto, Asks
  <1>8. ASSUME NEW r \in Requests, SaveUpdate(r) PROVE TypeOK'
    BY <1>8 DEF SaveUpdate, Goto
  <1>9. ASSUME NEW r \in Requests, CommitUpdate(r) PROVE TypeOK'
    <2> DEFINE after == [ copy[r] EXCEPT !.asset = asked[r].asset ]
    <2>1. asked[r].asset \in Assets \union {None} /\ copy[r] \in Rows /\ WellFormed(copy[r])
      BY <1>9 DEF CommitUpdate
    <2>2. after \in Rows
      BY <2>1, AssignedOK
    <2>3. task' \in Rows /\ WellFormed(task')
      BY <1>9, <2>1, AssignedOK DEF CommitUpdate
    <2>4. Event("updated", r, after) \in Events
      BY <2>1, <2>2 DEF Event, Events
    <2>5. log' \in Seq(Events) /\ log' # << >>
      BY <2>4, <1>9 DEF CommitUpdate
    <2> QED BY <1>0, <1>9, <2>3, <2>5 DEF CommitUpdate, Respond, Release, Goto, Asks
  <1>10. ASSUME NEW r \in Requests, Rollback(r) PROVE TypeOK'
    BY <1>0, <1>10 DEF Rollback, Respond, Release, Goto, Asks
  <1>11. CASE UNCHANGED vars
    BY <1>11 DEF vars
  <1> QED BY <1>1, <1>2, <1>3, <1>4, <1>5, <1>6, <1>7, <1>8, <1>9, <1>10, <1>11
          DEF Next, Serve

(* The row lock does what the two services rely on.                        *)
LEMMA LockStep == TypeOK /\ LockHolds /\ [Next]_vars => LockHolds'
  <1> SUFFICES ASSUME TypeOK, LockHolds, [Next]_vars PROVE LockHolds'
    OBVIOUS
  <1> USE DEF TypeOK, LockHolds
  <1>1. ASSUME NEW r \in Requests, Load(r) PROVE LockHolds'
    BY <1>1 DEF Load, Goto, Dirty
  <1>2. ASSUME NEW r \in Requests, NEW to \in Statuses, NEW g \in BOOLEAN,
               RequestTransition(r, to, g)
        PROVE  LockHolds'
    BY <1>2 DEF RequestTransition, Goto, Dirty
  <1>3. ASSUME NEW r \in Requests, NEW a \in Assets \union {None}, RequestUpdate(r, a)
        PROVE  LockHolds'
    BY <1>3 DEF RequestUpdate, Goto, Dirty
  <1>4. ASSUME NEW r \in Requests, Refuse(r) PROVE LockHolds'
    BY <1>4 DEF Refuse, Respond, Goto, Dirty
  <1>5. ASSUME NEW r \in Requests, Lock(r) PROVE LockHolds'
    BY <1>5 DEF Lock, Goto, Dirty, RowFree, StillAllowed
  <1>6. ASSUME NEW r \in Requests, LoseRace(r) PROVE LockHolds'
    BY <1>6 DEF LoseRace, Respond, Goto, Dirty
  <1>7. ASSUME NEW r \in Requests, CommitTransition(r) PROVE LockHolds'
    <2>1. rowOwner = r /\ rowOwner' = None
      BY <1>7 DEF CommitTransition, Release
    <2> QED BY <2>1, <1>7 DEF CommitTransition, Respond, Goto, Dirty
  <1>8. ASSUME NEW r \in Requests, SaveUpdate(r) PROVE LockHolds'
    BY <1>8 DEF SaveUpdate, Goto, Dirty, RowFree
  <1>9. ASSUME NEW r \in Requests, CommitUpdate(r) PROVE LockHolds'
    <2>1. ASSUME NEW q \in Requests, q # r, pc'[q] = "moving" PROVE task' = task
      BY <2>1, <1>9 DEF CommitUpdate, Respond, Goto
    <2>2. ASSUME NEW q \in Requests, q # r
          PROVE  /\ pc'[q] = pc[q] /\ copy'[q] = copy[q] /\ asked'[q] = asked[q]
                 /\ (rowOwner' = q <=> rowOwner = q)
      BY <2>2, <1>9 DEF CommitUpdate, Respond, Goto, Release
    <2>3. pc'[r] = "idle" /\ rowOwner' # r
      BY <1>9 DEF CommitUpdate, Respond, Goto, Release
    <2> QED BY <2>1, <2>2, <2>3 DEF Dirty
  <1>10. ASSUME NEW r \in Requests, Rollback(r) PROVE LockHolds'
    BY <1>10 DEF Rollback, Respond, Release, Goto, Dirty
  <1>11. CASE UNCHANGED vars
    BY <1>11 DEF vars, Dirty
  <1> QED BY <1>1, <1>2, <1>3, <1>4, <1>5, <1>6, <1>7, <1>8, <1>9, <1>10, <1>11
          DEF Next, Serve

(* What a step may do to the row and the log: nothing, append a transition *)
(* that starts at the row, or append an update that keeps the status.      *)
LEMMA StepShape ==
  ASSUME TypeOK, LockHolds, [Next]_vars
  PROVE  \/ UNCHANGED << task, log >>
         \/ \E e \in Events :
              /\ log' = Append(log, e)
              /\ e.kind = "transitioned"
              /\ e.before = task
              /\ task' = e.after
              /\ task'.status \in Allowed[task.status]
         \/ \E e \in Events :
              /\ log' = Append(log, e)
              /\ e.kind = "updated"
              /\ task'.status = task.status
              /\ e.before = task => task' = e.after
  <1> USE DEF TypeOK, LockHolds
  <1>1. ASSUME NEW r \in Requests, CommitTransition(r)
        PROVE  \E e \in Events :
                 /\ log' = Append(log, e)
                 /\ e.kind = "transitioned"
                 /\ e.before = task
                 /\ task' = e.after
                 /\ task'.status \in Allowed[task.status]
    <2> DEFINE after == Moved(copy[r], asked[r].to)
               e == Event("transitioned", r, after)
    <2>1. copy[r] = task /\ asked[r].to \in Allowed[task.status] /\ asked[r].to \in Statuses
      BY <1>1 DEF CommitTransition
    <2>2. after \in Rows /\ WellFormed(after) /\ after.status = asked[r].to /\ after.asset = task.asset
      BY <2>1, MovedOK
    <2>3. task' = after
      <3>1. task' = [ after EXCEPT !.asset = task.asset ]
        BY <1>1 DEF CommitTransition
      <3>2. task.asset \in Assets \union {None}
        BY DEF Rows
      <3> QED BY <2>2, <3>1, <3>2, AssignedOK
    <2>4. e \in Events /\ e.kind = "transitioned" /\ e.before = task /\ e.after = after
      BY <2>1, <2>2 DEF Event, Events
    <2>5. log' = Append(log, e)
      BY <1>1 DEF CommitTransition
    <2> HIDE DEF e, after
    <2> QED BY <2>1, <2>2, <2>3, <2>4, <2>5
  <1>2. ASSUME NEW r \in Requests, CommitUpdate(r)
        PROVE  \E e \in Events :
                 /\ log' = Append(log, e)
                 /\ e.kind = "updated"
                 /\ task'.status = task.status
                 /\ e.before = task => task' = e.after
    <2> DEFINE asset == asked[r].asset
               after == [ copy[r] EXCEPT !.asset = asset ]
               e == Event("updated", r, after)
    <2>1. asset \in Assets \union {None} /\ copy[r] \in Rows /\ WellFormed(copy[r])
      BY <1>2 DEF CommitUpdate
    <2>2. after \in Rows /\ (asset = copy[r].asset => after = copy[r])
      BY <2>1, AssignedOK
    <2>3. e \in Events /\ e.kind = "updated" /\ e.before = copy[r] /\ e.after = after
      BY <2>1, <2>2 DEF Event, Events
    <2>4. log' = Append(log, e)
      BY <1>2 DEF CommitUpdate
    <2>5. task' = IF asset # copy[r].asset THEN [ task EXCEPT !.asset = asset ] ELSE task
      BY <1>2 DEF CommitUpdate, Dirty
    <2>6. task'.status = task.status
      BY <2>1, <2>5, AssignedOK
    <2>7. e.before = task => task' = e.after
      BY <2>2, <2>3, <2>5
    <2> HIDE DEF e, after, asset
    <2> QED BY <2>3, <2>4, <2>6, <2>7
  <1>3. ASSUME NEW r \in Requests,
               \/ Load(r) \/ Refuse(r) \/ Lock(r) \/ LoseRace(r) \/ SaveUpdate(r) \/ Rollback(r)
               \/ \E to \in Statuses, g \in BOOLEAN : RequestTransition(r, to, g)
               \/ \E a \in Assets \union {None} : RequestUpdate(r, a)
        PROVE  UNCHANGED << task, log >>
    BY <1>3 DEF Load, Refuse, Lock, LoseRace, SaveUpdate, Rollback, RequestTransition, RequestUpdate
  <1>4. CASE UNCHANGED vars
    BY <1>4 DEF vars
  <1> QED BY <1>1, <1>2, <1>3, <1>4 DEF Next, Serve

(* Appending an event to a log keeps the events that are there.            *)
LEMMA Appended ==
  ASSUME TypeOK, NEW e \in Events, log' = Append(log, e)
  PROVE  /\ Len(log) \in Nat \ {0} /\ DOMAIN log = 1..Len(log)
         /\ Len(log') = Len(log) + 1 /\ DOMAIN log' = 1..(Len(log) + 1)
         /\ \A i \in DOMAIN log : log'[i] = log[i]
         /\ log'[Len(log) + 1] = e
  BY DEF TypeOK

(* The recorded transitions stay a path that ends at the row's status.     *)
LEMMA HistoryStep == WorkflowInv /\ [Next]_vars => StatusHistoryComplete'
  <1> SUFFICES ASSUME WorkflowInv, [Next]_vars PROVE StatusHistoryComplete'
    OBVIOUS
  <1> USE DEF WorkflowInv
  <1>1. CASE UNCHANGED << task, log >>
    BY <1>1 DEF StatusHistoryComplete, IsMove, NoMoveBetween
  <1>2. CASE \E e \in Events :
               /\ log' = Append(log, e)
               /\ e.kind = "transitioned"
               /\ e.before = task
               /\ task' = e.after
    <2> PICK e \in Events : /\ log' = Append(log, e)
                            /\ e.kind = "transitioned"
                            /\ e.before = task
                            /\ task' = e.after
      BY <1>2
    <2> PICK n \in Nat : n = Len(log) + 1
      BY DEF TypeOK
    <2>1. /\ Len(log) \in Nat \ {0} /\ DOMAIN log = 1..Len(log)
          /\ Len(log') = Len(log) + 1 /\ DOMAIN log' = 1..(Len(log) + 1)
          /\ \A i \in DOMAIN log : log'[i] = log[i]
          /\ log'[n] = e
      BY Appended
    <2>2. \A i \in DOMAIN log : IsMove(i)' = IsMove(i)
      BY <2>1 DEF IsMove
    <2>3. IsMove(n)'
      BY <2>1 DEF IsMove
    <2>4. ASSUME NEW i \in DOMAIN log', NEW j \in DOMAIN log',
                 IsMove(i)', IsMove(j)', i < j, NoMoveBetween(i, j)'
          PROVE  log'[j].before.status = log'[i].after.status
      <3>1. i \in DOMAIN log /\ IsMove(i)
        BY <2>1, <2>2, <2>4
      <3>2. \A k \in DOMAIN log : i < k /\ k < j => ~IsMove(k)
        BY <2>1, <2>2, <2>4 DEF NoMoveBetween
      <3>3. CASE j \in DOMAIN log
        BY <2>1, <2>2, <2>4, <3>1, <3>2, <3>3 DEF StatusHistoryComplete, NoMoveBetween
      <3>4. CASE j = n
        BY <2>1, <3>1, <3>2, <3>4 DEF StatusHistoryComplete, NoMoveBetween
      <3> QED BY <2>1, <3>3, <3>4
    <2>5. ASSUME NEW i \in DOMAIN log', IsMove(i)',
                 \A k \in DOMAIN log' : i < k /\ k < Len(log') + 1 => ~IsMove(k)'
          PROVE  log'[i].after.status = task'.status
      <3>1. i = n
        BY <2>1, <2>3, <2>5
      <3> QED BY <2>1, <3>1
    <2> QED BY <2>4, <2>5 DEF StatusHistoryComplete, NoMoveBetween
  <1>3. CASE \E e \in Events :
               /\ log' = Append(log, e)
               /\ e.kind = "updated"
               /\ task'.status = task.status
    <2> PICK e \in Events : /\ log' = Append(log, e)
                            /\ e.kind = "updated"
                            /\ task'.status = task.status
      BY <1>3
    <2> PICK n \in Nat : n = Len(log) + 1
      BY DEF TypeOK
    <2>1. /\ Len(log) \in Nat \ {0} /\ DOMAIN log = 1..Len(log)
          /\ Len(log') = Len(log) + 1 /\ DOMAIN log' = 1..(Len(log) + 1)
          /\ \A i \in DOMAIN log : log'[i] = log[i]
          /\ log'[n] = e
      BY Appended
    <2>2. \A i \in DOMAIN log : IsMove(i)' = IsMove(i)
      BY <2>1 DEF IsMove
    <2>3. ~IsMove(n)'
      BY <2>1 DEF IsMove
    <2>4. ASSUME NEW i \in DOMAIN log', IsMove(i)'
          PROVE  i \in DOMAIN log /\ IsMove(i)
      BY <2>1, <2>2, <2>3, <2>4
    <2>5. ASSUME NEW i \in DOMAIN log', NEW j \in DOMAIN log',
                 IsMove(i)', IsMove(j)', i < j, NoMoveBetween(i, j)'
          PROVE  log'[j].before.status = log'[i].after.status
      <3>1. NoMoveBetween(i, j)
        BY <2>1, <2>2, <2>5 DEF NoMoveBetween
      <3> QED BY <2>1, <2>4, <2>5, <3>1 DEF StatusHistoryComplete
    <2>6. ASSUME NEW i \in DOMAIN log', IsMove(i)',
                 \A k \in DOMAIN log' : i < k /\ k < Len(log') + 1 => ~IsMove(k)'
          PROVE  log'[i].after.status = task'.status
      <3>1. NoMoveBetween(i, Len(log) + 1)
        BY <2>1, <2>2, <2>6 DEF NoMoveBetween
      <3> QED BY <2>1, <2>4, <2>6, <3>1 DEF StatusHistoryComplete
    <2> QED BY <2>5, <2>6 DEF StatusHistoryComplete, NoMoveBetween
  <1> QED BY <1>1, <1>2, <1>3, StepShape

(* A log without gaps still replays to the row.                            *)
LEMMA ReplayStep == WorkflowInv /\ [Next]_vars => ReplayFaithfulUnlessGap'
  <1> SUFFICES ASSUME WorkflowInv, [Next]_vars, EventsConnect' PROVE Replayed' = task'
    BY DEF ReplayFaithfulUnlessGap
  <1> USE DEF WorkflowInv
  <1>1. CASE UNCHANGED << task, log >>
    BY <1>1 DEF ReplayFaithfulUnlessGap, EventsConnect, Replayed
  <1>2. CASE \E e \in Events :
               /\ log' = Append(log, e)
               /\ e.before = task => task' = e.after
    <2> PICK e \in Events : log' = Append(log, e) /\ (e.before = task => task' = e.after)
      BY <1>2
    <2>1. /\ Len(log) \in Nat \ {0} /\ DOMAIN log = 1..Len(log)
          /\ Len(log') = Len(log) + 1
          /\ \A i \in DOMAIN log : log'[i] = log[i]
          /\ log'[Len(log) + 1] = e
      BY Appended
    <2>2. EventsConnect /\ e.before = log[Len(log)].after
      BY <2>1 DEF EventsConnect
    <2>3. e.before = task
      BY <2>2 DEF ReplayFaithfulUnlessGap, Replayed
    <2> QED BY <2>1, <2>3 DEF Replayed
  <1> QED BY <1>1, <1>2, StepShape

(* The model keeps to its types: in particular, no writer of a stale copy  *)
(* violates the constraints on blocked_reason and resolved_at.             *)
THEOREM Typing == Spec => []TypeOK
  <1>1. Init => TypeOK
    BY InitInv DEF WorkflowInv
  <1> QED BY <1>1, TypeStep, PTL DEF Spec

(* The inductive invariant, for every set of requests and any length of    *)
(* the log.                                                                *)
THEOREM Invariance == Spec => []WorkflowInv
  <1>1. WorkflowInv /\ [Next]_vars => WorkflowInv'
    BY TypeStep, LockStep, HistoryStep, ReplayStep DEF WorkflowInv
  <1> QED BY InitInv, <1>1, PTL DEF Spec

(* No recorded transition is lost to a race.                               *)
THEOREM NoTransitionLost == Spec => []StatusHistoryComplete
  <1>1. WorkflowInv => StatusHistoryComplete
    BY DEF WorkflowInv
  <1> QED BY <1>1, Invariance, PTL

(* A log that has parted from the row shows a gap.                         *)
THEOREM ReplayFaithful == Spec => []ReplayFaithfulUnlessGap
  <1>1. WorkflowInv => ReplayFaithfulUnlessGap
    BY DEF WorkflowInv
  <1> QED BY <1>1, Invariance, PTL

(* No race takes the status along an edge that is not in the workflow.     *)
THEOREM WorkflowRespected == Spec => MovesAreAllowed
  <1>1. WorkflowInv /\ [Next]_vars
          => [task'.status # task.status => task'.status \in Allowed[task.status]]_vars
    BY StepShape DEF WorkflowInv
  <1> QED BY <1>1, Invariance, PTL DEF Spec, MovesAreAllowed
=============================================================================
