----------------------------- MODULE TaskWorkflow -----------------------------
(***************************************************************************)
(* One task, the requests that change it, and the audit events written     *)
(* about it.  Tasks::TransitionService moves the task through its workflow *)
(* under a row lock; Tasks::UpdateService writes metadata without one.     *)
(* Both work on a copy the controller loaded before, and both record a     *)
(* full snapshot of the copy.                                              *)
(*                                                                         *)
(* Abstracted: asset stands for the columns UpdateService may write; its   *)
(* posture rule, which reads rows of other tables, may refuse any request; *)
(* reasons and times are present or absent.  An event joins the log when   *)
(* its transaction commits: the chain lock (AuditChain) is held from one   *)
(* to the other.                                                           *)
(***************************************************************************)
EXTENDS Naturals, Sequences

CONSTANTS
  Requests,    \* request threads; each serves one request after another
  Commanders,  \* those of commanders; the others are operators'
  Assets,
  None,
  MaxEvents    \* bound: no new change is asked for when the log is this long

ASSUME RequestsAssumption ==
  /\ Commanders \subseteq Requests
  /\ None \notin Requests /\ None \notin Assets
  /\ MaxEvents \in Nat

VARIABLES
  task,      \* the committed row
  log,       \* its audit events, by (occurred_at, sequence)
  rowOwner,  \* the request whose transaction holds the row's lock
  pc,
  copy,      \* the record a request works on
  asked      \* what the request asks for

vars == << task, log, rowOwner, pc, copy, asked >>

Statuses == { "new", "triaged", "in_progress", "blocked", "resolved" }

(* ALLOWED_TRANSITIONS                                                     *)
Allowed ==
  [ s \in Statuses |->
      CASE s = "new"         -> { "triaged" }
        [] s = "triaged"     -> { "in_progress" }
        [] s = "in_progress" -> { "blocked", "resolved" }
        [] s = "blocked"     -> { "in_progress" }
        [] s = "resolved"    -> { "triaged" } ]

(* COMMANDER_ONLY_TRANSITIONS: sign off, unblock, reopen.                  *)
CommanderOnly ==
  [ s \in Statuses |->
      CASE s = "in_progress" -> { "resolved" }
        [] s = "blocked"     -> { "in_progress" }
        [] s = "resolved"    -> { "triaged" }
        [] OTHER             -> {} ]

Rows == [ status : Statuses, asset : Assets \union {None},
          blockedReason : BOOLEAN, resolvedAt : BOOLEAN ]

(* blocked_reason_consistency and the two resolved_at constraints.         *)
WellFormed(row) ==
  /\ row.blockedReason <=> row.status = "blocked"
  /\ row.resolvedAt <=> row.status = "resolved"

Events == [ kind : { "created", "transitioned", "updated" },
            before : Rows \union {None}, after : Rows, by : Requests \union {None} ]

NewTask == [ status |-> "new", asset |-> None, blockedReason |-> FALSE,
             resolvedAt |-> FALSE ]

Asks == [ to : Statuses ] \union [ asset : Assets \union {None} ]

(* Mutant: lock! does not wait for the other transaction.                  *)
RowFreeUnlocked(r) == TRUE

RowFree(r) == rowOwner = None

(* Mutant: no second transition_allowed? after lock!.                      *)
StillAllowedUnchecked(r) == TRUE

StillAllowed(r) == asked[r].to \in Allowed[task.status]

(* Mutant: the snapshot is taken before the attributes are assigned.       *)
EventBeforeSave(kind, r, after) ==
  [ kind |-> kind, before |-> copy[r], after |-> copy[r], by |-> r ]

Event(kind, r, after) ==
  [ kind |-> kind, before |-> copy[r], after |-> after, by |-> r ]

(* Mutant: reopening keeps resolved_at.                                    *)
MovedKeepingResolvedAt(row, to) ==
  [ row EXCEPT !.status = to,
               !.blockedReason = (to = "blocked"),
               !.resolvedAt = (row.resolvedAt \/ to = "resolved") ]

(* The three columns a transition assigns.                                 *)
Moved(row, to) ==
  [ row EXCEPT !.status = to,
               !.blockedReason = (to = "blocked"),
               !.resolvedAt = (to = "resolved") ]

(* save! writes the attributes that differ from the copy, and only those.  *)
Dirty(r) == asked[r].asset # copy[r].asset

NoAsk == [ to |-> "triaged" ]

Goto(r, place) == pc' = [ pc EXCEPT ![r] = place ]

(* Mutant: a loser of the race asks for the lock again, and again.         *)
RespondToWinners(r) ==
  IF pc[r] = "locking"
  THEN UNCHANGED << pc, copy, asked >>
  ELSE /\ Goto(r, "idle")
       /\ copy' = [ copy EXCEPT ![r] = NewTask ]
       /\ asked' = [ asked EXCEPT ![r] = NoAsk ]

(* The response is sent and what the request worked on is garbage.         *)
Respond(r) ==
  /\ Goto(r, "idle")
  /\ copy' = [ copy EXCEPT ![r] = NewTask ]
  /\ asked' = [ asked EXCEPT ![r] = NoAsk ]

Release(r) == rowOwner' = IF rowOwner = r THEN None ELSE rowOwner

-----------------------------------------------------------------------------
(* scoped_record: the request's own copy, read without a lock.             *)
Load(r) ==
  /\ pc[r] = "idle"
  /\ copy' = [ copy EXCEPT ![r] = task ]
  /\ Goto(r, "loaded")
  /\ UNCHANGED << task, log, rowOwner, asked >>

(* TransitionService.call up to the transaction: checks on the copy.       *)
RequestTransition(r, to, reasonGiven) ==
  /\ pc[r] = "loaded" /\ Len(log) < MaxEvents
  /\ to \in Allowed[copy[r].status]
  /\ to \in CommanderOnly[copy[r].status] => r \in Commanders
  /\ reasonGiven <=> (to = "blocked")
  /\ asked' = [ asked EXCEPT ![r] = [ to |-> to ] ]
  /\ Goto(r, "locking")
  /\ UNCHANGED << task, log, rowOwner, copy >>

(* UpdateService.call up to the transaction.                               *)
RequestUpdate(r, asset) ==
  /\ pc[r] = "loaded" /\ Len(log) < MaxEvents
  /\ asked' = [ asked EXCEPT ![r] = [ asset |-> asset ] ]
  /\ Goto(r, IF asset # copy[r].asset THEN "saving" ELSE "updating")
  /\ UNCHANGED << task, log, rowOwner, copy >>

(* A failed check, here or in the posture rule, ends the request.          *)
Refuse(r) ==
  /\ pc[r] = "loaded"
  /\ Respond(r)
  /\ UNCHANGED << task, log, rowOwner >>

(* lock! waits for the row, reloads the copy, and the check is repeated.   *)
Lock(r) ==
  /\ pc[r] = "locking"
  /\ RowFree(r)
  /\ StillAllowed(r)
  /\ rowOwner' = r
  /\ copy' = [ copy EXCEPT ![r] = task ]
  /\ Goto(r, "moving")
  /\ UNCHANGED << task, log, asked >>

(* StaleTransition: the loser of a race is told so.                        *)
LoseRace(r) ==
  /\ pc[r] = "locking"
  /\ RowFree(r)
  /\ ~StillAllowed(r)
  /\ Respond(r)
  /\ UNCHANGED << task, log, rowOwner >>

CommitTransition(r) ==
  LET after == Moved(copy[r], asked[r].to)
  IN  /\ pc[r] = "moving"
      /\ task' = [ after EXCEPT !.asset = task.asset ]
      /\ log' = Append(log, Event("transitioned", r, after))
      /\ Release(r)
      /\ Respond(r)

(* The UPDATE of UpdateService waits for the row lock like any other.      *)
SaveUpdate(r) ==
  /\ pc[r] = "saving"
  /\ RowFree(r)
  /\ rowOwner' = r
  /\ Goto(r, "updating")
  /\ UNCHANGED << task, log, copy, asked >>

CommitUpdate(r) ==
  LET after == [ copy[r] EXCEPT !.asset = asked[r].asset ]
  IN  /\ pc[r] = "updating"
      /\ task' = IF Dirty(r) THEN [ task EXCEPT !.asset = asked[r].asset ] ELSE task
      /\ log' = Append(log, Event("updated", r, after))
      /\ Release(r)
      /\ Respond(r)

(* The audit write raises: the row is as it was.                           *)
Rollback(r) ==
  /\ pc[r] \in { "moving", "updating" }
  /\ Release(r)
  /\ Respond(r)
  /\ UNCHANGED << task, log >>

-----------------------------------------------------------------------------
(* CreationService: the row and its first event in one transaction.        *)
Init ==
  /\ task = NewTask
  /\ log = << [ kind |-> "created", before |-> None, after |-> NewTask, by |-> None ] >>
  /\ rowOwner = None
  /\ pc = [ r \in Requests |-> "idle" ]
  /\ copy = [ r \in Requests |-> NewTask ]
  /\ asked = [ r \in Requests |-> NoAsk ]

Serve(r) ==
  \/ Lock(r) \/ LoseRace(r) \/ CommitTransition(r)
  \/ SaveUpdate(r) \/ CommitUpdate(r) \/ Rollback(r)

Next ==
  \E r \in Requests :
    \/ Load(r)
    \/ \E to \in Statuses, reasonGiven \in BOOLEAN : RequestTransition(r, to, reasonGiven)
    \/ \E asset \in Assets \union {None} : RequestUpdate(r, asset)
    \/ Refuse(r)
    \/ Serve(r)

Spec == Init /\ [][Next]_vars

(* A row lock is granted in the order it was asked for, and a request that *)
(* has it goes on.                                                         *)
FairSpec == Spec /\ \A r \in Requests : SF_vars(Serve(r))

-----------------------------------------------------------------------------
(* The row and every copy satisfy the table's constraints, which no writer *)
(* of stale copies can break, and a request that is waiting for the row or *)
(* writing to it asked for that.                                           *)
TypeOK ==
  /\ task \in Rows /\ WellFormed(task)
  /\ log \in Seq(Events) /\ log # << >>
  /\ rowOwner \in Requests \union {None}
  /\ pc \in [ Requests -> { "idle", "loaded", "locking", "moving", "saving", "updating" } ]
  /\ copy \in [ Requests -> Rows ] /\ \A r \in Requests : WellFormed(copy[r])
  /\ asked \in [ Requests -> Asks ]
  /\ \A r \in Requests : pc[r] \in { "locking", "moving" } => asked[r] \in [ to : Statuses ]
  /\ \A r \in Requests :
       pc[r] \in { "saving", "updating" } => asked[r] \in [ asset : Assets \union {None} ]

(* The request inside a transition has the row, a fresh copy of it, and    *)
(* permission to move it; one inside a dirty update has the row.           *)
LockHolds ==
  \A r \in Requests :
    /\ pc[r] = "moving" => /\ rowOwner = r
                           /\ copy[r] = task
                           /\ asked[r].to \in Allowed[task.status]
    /\ pc[r] = "updating" /\ Dirty(r) => rowOwner = r
    /\ pc[r] = "saving" => Dirty(r)
    /\ rowOwner = r => pc[r] \in { "moving", "updating" }

(* However operators race, the committed status moves only along           *)
(* ALLOWED_TRANSITIONS: what the lock and the second check are for.        *)
MovesAreAllowed ==
  [][ task'.status # task.status => task'.status \in Allowed[task.status] ]_vars

IsMove(i) == i \in DOMAIN log /\ log[i].kind # "updated"

NoMoveBetween(i, j) == \A k \in DOMAIN log : i < k /\ k < j => ~IsMove(k)

(* No transition is lost or overwritten: each one recorded starts at the   *)
(* status the one before it left, and the last one is the row's.           *)
StatusHistoryComplete ==
  /\ \A i, j \in DOMAIN log :
       IsMove(i) /\ IsMove(j) /\ i < j /\ NoMoveBetween(i, j)
         => log[j].before.status = log[i].after.status
  /\ \A i \in DOMAIN log :
       IsMove(i) /\ NoMoveBetween(i, Len(log) + 1) => log[i].after.status = task.status

(* AuditSnapshotService: each snapshot has every column, so that merging   *)
(* them in order leaves the last one.                                      *)
Replayed == log[Len(log)].after

EventsConnect == \A i \in 1..(Len(log) - 1) : log[i + 1].before = log[i].after

(* As long as each event takes up where the last one left off, replaying   *)
(* the log gives the row: a gap between two events is the only sign that   *)
(* the log has parted from the data, and there always is one.              *)
ReplayFaithfulUnlessGap == EventsConnect => Replayed = task

WorkflowInv == TypeOK /\ LockHolds /\ StatusHistoryComplete /\ ReplayFaithfulUnlessGap

(* A transition that has been asked for is answered, be it by a refusal.   *)
TransitionsAnswered == \A r \in Requests : pc[r] = "locking" ~> pc[r] = "idle"

(* Refuted: an update records the status its copy was loaded with.         *)
ReplayMatchesTask == Replayed = task

(* Refuted: the commander check is made on the copy, and only there.       *)
CommandersSignOff ==
  \A i \in DOMAIN log :
    log[i].kind = "transitioned" /\ log[i].after.status \in CommanderOnly[log[i].before.status]
      => log[i].by \in Commanders
=============================================================================
