---------------------------- MODULE IncidentFusion ----------------------------
(***************************************************************************)
(* The incidents of one site: Incidents::FusionService groups matches into *)
(* them, one fusion at a time under a lock on the site's row, while        *)
(* operators move and edit them (Incidents::TransitionService and          *)
(* UpdateService) from copies their controllers loaded, without a lock.    *)
(*                                                                         *)
(* updated_at is stamped, and the window is read, by the clock of whichever*)
(* process does it (Time.current), and those differ by up to Skew.         *)
(*                                                                         *)
(* A fusion is called by an Incidents::FusionJob, which is retried, or by  *)
(* Sites::GeofenceBreachService, which is not.                             *)
(*                                                                         *)
(* Abstracted: confidence is the severity computed from it; lifecycle      *)
(* times are present or absent; the rationale text is left out.  save! and *)
(* the audit write of one transaction are one step, since the incident's   *)
(* row is locked from the first to COMMIT (AuditChain has the rest).       *)
(***************************************************************************)
EXTENDS Integers, Sequences, FiniteSets

CONSTANTS
  Matches,      \* SignalRuleMatch rows of the site
  Jobs,         \* those fused by a FusionJob
  SeverityOf,   \* severity_from_confidence of each match
  Operators,
  None,
  Window,       \* FUSION_WINDOW
  Skew,         \* how far one process's clock may be ahead of another's
  MaxAttempts,  \* attempts: 5 of FusionJob's retry_on
  MaxTime,      \* bound: the clock stops here
  MaxFaults,    \* bound: raising statements, enqueues and dying workers
  MaxEdits      \* bound: transitions and updates by operators

ASSUME FusionAssumption ==
  /\ Jobs \subseteq Matches
  /\ SeverityOf \in [Matches -> 1..4]
  /\ None \notin Matches /\ None \notin Nat
  /\ Window \in Nat /\ Skew \in Nat /\ MaxAttempts \in Nat \ {0}
  /\ MaxTime \in Nat /\ MaxFaults \in Nat /\ MaxEdits \in Nat

VARIABLES
  now,
  incidents,  \* committed rows, by order of creation
  replay,     \* of each, its after_snapshots merged in order
  siteOwner,  \* the fusion whose transaction holds the site's row
  pc,         \* of each match's fusion
  attempt,
  view,       \* the incident a fusion selected, with the severity it read
  link,       \* incident_id of each match, 0 for NULL
  fused,      \* history: <<match, incident>> of each fusion that committed
  passed,     \* history: incidents a fusion found none in its window but for its clock
  copy,       \* the record an operator's request works on
  touched,    \* history: incidents operators have written to
  edited,     \* history: incidents whose severity operators have set
  faults, edits

fusionVars == << siteOwner, pc, attempt, view, link, fused, passed >>
vars == << now, incidents, replay, fusionVars, copy, touched, edited, faults, edits >>

Statuses == { "open", "acknowledged", "contained", "resolved", "closed" }

Severities == 1..4

(* Incident::TRANSITIONS                                                   *)
Transitions ==
  [ s \in Statuses |->
      CASE s = "open"         -> { "acknowledged", "contained", "resolved", "closed" }
        [] s = "acknowledged" -> { "contained", "resolved", "closed", "open" }
        [] s = "contained"    -> { "resolved", "closed", "acknowledged" }
        [] s = "resolved"     -> { "closed", "open" }
        [] s = "closed"       -> { "open" } ]

(* What a process's clock may show.                                        *)
Clocks == now..(now + Skew)

(* The window query of a process whose clock shows t:                      *)
(* FUSION_WINDOW.ago..Time.current, which has two ends.                    *)
Fusable(i, t) ==
  /\ incidents[i].status \in { "open", "acknowledged" }
  /\ incidents[i].updated \in (t - Window)..t

(* order(updated_at: :desc).first                                          *)
Latest(i, t) ==
  \A j \in DOMAIN incidents : Fusable(j, t) => incidents[j].updated <= incidents[i].updated

(* One that would be found, were it not for a clock ahead of another.      *)
Recent(i) ==
  /\ incidents[i].status \in { "open", "acknowledged" }
  /\ incidents[i].updated >= now - Window

(* Mutant: the new alert's severity wins, higher or not.                   *)
HigherTakesNew(a, b) == b

Higher(a, b) == IF a >= b THEN a ELSE b

(* Mutant: the site's row is read without FOR UPDATE.                      *)
SiteFreeUnlocked(m) == TRUE

SiteFree(m) == siteOwner = None

Goto(m, place) == pc' = [ pc EXCEPT ![m] = place ]

(* Mutant: only the attach ends its transaction.                           *)
ReleaseSiteOfAttach(m) ==
  siteOwner' = IF siteOwner = m /\ pc[m] = "attaching" THEN None ELSE siteOwner

ReleaseSite(m) == siteOwner' = IF siteOwner = m THEN None ELSE siteOwner

Fault == faults < MaxFaults /\ faults' = faults + 1

-----------------------------------------------------------------------------
(* FusionService.call                                                      *)

(* Site.lock("FOR UPDATE").find                                            *)
LockSite(m) ==
  /\ pc[m] = "ready"
  /\ SiteFree(m)
  /\ siteOwner' = m
  /\ attempt' = [ attempt EXCEPT ![m] = @ + 1 ]
  /\ Goto(m, "selecting")
  /\ UNCHANGED << now, incidents, replay, view, link, fused, passed, copy, touched, edited, faults, edits >>

SelectIncident(m) ==
  /\ pc[m] = "selecting"
  /\ \E i \in DOMAIN incidents, t \in Clocks :
       /\ Fusable(i, t) /\ Latest(i, t)
       /\ view' = [ view EXCEPT ![m] = [ id |-> i, severity |-> incidents[i].severity ] ]
  /\ Goto(m, "attaching")
  /\ UNCHANGED << now, incidents, replay, siteOwner, attempt, link, fused, passed, copy, touched, edited, faults, edits >>

SelectNone(m) ==
  /\ pc[m] = "selecting"
  /\ \E t \in Clocks : \A i \in DOMAIN incidents : ~Fusable(i, t)
  /\ passed' = passed \cup { i \in DOMAIN incidents : Recent(i) }
  /\ Goto(m, "creating")
  /\ UNCHANGED << now, incidents, replay, siteOwner, attempt, view, link, fused, copy, touched, edited, faults, edits >>

(* attach_to_existing, the match's link, COMMIT: the severity is written   *)
(* if it differs from the one that was read.                               *)
Attach(m) ==
  LET i == view[m].id
      severity == Higher(view[m].severity, SeverityOf[m])
  IN  /\ pc[m] = "attaching"
      /\ \E t \in Clocks :
           incidents' = [ incidents EXCEPT
             ![i].severity = IF severity # view[m].severity THEN severity ELSE @,
             ![i].updated = t ]
      /\ replay' = [ replay EXCEPT ![i].severity = severity ]
      /\ link' = [ link EXCEPT ![m] = i ]
      /\ fused' = fused \cup { << m, i >> }
      /\ ReleaseSite(m)
      /\ Goto(m, "done")
      /\ UNCHANGED << now, attempt, view, passed, copy, touched, edited, faults, edits >>

(* create_new_incident, the match's link, COMMIT.                          *)
Create(m) ==
  LET i == Len(incidents) + 1
  IN  /\ pc[m] = "creating"
      /\ \E t \in Clocks :
           incidents' = Append(incidents,
             [ status |-> "open", severity |-> SeverityOf[m], acked |-> FALSE,
               closed |-> FALSE, updated |-> t ])
      /\ replay' = Append(replay,
           [ status |-> None, severity |-> SeverityOf[m], acked |-> None, closed |-> None ])
      /\ link' = [ link EXCEPT ![m] = i ]
      /\ fused' = fused \cup { << m, i >> }
      /\ ReleaseSite(m)
      /\ Goto(m, "created")
      /\ UNCHANGED << now, attempt, view, passed, copy, touched, edited, faults, edits >>

(* Recommendations::GenerationJob.perform_later, after COMMIT.             *)
EnqueueGeneration(m) ==
  /\ pc[m] = "created"
  /\ Goto(m, "done")
  /\ UNCHANGED << now, incidents, replay, siteOwner, attempt, view, link, fused, passed, copy, touched, edited, faults, edits >>

(* An error, before or after COMMIT: FusionJob is retried until its budget *)
(* is spent; GeofenceBreachService logs it and goes on.                    *)
Raise(m) ==
  /\ pc[m] \in { "ready", "selecting", "attaching", "creating", "created" }
  /\ Fault
  /\ attempt' = [ attempt EXCEPT ![m] = IF pc[m] = "ready" THEN @ + 1 ELSE @ ]
  /\ ReleaseSite(m)
  /\ Goto(m, IF m \notin Jobs THEN "swallowed"
             ELSE IF attempt'[m] < MaxAttempts THEN "ready" ELSE "dead")
  /\ UNCHANGED << now, incidents, replay, view, link, fused, passed, copy, touched, edited, edits >>

(* RecordInvalid becomes a failed result, which FusionJob does not look at.*)
Invalid(m) ==
  /\ pc[m] \in { "attaching", "creating" }
  /\ Fault
  /\ ReleaseSite(m)
  /\ Goto(m, "swallowed")
  /\ UNCHANGED << now, incidents, replay, attempt, view, link, fused, passed, copy, touched, edited, edits >>

-----------------------------------------------------------------------------
(* Operators                                                               *)

(* scoped_record in IncidentsController                                    *)
Load(o, i) ==
  /\ copy[o] = None
  /\ edits < MaxEdits
  /\ copy' = [ copy EXCEPT ![o] = [ id |-> i, row |-> incidents[i] ] ]
  /\ UNCHANGED << now, incidents, replay, fusionVars, touched, edited, faults, edits >>

(* The copy after TransitionService's assignments: lifecycle times are set *)
(* once and cleared on reopening.                                          *)
Moved(row, to) ==
  [ row EXCEPT !.status = to,
               !.acked = to # "open" /\ (@ \/ to = "acknowledged"),
               !.closed = to # "open" /\ (@ \/ to \in { "resolved", "closed" }) ]

(* save! writes the columns in which after differs from before, and        *)
(* updated_at if there are any.                                            *)
Merged(row, before, after, t) ==
  [ status   |-> IF after.status # before.status THEN after.status ELSE row.status,
    severity |-> IF after.severity # before.severity THEN after.severity ELSE row.severity,
    acked    |-> IF after.acked # before.acked THEN after.acked ELSE row.acked,
    closed   |-> IF after.closed # before.closed THEN after.closed ELSE row.closed,
    updated  |-> IF after # before THEN t ELSE row.updated ]

Save(i, before, after) ==
  \E t \in Clocks :
    incidents' = [ incidents EXCEPT ![i] = Merged(incidents[i], before, after, t) ]

Transition(o, to) ==
  LET i == copy[o].id
      before == copy[o].row
      after == Moved(before, to)
  IN  /\ copy[o] # None
      /\ to \in Transitions[before.status]
      /\ Save(i, before, after)
      /\ replay' = [ replay EXCEPT ![i].status = after.status,
                                   ![i].acked = after.acked, ![i].closed = after.closed ]
      /\ touched' = touched \cup {i}
      /\ edits' = edits + 1
      /\ copy' = [ copy EXCEPT ![o] = None ]
      /\ UNCHANGED << now, fusionVars, edited, faults >>

(* UpdateService with a severity.                                          *)
UpdateSeverity(o, severity) ==
  LET i == copy[o].id
      before == copy[o].row
      after == [ before EXCEPT !.severity = severity ]
  IN  /\ copy[o] # None
      /\ Save(i, before, after)
      /\ replay' = [ replay EXCEPT ![i].severity = severity ]
      /\ touched' = touched \cup {i}
      /\ edited' = edited \cup {i}
      /\ edits' = edits + 1
      /\ copy' = [ copy EXCEPT ![o] = None ]
      /\ UNCHANGED << now, fusionVars, faults >>

(* The request is refused, or its transaction rolls back.                  *)
GiveUp(o) ==
  /\ copy[o] # None
  /\ copy' = [ copy EXCEPT ![o] = None ]
  /\ edits' = edits + 1
  /\ UNCHANGED << now, incidents, replay, fusionVars, touched, edited, faults >>

-----------------------------------------------------------------------------
Clock ==
  /\ now < MaxTime
  /\ now' = now + 1
  /\ UNCHANGED << incidents, replay, fusionVars, copy, touched, edited, faults, edits >>

Init ==
  /\ now = 0
  /\ incidents = << >> /\ replay = << >>
  /\ siteOwner = None
  /\ pc = [ m \in Matches |-> "ready" ]
  /\ attempt = [ m \in Matches |-> 0 ]
  /\ view = [ m \in Matches |-> None ]
  /\ link = [ m \in Matches |-> 0 ]
  /\ fused = {} /\ passed = {}
  /\ copy = [ o \in Operators |-> None ]
  /\ touched = {} /\ edited = {}
  /\ faults = 0 /\ edits = 0

Fuse(m) ==
  \/ LockSite(m) \/ SelectIncident(m) \/ SelectNone(m)
  \/ Attach(m) \/ Create(m) \/ EnqueueGeneration(m)

Operate(o) ==
  \/ \E i \in DOMAIN incidents : Load(o, i)
  \/ \E to \in Statuses : Transition(o, to)
  \/ \E severity \in Severities : UpdateSeverity(o, severity)
  \/ GiveUp(o)

Next ==
  \/ Clock
  \/ \E m \in Matches : Fuse(m) \/ Raise(m) \/ Invalid(m)
  \/ \E o \in Operators : Operate(o)

Spec == Init /\ [][Next]_vars

(* A queued job is taken and goes on, and the site's row is granted in     *)
(* turn.  Errors are not assumed to happen or to stop.                     *)
FairSpec == Spec /\ \A m \in Matches : SF_vars(Fuse(m))

-----------------------------------------------------------------------------
Places == { "ready", "selecting", "attaching", "creating", "created", "done", "dead", "swallowed" }

Incidents == [ status : Statuses, severity : Severities, acked : BOOLEAN,
               closed : BOOLEAN, updated : Nat ]

Snapshots == [ status : Statuses \cup {None}, severity : Severities,
               acked : BOOLEAN \cup {None}, closed : BOOLEAN \cup {None} ]

Views == [ id : Nat, severity : Severities ]

Copies == [ id : Nat, row : Incidents ]

(* Every variable has its shape, ids refer to rows that exist, a match's   *)
(* link is to an incident it was fused into, and a fusion whose            *)
(* transaction is open owns the site's row.                                *)
TypeOK ==
  /\ now \in Nat
  /\ incidents \in Seq(Incidents)
  /\ replay \in Seq(Snapshots) /\ Len(replay) = Len(incidents)
  /\ siteOwner \in Matches \cup {None}
  /\ pc \in [Matches -> Places]
  /\ attempt \in [Matches -> Nat]
  /\ view \in [Matches -> Views \cup {None}]
  /\ link \in [Matches -> Nat]
  /\ fused \subseteq Matches \X DOMAIN incidents
  /\ passed \subseteq DOMAIN incidents
  /\ touched \subseteq DOMAIN incidents /\ edited \subseteq touched
  /\ copy \in [Operators -> Copies \cup {None}]
  /\ \A o \in Operators : copy[o] # None => copy[o] \in Copies /\ copy[o].id \in DOMAIN incidents
  /\ \A m \in Matches :
       /\ link[m] # 0 => << m, link[m] >> \in fused
       /\ pc[m] \in { "created", "done" } => link[m] # 0
       /\ pc[m] = "attaching" => view[m] \in Views /\ view[m].id \in DOMAIN incidents
       /\ siteOwner = m <=> pc[m] \in { "selecting", "attaching", "creating" }

(* What the lock on the site's row is for: fusions alone never leave two   *)
(* incidents that a match could be attached to, only the one opened last   *)
(* (the comment in FusionService.call on racing threads).  Exempt are      *)
(* incidents operators have written to, which may be reopened one beside   *)
(* another, and those a fusion did not find only because of its clock.     *)
NoParallelOpening ==
  \A i \in DOMAIN incidents \ (touched \cup passed) : Recent(i) => i = Len(incidents)

(* Severity ratchets: unless an operator set it, an incident's severity is *)
(* the highest among the matches fused into it, whatever their order.      *)
SeverityIsHighest ==
  \A i \in DOMAIN incidents \ edited :
    /\ \E m \in Matches : << m, i >> \in fused /\ SeverityOf[m] = incidents[i].severity
    /\ \A m \in Matches : << m, i >> \in fused => SeverityOf[m] <= incidents[i].severity

(* No match waits for ever for its site: it is fused, or gives up for a    *)
(* reason that was logged.                                                 *)
FusionsEnd == \A m \in Matches : pc[m] = "ready" ~> pc[m] \in { "done", "dead", "swallowed" }

-----------------------------------------------------------------------------
(* What FusionService.call says of a second thread: it attaches to the     *)
(* incident the first opened and opens none beside it.  Refuted where a    *)
(* clock is ahead: the second does not find an incident dated after its    *)
(* own Time.current.                                                       *)
SecondAttaches ==
  \A i, j \in DOMAIN incidents \ touched : Recent(i) /\ Recent(j) => i = j

(* Refuted: a fusion writes the higher of the match's severity and the one *)
(* it read, over what an operator has set since.                           *)
FusionNeverDowngrades ==
  [][ fused' # fused => \A i \in DOMAIN incidents :
        incidents'[i].severity >= incidents[i].severity ]_vars

(* Refuted: a job that raises after COMMIT runs again.                     *)
OneIncidentPerMatch ==
  \A p, q \in fused : p[1] = q[1] => p[2] = q[2]

(* Refuted: TransitionService checks a copy and writes the row.            *)
MovesAreAllowed ==
  [][ \A i \in DOMAIN incidents : incidents'[i].status # incidents[i].status
        => incidents'[i].status \in Transitions[incidents[i].status] ]_vars

(* Refuted: its after_snapshot has the copy's lifecycle times.             *)
TransitionsReplayable ==
  \A i \in touched : replay[i].status # None =>
    /\ replay[i].status = incidents[i].status
    /\ replay[i].acked = incidents[i].acked
    /\ replay[i].closed = incidents[i].closed

-----------------------------------------------------------------------------
(* The inductive invariant behind the theorems of IncidentFusionProofs.    *)

(* What a fusion selected under the lock is still so when it writes.       *)
SelectionStands ==
  \A m \in Matches :
    /\ pc[m] = "creating" => \A i \in DOMAIN incidents \ (touched \cup passed) : ~Recent(i)
    /\ pc[m] = "attaching" =>
         /\ view[m].id \in touched \cup passed \cup {Len(incidents)}
         /\ view[m].id \notin edited => view[m].severity = incidents[view[m].id].severity

FusionInv == TypeOK /\ SelectionStands /\ NoParallelOpening /\ SeverityIsHighest

(* With one clock no incident is dated in the future, so none is passed.   *)
OneClock == (\A i \in DOMAIN incidents : incidents[i].updated <= now) /\ passed = {}
=============================================================================
