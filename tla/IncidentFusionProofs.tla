------------------------- MODULE IncidentFusionProofs -------------------------
(* FusionInv is an inductive invariant of IncidentFusion.                  *)
EXTENDS IncidentFusion, TLAPS, SequenceTheorems

USE FusionAssumption

(* Rewriting one incident leaves the others, and how many there are.       *)
LEMMA Rewritten ==
  ASSUME NEW s \in Seq(Incidents), NEW i \in DOMAIN s, NEW row \in Incidents
  PROVE  LET t == [ s EXCEPT ![i] = row ]
         IN  /\ t \in Seq(Incidents) /\ DOMAIN t = DOMAIN s /\ Len(t) = Len(s)
             /\ t[i] = row
             /\ \A j \in DOMAIN s : j # i => t[j] = s[j]
  BY ExceptSeq

LEMMA SnapshotRewritten ==
  ASSUME NEW s \in Seq(Snapshots), NEW i \in DOMAIN s, NEW row \in Snapshots
  PROVE  LET t == [ s EXCEPT ![i] = row ]
         IN  t \in Seq(Snapshots) /\ Len(t) = Len(s)
  BY ExceptSeq

(* Opening an incident leaves the others.                                  *)
LEMMA Opened ==
  ASSUME NEW s \in Seq(Incidents), NEW row \in Incidents
  PROVE  LET t == Append(s, row)
         IN  /\ t \in Seq(Incidents) /\ DOMAIN s = 1..Len(s)
             /\ Len(t) = Len(s) + 1 /\ DOMAIN t = 1..(Len(s) + 1)
             /\ t[Len(s) + 1] = row
             /\ \A j \in DOMAIN s : t[j] = s[j]
  OBVIOUS

(* Clocks show moments, none of them past.                                 *)
LEMMA ClocksOK ==
  ASSUME now \in Nat, NEW t \in Clocks
  PROVE  t \in Nat /\ now <= t
  BY DEF Clocks

(* updated_at is a moment.                                                 *)
LEMMA Dated ==
  ASSUME TypeOK, NEW i \in DOMAIN incidents
  PROVE  incidents[i].updated \in Nat
  <1>1. incidents[i] \in Incidents
    BY DEF TypeOK
  <1> QED BY <1>1 DEF Incidents

(* What some clock's window query returns is recent.                       *)
LEMMA FusableIsRecent ==
  ASSUME TypeOK, NEW i \in DOMAIN incidents, NEW t \in Clocks, Fusable(i, t)
  PROVE  Recent(i)
  <1>1. incidents[i].updated \in Nat
    BY Dated
  <1>2. t \in Nat /\ now <= t /\ now \in Nat
    BY ClocksOK DEF TypeOK
  <1> QED BY <1>1, <1>2 DEF Fusable, Recent

(* What a fusion writes to the incident it selected.                       *)
LEMMA AttachShape ==
  ASSUME TypeOK, NEW m \in Matches, Attach(m)
  PROVE  /\ view[m].id \in DOMAIN incidents /\ view[m].severity \in Severities
         /\ \E row \in Incidents :
              /\ incidents' = [ incidents EXCEPT ![view[m].id] = row ]
              /\ row.status = incidents[view[m].id].status
              /\ row.severity = IF Higher(view[m].severity, SeverityOf[m]) # view[m].severity
                                THEN Higher(view[m].severity, SeverityOf[m])
                                ELSE incidents[view[m].id].severity
         /\ replay' \in Seq(Snapshots) /\ Len(replay') = Len(replay)
  <1> PICK t \in Clocks : incidents' = [ incidents EXCEPT
            ![view[m].id].severity = IF Higher(view[m].severity, SeverityOf[m]) # view[m].severity
                                     THEN Higher(view[m].severity, SeverityOf[m]) ELSE @,
            ![view[m].id].updated = t ]
    BY DEF Attach
  <1>0. t \in Nat
    BY ClocksOK DEF TypeOK
  <1> DEFINE i == view[m].id
             severity == Higher(view[m].severity, SeverityOf[m])
             row == [ incidents[i] EXCEPT
                        !.severity = IF severity # view[m].severity THEN severity ELSE @,
                        !.updated = t ]
             snapshot == [ replay[i] EXCEPT !.severity = severity ]
  <1>1. i \in DOMAIN incidents /\ view[m].severity \in Severities
    BY DEF Attach, TypeOK, Views
  <1>2. severity \in Severities
    BY <1>1 DEF Higher, Severities
  <1>3. incidents[i] \in Incidents /\ replay[i] \in Snapshots /\ i \in DOMAIN replay
    BY <1>1 DEF TypeOK
  <1>4. row \in Incidents
    BY <1>0, <1>2, <1>3 DEF Incidents
  <1>5. incidents' = [ incidents EXCEPT ![i] = row ]
    BY <1>1, <1>3 DEF Incidents, TypeOK
  <1>6. /\ row.status = incidents[i].status
        /\ row.severity = IF severity # view[m].severity THEN severity ELSE incidents[i].severity
    BY <1>3 DEF Incidents
  <1>7. snapshot \in Snapshots
    BY <1>2, <1>3 DEF Snapshots
  <1>8. replay' = [ replay EXCEPT ![i] = snapshot ]
    BY <1>3 DEF Attach, Snapshots, TypeOK
  <1>9. replay' \in Seq(Snapshots) /\ Len(replay') = Len(replay)
    BY <1>3, <1>7, <1>8, SnapshotRewritten DEF TypeOK
  <1> HIDE DEF row, snapshot
  <1> QED BY <1>1, <1>4, <1>5, <1>6, <1>9

(* A copy a transition has moved is a row.                                 *)
LEMMA MovedOK ==
  ASSUME NEW row \in Incidents, NEW to \in Statuses
  PROVE  Moved(row, to) \in Incidents
  BY DEF Moved, Incidents, Statuses

(* Merging columns of rows gives a row; columns nobody changed are kept.   *)
LEMMA MergedOK ==
  ASSUME NEW t \in Nat, NEW row \in Incidents, NEW before \in Incidents, NEW after \in Incidents
  PROVE  /\ Merged(row, before, after, t) \in Incidents
         /\ after.severity = before.severity => Merged(row, before, after, t).severity = row.severity
  BY DEF Merged, Incidents

(* Saving a copy rewrites one incident, and its severity only if the copy's*)
(* was set.                                                                *)
LEMMA SaveShape ==
  ASSUME TypeOK, NEW i \in DOMAIN incidents, NEW before \in Incidents, NEW after \in Incidents,
         Save(i, before, after)
  PROVE  \E row \in Incidents :
           /\ incidents' = [ incidents EXCEPT ![i] = row ]
           /\ after.severity = before.severity => row.severity = incidents[i].severity
  <1> PICK t \in Clocks :
        incidents' = [ incidents EXCEPT ![i] = Merged(incidents[i], before, after, t) ]
    BY DEF Save
  <1>1. t \in Nat /\ incidents[i] \in Incidents
    BY ClocksOK DEF TypeOK
  <1>2. /\ Merged(incidents[i], before, after, t) \in Incidents
        /\ after.severity = before.severity
             => Merged(incidents[i], before, after, t).severity = incidents[i].severity
    BY <1>1, MergedOK
  <1> QED BY <1>2

-----------------------------------------------------------------------------
(* TypeOK survives every step.                                             *)
LEMMA TypeStep == TypeOK /\ [Next]_vars => TypeOK'
  <1> SUFFICES ASSUME TypeOK, [Next]_vars PROVE TypeOK'
    OBVIOUS
  <1> USE DEF TypeOK
  <1>0. DOMAIN incidents = 1..Len(incidents) /\ Len(incidents) \in Nat
    OBVIOUS
  <1>1. CASE Clock
    BY <1>1 DEF Clock, fusionVars
  <1>2. ASSUME NEW m \in Matches, LockSite(m) PROVE TypeOK'
    BY <1>2 DEF LockSite, SiteFree, Goto, Places
  <1>3. ASSUME NEW m \in Matches, SelectIncident(m) PROVE TypeOK'
    <2> PICK i \in DOMAIN incidents :
          view' = [ view EXCEPT ![m] = [ id |-> i, severity |-> incidents[i].severity ] ]
      BY <1>3 DEF SelectIncident
    <2>0. incidents[i] \in Incidents /\ i \in Nat
      BY <1>0
    <2>1. incidents[i].severity \in Severities
      BY <2>0 DEF Incidents
    <2>2. pc' = [ pc EXCEPT ![m] = "attaching" ] /\ pc[m] = "selecting"
      BY <1>3 DEF SelectIncident, Goto
    <2>3. ASSUME NEW n \in Matches, pc'[n] = "attaching"
          PROVE  view'[n] \in Views /\ view'[n].id \in DOMAIN incidents
      BY <2>0, <2>1, <2>2, <2>3 DEF Views
    <2>4. view' \in [Matches -> Views \cup {None}]
      BY <2>0, <2>1 DEF Views
    <2> QED BY <1>3, <2>2, <2>3, <2>4 DEF SelectIncident, Places
  <1>4. ASSUME NEW m \in Matches, SelectNone(m) PROVE TypeOK'
    BY <1>4 DEF SelectNone, Goto, Places
  <1>5. ASSUME NEW m \in Matches, Attach(m) PROVE TypeOK'
    <2>1. view[m].id \in DOMAIN incidents
      BY <1>5, AttachShape
    <2>2. incidents' \in Seq(Incidents) /\ DOMAIN incidents' = DOMAIN incidents
          /\ Len(incidents') = Len(incidents)
      <3> PICK row \in Incidents : incidents' = [ incidents EXCEPT ![view[m].id] = row ]
        BY <1>5, AttachShape
      <3> QED BY <2>1, Rewritten
    <2>3. replay' \in Seq(Snapshots) /\ Len(replay') = Len(incidents')
      BY <1>5, <2>2, AttachShape
    <2>4. /\ siteOwner' = IF siteOwner = m THEN None ELSE siteOwner
          /\ pc' = [ pc EXCEPT ![m] = "done" ] /\ pc[m] = "attaching"
          /\ link' = [ link EXCEPT ![m] = view[m].id ]
          /\ fused' = fused \cup { << m, view[m].id >> }
          /\ UNCHANGED << now, attempt, view, passed, copy, touched, edited >>
      BY <1>5 DEF Attach, ReleaseSite, Goto
    <2>5. /\ now' \in Nat /\ siteOwner' \in Matches \cup {None}
          /\ pc' \in [Matches -> Places] /\ attempt' \in [Matches -> Nat]
          /\ view' \in [Matches -> Views \cup {None}]
          /\ link' \in [Matches -> Nat]
          /\ fused' \subseteq Matches \X DOMAIN incidents'
      BY <1>0, <2>1, <2>2, <2>4 DEF Places
    <2>6. /\ passed' \subseteq DOMAIN incidents'
          /\ touched' \subseteq DOMAIN incidents' /\ edited' \subseteq touched'
          /\ copy' \in [Operators -> Copies \cup {None}]
          /\ \A o \in Operators :
               copy'[o] # None => copy'[o] \in Copies /\ copy'[o].id \in DOMAIN incidents'
      BY <2>2, <2>4
    <2>7. ASSUME NEW n \in Matches
          PROVE  /\ link'[n] # 0 => << n, link'[n] >> \in fused'
                 /\ pc'[n] \in { "created", "done" } => link'[n] # 0
                 /\ pc'[n] = "attaching" => view'[n] \in Views /\ view'[n].id \in DOMAIN incidents'
                 /\ siteOwner' = n <=> pc'[n] \in { "selecting", "attaching", "creating" }
      BY <1>0, <2>1, <2>2, <2>4, FusionAssumption
    <2> QED BY <2>2, <2>3, <2>5, <2>6, <2>7
  <1>6. ASSUME NEW m \in Matches, Create(m) PROVE TypeOK'
    <2> DEFINE row(t) == [ status |-> "open", severity |-> SeverityOf[m], acked |-> FALSE,
                           closed |-> FALSE, updated |-> t ]
    <2> PICK t \in Clocks : incidents' = Append(incidents, row(t))
      BY <1>6 DEF Create
    <2>1. row(t) \in Incidents
      BY ClocksOK DEF Incidents, Statuses, Severities
    <2>2. incidents' = Append(incidents, row(t))
      OBVIOUS
    <2>3. /\ incidents' \in Seq(Incidents)
          /\ Len(incidents') = Len(incidents) + 1
          /\ DOMAIN incidents' = 1..(Len(incidents) + 1)
      BY <2>1, <2>2, Opened
    <2> DEFINE snapshot == [ status |-> None, severity |-> SeverityOf[m], acked |-> None,
                             closed |-> None ]
    <2>4. replay' \in Seq(Snapshots) /\ Len(replay') = Len(incidents')
      <3>1. snapshot \in Snapshots
        BY DEF Snapshots, Severities
      <3>2. replay' = Append(replay, snapshot)
        BY <1>6 DEF Create
      <3> HIDE DEF snapshot
      <3> QED BY <2>3, <3>1, <3>2
    <2> HIDE DEF row
    <2> QED BY <1>0, <1>6, <2>3, <2>4 DEF Create, ReleaseSite, Goto, Places
  <1>7. ASSUME NEW m \in Matches, EnqueueGeneration(m) PROVE TypeOK'
    BY <1>7 DEF EnqueueGeneration, Goto, Places
  <1>8. ASSUME NEW m \in Matches, Raise(m) PROVE TypeOK'
    BY <1>8 DEF Raise, Goto, ReleaseSite, Places
  <1>9. ASSUME NEW m \in Matches, Invalid(m) PROVE TypeOK'
    BY <1>9 DEF Invalid, Goto, ReleaseSite, Places
  <1>10. ASSUME NEW o \in Operators, NEW i \in DOMAIN incidents, Load(o, i) PROVE TypeOK'
    BY <1>0, <1>10 DEF Load, fusionVars, Copies
  <1>11. ASSUME NEW o \in Operators, NEW to \in Statuses, Transition(o, to) PROVE TypeOK'
    <2>1. /\ copy[o].id \in DOMAIN incidents /\ copy[o].row \in Incidents
          /\ incidents[copy[o].id] \in Incidents
      BY <1>0, <1>11 DEF Transition, Copies
    <2>2. \E row \in Incidents : incidents' = [ incidents EXCEPT ![copy[o].id] = row ]
      <3>1. Moved(copy[o].row, to) \in Incidents
        BY <2>1, MovedOK
      <3>2. Save(copy[o].id, copy[o].row, Moved(copy[o].row, to))
        BY <1>11 DEF Transition
      <3> HIDE DEF TypeOK
      <3> QED BY <2>1, <3>1, <3>2, SaveShape
    <2>3. incidents' \in Seq(Incidents) /\ DOMAIN incidents' = DOMAIN incidents
          /\ Len(incidents') = Len(incidents)
      BY <2>1, <2>2, Rewritten
    <2>4. replay' \in Seq(Snapshots) /\ Len(replay') = Len(incidents')
      <3> DEFINE i == copy[o].id
                 after == Moved(copy[o].row, to)
                 snapshot == [ replay[i] EXCEPT !.status = after.status, !.acked = after.acked,
                                                !.closed = after.closed ]
      <3>1. replay[i] \in Snapshots /\ i \in DOMAIN replay
        BY <2>1
      <3>2. after \in Incidents
        BY <2>1, MovedOK
      <3> HIDE DEF after
      <3>3. snapshot \in Snapshots
        BY <3>1, <3>2 DEF Snapshots, Incidents
      <3>4. replay' = [ replay EXCEPT ![i] = snapshot ]
        BY <1>11, <3>1 DEF Transition, Snapshots, after
      <3> QED BY <2>3, <3>1, <3>3, <3>4, SnapshotRewritten
    <2> QED BY <1>11, <2>1, <2>3, <2>4 DEF Transition, fusionVars
  <1>12. ASSUME NEW o \in Operators, NEW s \in Severities, UpdateSeverity(o, s) PROVE TypeOK'
    <2>1. /\ copy[o].id \in DOMAIN incidents /\ copy[o].row \in Incidents
          /\ incidents[copy[o].id] \in Incidents
      BY <1>0, <1>12 DEF UpdateSeverity, Copies
    <2>2. [ copy[o].row EXCEPT !.severity = s ] \in Incidents
      BY <2>1 DEF Incidents
    <2>3. \E row \in Incidents : incidents' = [ incidents EXCEPT ![copy[o].id] = row ]
      <3>1. Save(copy[o].id, copy[o].row, [ copy[o].row EXCEPT !.severity = s ])
        BY <1>12 DEF UpdateSeverity
      <3> HIDE DEF TypeOK
      <3> QED BY <2>1, <2>2, <3>1, SaveShape
    <2>4. incidents' \in Seq(Incidents) /\ DOMAIN incidents' = DOMAIN incidents
          /\ Len(incidents') = Len(incidents)
      BY <2>1, <2>3, Rewritten
    <2>5. replay' \in Seq(Snapshots) /\ Len(replay') = Len(incidents')
      <3> DEFINE i == copy[o].id
                 snapshot == [ replay[i] EXCEPT !.severity = s ]
      <3>1. replay[i] \in Snapshots /\ i \in DOMAIN replay
        BY <2>1
      <3>2. snapshot \in Snapshots
        BY <3>1 DEF Snapshots
      <3>3. replay' = [ replay EXCEPT ![i] = snapshot ]
        BY <1>12, <3>1 DEF UpdateSeverity, Snapshots
      <3> QED BY <2>4, <3>1, <3>2, <3>3, SnapshotRewritten
    <2> QED BY <1>12, <2>1, <2>4, <2>5 DEF UpdateSeverity, fusionVars
  <1>13. ASSUME NEW o \in Operators, GiveUp(o) PROVE TypeOK'
    BY <1>13 DEF GiveUp, fusionVars
  <1>14. CASE UNCHANGED vars
    BY <1>14 DEF vars, fusionVars
  <1> QED BY <1>1, <1>2, <1>3, <1>4, <1>5, <1>6, <1>7, <1>8, <1>9, <1>10, <1>11, <1>12,
             <1>13, <1>14
          DEF Next, Fuse, Operate

-----------------------------------------------------------------------------
(* A step changes what a match can be attached to as follows: time passes, *)
(* an operator writes to an incident, which is then touched, or the fusion *)
(* that owns the site's row writes.                                        *)
LEMMA OthersStep ==
  ASSUME TypeOK, [Next]_vars,
         \A m \in Matches : ~Attach(m) /\ ~Create(m)
  PROVE  /\ DOMAIN incidents' = DOMAIN incidents
         /\ touched \subseteq touched' /\ edited \subseteq edited' /\ passed \subseteq passed'
         /\ now' \in Nat /\ now <= now'
         /\ \A i \in DOMAIN incidents \ touched' : incidents'[i] = incidents[i]
         /\ \A i \in DOMAIN incidents \ edited' : incidents'[i].severity = incidents[i].severity
         /\ fused' = fused
  <1> USE DEF TypeOK
  <1>0. DOMAIN incidents = 1..Len(incidents) /\ Len(incidents) \in Nat
    OBVIOUS
  <1>1. CASE Clock
    BY <1>1 DEF Clock, fusionVars
  <1>2. ASSUME NEW m \in Matches,
               \/ LockSite(m) \/ SelectIncident(m) \/ SelectNone(m)
               \/ EnqueueGeneration(m) \/ Raise(m) \/ Invalid(m)
        PROVE  UNCHANGED << now, incidents, touched, edited, fused >> /\ passed \subseteq passed'
    BY <1>2 DEF LockSite, SelectIncident, SelectNone, EnqueueGeneration, Raise, Invalid
  <1>3. ASSUME NEW o \in Operators, GiveUp(o) \/ \E i \in DOMAIN incidents : Load(o, i)
        PROVE  UNCHANGED << now, incidents, touched, edited, fused, passed >>
    BY <1>3 DEF GiveUp, Load, fusionVars
  <1>4. ASSUME NEW i \in DOMAIN incidents, NEW row \in Incidents,
               incidents' = [ incidents EXCEPT ![i] = row ]
        PROVE  /\ DOMAIN incidents' = DOMAIN incidents
               /\ incidents'[i] = row
               /\ \A j \in DOMAIN incidents : j # i => incidents'[j] = incidents[j]
    BY <1>4
  <1>5. ASSUME NEW o \in Operators, NEW to \in Statuses, Transition(o, to)
        PROVE  /\ DOMAIN incidents' = DOMAIN incidents
               /\ touched' = touched \cup {copy[o].id}
               /\ \A j \in DOMAIN incidents : j # copy[o].id => incidents'[j] = incidents[j]
               /\ \A j \in DOMAIN incidents : incidents'[j].severity = incidents[j].severity
               /\ UNCHANGED << now, edited, fused, passed >>
    <2> DEFINE i == copy[o].id
               after == Moved(copy[o].row, to)
    <2>1. i \in DOMAIN incidents /\ copy[o].row \in Incidents /\ incidents[i] \in Incidents
      BY <1>0, <1>5 DEF Transition, Copies
    <2>2. after \in Incidents /\ after.severity = copy[o].row.severity
      BY <2>1, MovedOK DEF Moved, Incidents
    <2>3. Save(i, copy[o].row, after)
      BY <1>5 DEF Transition
    <2> HIDE DEF after
    <2>4. PICK row \in Incidents :
            /\ incidents' = [ incidents EXCEPT ![i] = row ]
            /\ row.severity = incidents[i].severity
      <3> HIDE DEF TypeOK, i
      <3> QED BY <2>1, <2>2, <2>3, SaveShape
    <2> QED BY <1>4, <1>5, <2>1, <2>4 DEF Transition, fusionVars
  <1>6. ASSUME NEW o \in Operators, NEW s \in Severities, UpdateSeverity(o, s)
        PROVE  /\ DOMAIN incidents' = DOMAIN incidents
               /\ touched' = touched \cup {copy[o].id}
               /\ edited' = edited \cup {copy[o].id}
               /\ \A j \in DOMAIN incidents : j # copy[o].id => incidents'[j] = incidents[j]
               /\ UNCHANGED << now, fused, passed >>
    <2> DEFINE i == copy[o].id
               after == [ copy[o].row EXCEPT !.severity = s ]
    <2>1. i \in DOMAIN incidents /\ copy[o].row \in Incidents /\ incidents[i] \in Incidents
      BY <1>0, <1>6 DEF UpdateSeverity, Copies
    <2>2. after \in Incidents
      BY <2>1 DEF Incidents
    <2>3. Save(i, copy[o].row, after)
      BY <1>6 DEF UpdateSeverity
    <2> HIDE DEF after
    <2>4. PICK row \in Incidents : incidents' = [ incidents EXCEPT ![i] = row ]
      <3> HIDE DEF TypeOK, i
      <3> QED BY <2>1, <2>2, <2>3, SaveShape
    <2> QED BY <1>4, <1>6, <2>1, <2>4 DEF UpdateSeverity, fusionVars
  <1>7. CASE UNCHANGED vars
    BY <1>7 DEF vars, fusionVars
  <1>8. CASE UNCHANGED << now, incidents, touched, edited, fused >> /\ passed \subseteq passed'
    BY <1>8
  <1>9. CASE \E o \in Operators, to \in Statuses : Transition(o, to)
    <2> PICK o \in Operators, to \in Statuses : Transition(o, to)
      BY <1>9
    <2>1. /\ DOMAIN incidents' = DOMAIN incidents
          /\ touched' = touched \cup {copy[o].id}
          /\ \A j \in DOMAIN incidents : j # copy[o].id => incidents'[j] = incidents[j]
          /\ \A j \in DOMAIN incidents : incidents'[j].severity = incidents[j].severity
          /\ UNCHANGED << now, edited, fused, passed >>
      BY <1>5
    <2>2. now' \in Nat /\ now <= now'
      BY <2>1
    <2> HIDE DEF TypeOK
    <2> QED BY <2>1, <2>2
  <1>10. CASE \E o \in Operators, s \in Severities : UpdateSeverity(o, s)
    <2> PICK o \in Operators, s \in Severities : UpdateSeverity(o, s)
      BY <1>10
    <2>1. /\ DOMAIN incidents' = DOMAIN incidents
          /\ touched' = touched \cup {copy[o].id}
          /\ edited' = edited \cup {copy[o].id}
          /\ \A j \in DOMAIN incidents : j # copy[o].id => incidents'[j] = incidents[j]
          /\ UNCHANGED << now, fused, passed >>
      BY <1>6
    <2>2. now' \in Nat /\ now <= now'
      BY <2>1
    <2> HIDE DEF TypeOK
    <2> QED BY <2>1, <2>2
  <1>11. \/ Clock \/ UNCHANGED vars
         \/ \E m \in Matches : \/ LockSite(m) \/ SelectIncident(m) \/ SelectNone(m)
                               \/ EnqueueGeneration(m) \/ Raise(m) \/ Invalid(m)
         \/ \E o \in Operators : GiveUp(o) \/ \E i \in DOMAIN incidents : Load(o, i)
         \/ \E o \in Operators, to \in Statuses : Transition(o, to)
         \/ \E o \in Operators, s \in Severities : UpdateSeverity(o, s)
    BY DEF Next, Fuse, Operate
  <1> QED BY <1>1, <1>2, <1>3, <1>7, <1>8, <1>9, <1>10, <1>11

(* A fusion comes to write only by what it selected.                       *)
LEMMA Progress ==
  ASSUME TypeOK, [Next]_vars, NEW m \in Matches
  PROVE  /\ pc'[m] = "creating" => pc[m] = "creating" \/ SelectNone(m)
         /\ pc'[m] = "attaching" => \/ pc[m] = "attaching" /\ view'[m] = view[m]
                                    \/ SelectIncident(m)
  <1> USE DEF TypeOK
  <1>1. CASE SelectIncident(m)
    BY <1>1 DEF SelectIncident, Goto
  <1>2. CASE SelectNone(m)
    BY <1>2 DEF SelectNone, Goto
  <1>3. ASSUME NEW n \in Matches, n # m, SelectIncident(n) \/ SelectNone(n)
        PROVE  pc'[m] = pc[m] /\ view'[m] = view[m]
    BY <1>3 DEF SelectIncident, SelectNone, Goto
  <1>4. ASSUME NEW n \in Matches,
               \/ LockSite(n) \/ Attach(n) \/ Create(n) \/ EnqueueGeneration(n)
               \/ Raise(n) \/ Invalid(n)
        PROVE  /\ view' = view
               /\ pc'[m] = pc[m] \/ pc'[m] \notin { "creating", "attaching" }
    BY <1>4 DEF LockSite, Attach, Create, EnqueueGeneration, Raise, Invalid, Goto
  <1>5. ASSUME Clock \/ UNCHANGED vars \/ \E o \in Operators : Operate(o)
        PROVE  pc' = pc /\ view' = view
    BY <1>5 DEF Clock, Operate, Load, Transition, UpdateSeverity, GiveUp, vars, fusionVars
  <1> QED BY <1>1, <1>2, <1>3, <1>4, <1>5 DEF Next, Fuse

(* The lock on the site's row excludes a second fusion: when one writes,   *)
(* no other has a transaction open.                                        *)
LEMMA Alone ==
  ASSUME TypeOK, NEW m \in Matches, Attach(m) \/ Create(m),
         NEW n \in Matches, pc'[n] \in { "attaching", "creating" }
  PROVE  FALSE
  BY DEF TypeOK, Attach, Create, Goto

(* Time and the other fusions make no incident recent again.               *)
LEMMA RecentBefore ==
  ASSUME TypeOK, [Next]_vars, \A m \in Matches : ~Attach(m) /\ ~Create(m),
         NEW i \in DOMAIN incidents \ touched', Recent(i)'
  PROVE  Recent(i)
  <1>1. /\ now' \in Nat /\ now <= now' /\ now \in Nat
        /\ incidents'[i] = incidents[i] /\ incidents[i] \in Incidents
    BY OthersStep DEF TypeOK
  <1> QED BY <1>1 DEF Recent, Incidents

(* What a fusion selected stands until it writes.                          *)
LEMMA SelectionStep ==
  TypeOK /\ SelectionStands /\ NoParallelOpening /\ [Next]_vars => SelectionStands'
  <1> SUFFICES ASSUME TypeOK, SelectionStands, NoParallelOpening, [Next]_vars
               PROVE  SelectionStands'
    OBVIOUS
  <1>1. CASE \E m \in Matches : Attach(m) \/ Create(m)
    BY <1>1, Alone DEF SelectionStands
  <1>2. CASE \A m \in Matches : ~Attach(m) /\ ~Create(m)
    <2>1. /\ DOMAIN incidents' = DOMAIN incidents /\ Len(incidents') = Len(incidents)
          /\ touched \subseteq touched' /\ edited \subseteq edited' /\ passed \subseteq passed'
          /\ \A i \in DOMAIN incidents \ edited' : incidents'[i].severity = incidents[i].severity
      <3>1. Len(incidents') = Len(incidents)
        <4>1. DOMAIN incidents' = DOMAIN incidents
          BY <1>2, OthersStep
        <4>2. incidents' \in Seq(Incidents) /\ incidents \in Seq(Incidents)
          BY TypeStep DEF TypeOK
        <4> QED BY <4>1, <4>2, LenProperties
      <3> QED BY <1>2, <3>1, OthersStep
    <2>2. \A i \in DOMAIN incidents \ touched' : Recent(i)' => Recent(i)
      BY <1>2, RecentBefore
    <2>3. ASSUME NEW m \in Matches, pc'[m] = "creating",
                 NEW i \in DOMAIN incidents' \ (touched' \cup passed')
          PROVE  ~Recent(i)'
      <3>1. CASE pc[m] = "creating"
        BY <2>1, <2>2, <2>3, <3>1 DEF SelectionStands
      <3>2. CASE SelectNone(m)
        BY <2>1, <2>2, <2>3, <3>2 DEF SelectNone
      <3> QED
        <4>1. pc[m] = "creating" \/ SelectNone(m)
          BY <2>3, Progress
        <4> QED BY <4>1, <3>1, <3>2
    <2>4. ASSUME NEW m \in Matches, pc'[m] = "attaching"
          PROVE  \/ pc[m] = "attaching" /\ view'[m] = view[m]
                 \/ SelectIncident(m)
      BY <2>4, Progress
    <2>5. ASSUME NEW m \in Matches, pc'[m] = "attaching"
          PROVE  /\ view'[m].id \in touched' \cup passed' \cup {Len(incidents')}
                 /\ view'[m].id \notin edited'
                      => view'[m].severity = incidents'[view'[m].id].severity
      <3>1. CASE pc[m] = "attaching" /\ view'[m] = view[m]
        <4>1. view[m].id \in DOMAIN incidents
          BY <3>1 DEF TypeOK
        <4> QED BY <2>1, <3>1, <4>1 DEF SelectionStands
      <3>2. CASE SelectIncident(m)
        <4> PICK j \in DOMAIN incidents, t \in Clocks :
              /\ Fusable(j, t)
              /\ view' = [ view EXCEPT ![m] = [ id |-> j, severity |-> incidents[j].severity ] ]
          BY <3>2 DEF SelectIncident
        <4>1. view'[m].id = j /\ view'[m].severity = incidents[j].severity
          BY DEF TypeOK
        <4>2. UNCHANGED << now, incidents, touched, passed, edited >>
          BY <3>2 DEF SelectIncident
        <4>3. Recent(j)
          BY FusableIsRecent
        <4> QED BY <4>1, <4>2, <4>3 DEF NoParallelOpening
      <3> QED BY <2>4, <2>5, <3>1, <3>2
    <2> QED BY <2>3, <2>5 DEF SelectionStands
  <1> QED BY <1>1, <1>2

(* Fusions alone do not open incidents in parallel.                        *)
LEMMA ParallelStep ==
  TypeOK /\ SelectionStands /\ NoParallelOpening /\ [Next]_vars => NoParallelOpening'
  <1> SUFFICES ASSUME TypeOK, SelectionStands, NoParallelOpening, [Next]_vars
               PROVE  NoParallelOpening'
    OBVIOUS
  <1>1. ASSUME NEW m \in Matches, Attach(m) PROVE NoParallelOpening'
    <2>1. /\ UNCHANGED << now, touched, passed >> /\ view[m].id \in DOMAIN incidents
          /\ view[m].id \in touched \cup passed \cup {Len(incidents)}
      BY <1>1, AttachShape DEF Attach, SelectionStands
    <2> PICK row \in Incidents : incidents' = [ incidents EXCEPT ![view[m].id] = row ]
      BY <1>1, AttachShape
    <2>2. /\ DOMAIN incidents' = DOMAIN incidents /\ Len(incidents') = Len(incidents)
          /\ \A j \in DOMAIN incidents : j # view[m].id => incidents'[j] = incidents[j]
      BY <2>1, Rewritten DEF TypeOK
    <2>3. \A j \in DOMAIN incidents : j # view[m].id => (Recent(j)' <=> Recent(j))
      BY <2>1, <2>2 DEF Recent
    <2> QED BY <2>1, <2>2, <2>3 DEF NoParallelOpening
  <1>2. ASSUME NEW m \in Matches, Create(m) PROVE NoParallelOpening'
    <2>1. UNCHANGED << now, touched, passed >> /\ pc[m] = "creating"
      BY <1>2 DEF Create
    <2>2. /\ DOMAIN incidents = 1..Len(incidents) /\ DOMAIN incidents' = 1..(Len(incidents) + 1)
          /\ Len(incidents') = Len(incidents) + 1
          /\ \A j \in DOMAIN incidents : incidents'[j] = incidents[j]
      BY <1>2 DEF Create, TypeOK
    <2>3. \A j \in DOMAIN incidents : Recent(j)' <=> Recent(j)
      BY <2>1, <2>2 DEF Recent
    <2> DEFINE k == Len(incidents) + 1
    <2>4. DOMAIN incidents' = DOMAIN incidents \cup {k}
      BY <2>2 DEF TypeOK
    <2>5. \A j \in DOMAIN incidents \ (touched \cup passed) : ~Recent(j)'
      BY <2>1, <2>3 DEF SelectionStands
    <2>6. Len(incidents') = k
      BY <2>2
    <2> HIDE DEF k
    <2> QED BY <2>1, <2>4, <2>5, <2>6 DEF NoParallelOpening
  <1>3. CASE \A m \in Matches : ~Attach(m) /\ ~Create(m)
    <2>1. /\ DOMAIN incidents' = DOMAIN incidents
          /\ touched \subseteq touched' /\ passed \subseteq passed'
      BY <1>3, OthersStep
    <2>2. \A i \in DOMAIN incidents \ touched' : Recent(i)' => Recent(i)
      BY <1>3, RecentBefore
    <2>3. Len(incidents') = Len(incidents)
      <3>1. incidents' \in Seq(Incidents) /\ incidents \in Seq(Incidents)
        BY TypeStep DEF TypeOK
      <3> QED BY <2>1, <3>1, LenProperties
    <2> QED BY <2>1, <2>2, <2>3 DEF NoParallelOpening
  <1> QED BY <1>1, <1>2, <1>3

(* The ratchet holds across fusions.                                       *)
LEMMA SeverityStep ==
  TypeOK /\ SelectionStands /\ SeverityIsHighest /\ [Next]_vars => SeverityIsHighest'
  <1> SUFFICES ASSUME TypeOK, SelectionStands, SeverityIsHighest, [Next]_vars
               PROVE  SeverityIsHighest'
    OBVIOUS
  <1>1. ASSUME NEW m \in Matches, Attach(m) PROVE SeverityIsHighest'
    <2> DEFINE i == view[m].id
    <2>1. /\ UNCHANGED edited /\ fused' = fused \cup { << m, i >> } /\ pc[m] = "attaching"
          /\ i \in DOMAIN incidents
      BY <1>1, AttachShape DEF Attach
    <2> PICK row \in Incidents :
          /\ incidents' = [ incidents EXCEPT ![i] = row ]
          /\ row.severity = IF Higher(view[m].severity, SeverityOf[m]) # view[m].severity
                            THEN Higher(view[m].severity, SeverityOf[m])
                            ELSE incidents[i].severity
      BY <1>1, AttachShape
    <2>2. /\ DOMAIN incidents' = DOMAIN incidents /\ incidents'[i] = row
          /\ \A j \in DOMAIN incidents : j # i => incidents'[j] = incidents[j]
      BY <2>1 DEF TypeOK
    <2>3. ASSUME NEW j \in DOMAIN incidents \ edited, j # i
          PROVE  /\ \E n \in Matches : << n, j >> \in fused' /\ SeverityOf[n] = incidents'[j].severity
                 /\ \A n \in Matches : << n, j >> \in fused' => SeverityOf[n] <= incidents'[j].severity
      BY <2>1, <2>2, <2>3 DEF SeverityIsHighest
    <2>4. ASSUME i \notin edited
          PROVE  /\ \E n \in Matches : << n, i >> \in fused' /\ SeverityOf[n] = incidents'[i].severity
                 /\ \A n \in Matches : << n, i >> \in fused' => SeverityOf[n] <= incidents'[i].severity
      <3>1. row.severity = Higher(incidents[i].severity, SeverityOf[m])
        BY <2>1, <2>4 DEF SelectionStands
      <3>2. incidents[i].severity \in Nat /\ \A n \in Matches : SeverityOf[n] \in Nat
        <4>1. incidents[i] \in Incidents
          BY <2>1 DEF TypeOK
        <4> QED BY <4>1 DEF Incidents, Severities
      <3>3. PICK n \in Matches : << n, i >> \in fused /\ SeverityOf[n] = incidents[i].severity
        BY <2>1, <2>4 DEF SeverityIsHighest
      <3>4. \A k \in Matches : << k, i >> \in fused => SeverityOf[k] <= incidents[i].severity
        BY <2>1, <2>4 DEF SeverityIsHighest
      <3>5. CASE incidents[i].severity >= SeverityOf[m]
        BY <2>1, <2>2, <3>1, <3>2, <3>3, <3>4, <3>5 DEF Higher
      <3>6. CASE ~(incidents[i].severity >= SeverityOf[m])
        BY <2>1, <2>2, <3>1, <3>2, <3>4, <3>6 DEF Higher
      <3> QED BY <3>5, <3>6
    <2> HIDE DEF i
    <2> QED BY <2>1, <2>2, <2>3, <2>4 DEF SeverityIsHighest
  <1>2. ASSUME NEW m \in Matches, Create(m) PROVE SeverityIsHighest'
    <2> DEFINE k == Len(incidents) + 1
    <2>1. UNCHANGED edited /\ fused' = fused \cup { << m, k >> }
      BY <1>2 DEF Create
    <2>2. /\ DOMAIN incidents = 1..Len(incidents) /\ DOMAIN incidents' = 1..k
          /\ Len(incidents) \in Nat
          /\ \A j \in DOMAIN incidents : incidents'[j] = incidents[j]
          /\ incidents'[k].severity = SeverityOf[m]
      BY <1>2 DEF Create, TypeOK
    <2>3. \A n \in Matches : << n, k >> \notin fused
      BY <2>2 DEF TypeOK
    <2>4. \A j \in DOMAIN incidents : j # k
      BY <2>2
    <2>5. ASSUME NEW j \in DOMAIN incidents \ edited
          PROVE  /\ \E n \in Matches : << n, j >> \in fused' /\ SeverityOf[n] = incidents'[j].severity
                 /\ \A n \in Matches : << n, j >> \in fused' => SeverityOf[n] <= incidents'[j].severity
      BY <2>1, <2>2, <2>4 DEF SeverityIsHighest
    <2>6. /\ \E n \in Matches : << n, k >> \in fused' /\ SeverityOf[n] = incidents'[k].severity
          /\ \A n \in Matches : << n, k >> \in fused' => SeverityOf[n] <= incidents'[k].severity
      BY <2>1, <2>2, <2>3
    <2>7. DOMAIN incidents' = DOMAIN incidents \cup {k}
      BY <2>2
    <2> HIDE DEF k
    <2> QED BY <2>1, <2>5, <2>6, <2>7 DEF SeverityIsHighest
  <1>3. CASE \A m \in Matches : ~Attach(m) /\ ~Create(m)
    BY <1>3, OthersStep DEF SeverityIsHighest
  <1> QED BY <1>1, <1>2, <1>3

(* No incident has been opened yet.                                        *)
LEMMA InitInv == Init => FusionInv
  <1> SUFFICES ASSUME Init PROVE FusionInv
    OBVIOUS
  <1>1. DOMAIN incidents = {} /\ incidents \in Seq(Incidents) /\ Len(incidents) = 0
        /\ replay \in Seq(Snapshots) /\ Len(replay) = 0
    BY DEF Init
  <1>2. TypeOK
    BY <1>1 DEF Init, TypeOK, Places
  <1> QED BY <1>1, <1>2
          DEF Init, FusionInv, SelectionStands, NoParallelOpening, SeverityIsHighest

(* The model keeps to its types: ids never dangle, and the site's row is   *)
(* owned by exactly the fusion whose transaction is open.                  *)
THEOREM Typing == Spec => []TypeOK
  <1>1. Init => TypeOK
    BY InitInv DEF FusionInv
  <1> QED BY <1>1, TypeStep, PTL DEF Spec

(* The inductive invariant, for any matches, operators and window.         *)
THEOREM Invariance == Spec => []FusionInv
  <1>1. FusionInv /\ [Next]_vars => FusionInv'
    BY TypeStep, SelectionStep, ParallelStep, SeverityStep DEF FusionInv
  <1> QED BY InitInv, <1>1, PTL DEF Spec

(* Racing fusions never open parallel incidents.                           *)
THEOREM FusionsSerialise == Spec => []NoParallelOpening
  <1>1. FusionInv => NoParallelOpening
    BY DEF FusionInv
  <1> QED BY <1>1, Invariance, PTL

(* Severity is a ratchet, whatever the order of fusions and operators.     *)
THEOREM SeverityRatchets == Spec => []SeverityIsHighest
  <1>1. FusionInv => SeverityIsHighest
    BY DEF FusionInv
  <1> QED BY <1>1, Invariance, PTL
-----------------------------------------------------------------------------
(* With one clock: what is written is dated now, and the window query      *)
(* misses nothing that is recent.                                          *)
LEMMA OneClockStep ==
  ASSUME Skew = 0, TypeOK, OneClock, [Next]_vars
  PROVE  OneClock'
  <1>1. Clocks = {now} /\ now \in Nat
    BY DEF Clocks, TypeOK
  <1>2. ASSUME NEW m \in Matches, Attach(m) PROVE OneClock'
    <2>1. incidents' = [ incidents EXCEPT
            ![view[m].id].severity = IF Higher(view[m].severity, SeverityOf[m]) # view[m].severity
                                     THEN Higher(view[m].severity, SeverityOf[m]) ELSE @,
            ![view[m].id].updated = now ]
      BY <1>1, <1>2 DEF Attach
    <2>2. UNCHANGED << now, passed >> /\ view[m].id \in DOMAIN incidents
      BY <1>2, AttachShape DEF Attach
    <2>3. /\ DOMAIN incidents' = DOMAIN incidents /\ incidents[view[m].id] \in Incidents
          /\ \A j \in DOMAIN incidents : j # view[m].id => incidents'[j] = incidents[j]
      BY <2>1, <2>2 DEF TypeOK
    <2>4. incidents'[view[m].id].updated = now
      BY <2>1, <2>2, <2>3 DEF TypeOK, Incidents
    <2> QED BY <1>1, <2>2, <2>3, <2>4 DEF OneClock
  <1>3. ASSUME NEW m \in Matches, Create(m) PROVE OneClock'
    <2>1. \E row : row.updated = now /\ incidents' = Append(incidents, row)
      BY <1>1, <1>3 DEF Create
    <2>2. UNCHANGED << now, passed >>
      BY <1>3 DEF Create
    <2>3. incidents \in Seq(Incidents)
      BY DEF TypeOK
    <2> QED BY <1>1, <2>1, <2>2, <2>3 DEF OneClock
  <1>4. ASSUME NEW i \in DOMAIN incidents, NEW before, NEW after, Save(i, before, after),
               UNCHANGED << now, passed >>
        PROVE  OneClock'
    <2>1. incidents' = [ incidents EXCEPT ![i] = Merged(incidents[i], before, after, now) ]
      BY <1>1, <1>4 DEF Save
    <2>2. Merged(incidents[i], before, after, now).updated \in { now, incidents[i].updated }
      BY DEF Merged
    <2> QED BY <1>1, <1>4, <2>1, <2>2 DEF OneClock
  <1>5. ASSUME NEW m \in Matches, SelectNone(m) PROVE OneClock'
    <2>1. \A i \in DOMAIN incidents : ~Recent(i)
      <3> SUFFICES ASSUME NEW i \in DOMAIN incidents, Recent(i) PROVE FALSE
        OBVIOUS
      <3>1. ~Fusable(i, now)
        BY <1>1, <1>5 DEF SelectNone
      <3>2. incidents[i].updated \in Nat /\ incidents[i].updated <= now
        BY Dated DEF OneClock
      <3> QED BY <1>1, <3>1, <3>2 DEF Fusable, Recent
    <2> QED BY <1>5, <2>1 DEF SelectNone, OneClock
  <1>6. CASE Clock
    <2>1. now' = now + 1 /\ UNCHANGED << incidents, passed >>
      BY <1>6 DEF Clock, fusionVars
    <2>2. \A i \in DOMAIN incidents : incidents[i].updated \in Nat
      BY Dated
    <2> QED BY <1>1, <2>1, <2>2 DEF OneClock
  <1>7. CASE UNCHANGED << now, incidents, passed >>
    BY <1>7 DEF OneClock
  <1>8. ASSUME NEW m \in Matches,
               \/ LockSite(m) \/ SelectIncident(m) \/ EnqueueGeneration(m) \/ Raise(m) \/ Invalid(m)
        PROVE  UNCHANGED << now, incidents, passed >>
    BY <1>8 DEF LockSite, SelectIncident, EnqueueGeneration, Raise, Invalid
  <1>9. ASSUME NEW o \in Operators, NEW to \in Statuses, Transition(o, to) PROVE OneClock'
    <2>1. copy[o].id \in DOMAIN incidents
      BY <1>9 DEF Transition, TypeOK
    <2>2. Save(copy[o].id, copy[o].row, Moved(copy[o].row, to)) /\ UNCHANGED << now, passed >>
      BY <1>9 DEF Transition, fusionVars
    <2> QED BY <1>4, <2>1, <2>2
  <1>10. ASSUME NEW o \in Operators, NEW s \in Severities, UpdateSeverity(o, s) PROVE OneClock'
    <2>1. copy[o].id \in DOMAIN incidents
      BY <1>10 DEF UpdateSeverity, TypeOK
    <2>2. /\ Save(copy[o].id, copy[o].row, [ copy[o].row EXCEPT !.severity = s ])
          /\ UNCHANGED << now, passed >>
      BY <1>10 DEF UpdateSeverity, fusionVars
    <2> QED BY <1>4, <2>1, <2>2
  <1>11. ASSUME NEW o \in Operators, GiveUp(o) \/ \E i \in DOMAIN incidents : Load(o, i)
         PROVE  UNCHANGED << now, incidents, passed >>
    BY <1>11 DEF GiveUp, Load, fusionVars
  <1>12. CASE UNCHANGED vars
    BY <1>7, <1>12 DEF vars, fusionVars
  <1> QED BY <1>2, <1>3, <1>5, <1>6, <1>7, <1>8, <1>9, <1>10, <1>11, <1>12
          DEF Next, Fuse, Operate

(* Where the processes' clocks agree the comment in FusionService.call is  *)
(* true: a second fusion attaches to what the first opened.                *)
THEOREM OneClockSecondAttaches ==
  ASSUME Skew = 0
  PROVE  Spec => []SecondAttaches
  <1>1. Init => OneClock
    BY DEF Init, OneClock
  <1>2. TypeOK /\ OneClock /\ [Next]_vars => OneClock'
    BY OneClockStep
  <1>3. NoParallelOpening /\ OneClock => SecondAttaches
    BY DEF NoParallelOpening, OneClock, SecondAttaches
  <1> QED BY <1>1, <1>2, <1>3, Typing, FusionsSerialise, PTL DEF Spec
=============================================================================
