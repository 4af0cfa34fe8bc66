----------------------------- MODULE SignalCursor -----------------------------
(***************************************************************************)
(* From ingestion to evaluation: Signals::IngestService stores each        *)
(* observation of a feed as a row of external_signals, and overlapping,    *)
(* failing runs ("ticks") of Correlations::EvaluateRecentJob evaluate the  *)
(* rows after the high-water mark kept by IngestionCursor.                 *)
(*                                                                         *)
(* ingested_at is DEFAULT now(): the time the inserting transaction began, *)
(* not the time it committed, so rows need not become visible in the order *)
(* of the cursor.                                                          *)
(*                                                                         *)
(* Abstracted: a row is its id (a number, as unordered in time as a UUID), *)
(* the observation it stores and its ingested_at; evaluating a signal      *)
(* against the rules and the geofences is one step that succeeds or        *)
(* raises; a retry of a failed tick and the next scheduled tick are the    *)
(* same thing, a run from the start.                                       *)
(***************************************************************************)
EXTENDS Naturals, FiniteSets

CONSTANTS
  Signals,      \* ids of rows that may be inserted
  Observation,  \* the (source, external_id, occurred_at) each row stores
  Ticks,        \* workers that may run EvaluateRecentJob at the same time
  Limit,        \* MAX_SIGNALS_PER_TICK
  Lookback,     \* initial_lookback of IngestionCursor.for
  MaxClock,     \* bound: the clock stops here
  MaxFailures   \* bound: how many ticks may raise

ASSUME CursorAssumption ==
  /\ Signals \subseteq Nat \ {0}
  /\ Limit \in Nat \ {0}
  /\ Lookback \in Nat
  /\ MaxClock \in Nat
  /\ MaxFailures \in Nat

VARIABLES
  clock,      \* Postgres' clock
  phase,      \* where the ingestion of each row is
  at,         \* its ingested_at, once its transaction has begun
  cursor,     \* the ingestion_cursors row
  stage,      \* where each tick is
  from,       \* the cursor a tick has loaded
  batch,      \* the signals a tick has read
  todo,       \* those it has not evaluated yet
  evaluated,  \* signals some tick has evaluated
  failures,   \* how many ticks have raised
  late,       \* history: rows overtaken before they were committed
  backlog     \* history: rows older than the cursor's first value

ingestVars == << phase, at >>
tickVars   == << stage, from, batch, todo >>
cursorVars == << clock, ingestVars, cursor, tickVars, evaluated, failures, late, backlog >>

-----------------------------------------------------------------------------
(* The order (ingested_at, id) and the cursor *)

NoCursor == [ at |-> 0, id |-> 0, exists |-> FALSE ]

Committed == { s \in Signals : phase[s] = "committed" }

Before(s, u) == at[s] < at[u] \/ (at[s] = at[u] /\ s < u)

(* Mutant: ties on ingested_at are not resolved by id.                     *)
AfterIgnoringIds(s, c) == at[s] > c.at

(* signals_since: an id of 0 stands for a nil last_signal_id.              *)
After(s, c) == at[s] > c.at \/ (at[s] = c.at /\ c.id > 0 /\ s > c.id)

(* ORDER BY ingested_at, id LIMIT MAX: a prefix of the signals after the   *)
(* cursor that is as long as the limit allows.                             *)
IsBatch(B, S) ==
  /\ B \subseteq S
  /\ \A s \in B, u \in S \ B : Before(s, u)
  /\ Cardinality(B) <= Limit
  /\ B # S => Cardinality(B) = Limit

(* Mutant: the UPDATE of advance_to has no precondition.                   *)
MayAdvanceUnguarded(s) == TRUE

(* The WHERE clause of advance_to's compare-and-set.                       *)
MayAdvance(s) ==
  \/ cursor.at < at[s]
  \/ cursor.at = at[s] /\ (cursor.id = 0 \/ cursor.id < s)

-----------------------------------------------------------------------------
(* Signals::IngestService.call *)

(* find_or_initialize_by, then save! opens its transaction.                *)
Begin(s) ==
  /\ phase[s] = "absent"
  /\ IF \E u \in Committed : Observation[u] = Observation[s]
     THEN phase' = [ phase EXCEPT ![s] = "found" ] /\ at' = at
     ELSE phase' = [ phase EXCEPT ![s] = "begun" ] /\ at' = [ at EXCEPT ![s] = clock ]
  /\ UNCHANGED << clock, cursor, tickVars, evaluated, failures, late, backlog >>

(* Mutant: no unique index on (source, external_id, occurred_at).          *)
SameRowsUnindexed(s, ph) == {}

SameRows(s, ph) == { u \in Signals \ {s} : phase[u] = ph /\ Observation[u] = Observation[s] }

(* The INSERT waits for an uncommitted row with the same key; a committed  *)
(* one raises RecordNotUnique, and the call returns the winner's row.      *)
Insert(s) ==
  /\ phase[s] = "begun"
  /\ SameRows(s, "inserted") = {}
  /\ phase' = [ phase EXCEPT ![s] = IF SameRows(s, "committed") = {} THEN "inserted" ELSE "found" ]
  /\ UNCHANGED << clock, at, cursor, tickVars, evaluated, failures, late, backlog >>

(* Some tick has read beyond s, or the cursor has passed it.               *)
Overtaken(s) ==
  \/ cursor.exists /\ ~After(s, cursor)
  \/ \E t \in Ticks : \E u \in batch[t] : Before(s, u)

CommitSignal(s) ==
  /\ phase[s] = "inserted"
  /\ phase' = [ phase EXCEPT ![s] = "committed" ]
  /\ late' = IF Overtaken(s) THEN late \cup {s} ELSE late
  /\ UNCHANGED << clock, at, cursor, tickVars, evaluated, failures, backlog >>

(* The feed's connection or process is lost before COMMIT.                 *)
Rollback(s) ==
  /\ phase[s] \in { "begun", "inserted" }
  /\ phase' = [ phase EXCEPT ![s] = "rolled_back" ]
  /\ UNCHANGED << clock, at, cursor, tickVars, evaluated, failures, late, backlog >>

-----------------------------------------------------------------------------
(* Correlations::EvaluateRecentJob.perform *)

(* IngestionCursor.for: the first tick creates the row, Lookback ago.      *)
Load(t) ==
  /\ stage[t] = "idle"
  /\ stage' = [ stage EXCEPT ![t] = "loaded" ]
  /\ IF cursor.exists
     THEN UNCHANGED << cursor, backlog >>
     ELSE /\ cursor' = [ at |-> IF clock > Lookback THEN clock - Lookback ELSE 0,
                         id |-> 0, exists |-> TRUE ]
          /\ backlog' = { s \in Committed : ~After(s, cursor') }
  /\ from' = [ from EXCEPT ![t] = cursor' ]
  /\ UNCHANGED << clock, ingestVars, batch, todo, evaluated, failures, late >>

ReadBatch(t) ==
  LET candidates == { s \in Committed : After(s, from[t]) }
  IN  /\ stage[t] = "loaded"
      /\ \E B \in SUBSET candidates :
           /\ IsBatch(B, candidates)
           /\ batch' = [ batch EXCEPT ![t] = B ]
           /\ todo' = [ todo EXCEPT ![t] = B ]
           /\ stage' = [ stage EXCEPT ![t] = IF B = {} THEN "idle" ELSE "evaluating" ]
      /\ UNCHANGED << clock, ingestVars, cursor, from, evaluated, failures, late, backlog >>

(* EvaluatorService and GeofenceBreachService on the next signal.          *)
EvaluateSignal(t) ==
  /\ stage[t] = "evaluating"
  /\ \E s \in todo[t] :
       /\ \A u \in todo[t] \ {s} : Before(s, u)
       /\ evaluated' = evaluated \cup {s}
       /\ todo' = [ todo EXCEPT ![t] = @ \ {s} ]
  /\ UNCHANGED << clock, ingestVars, cursor, stage, from, batch, failures, late, backlog >>

(* Mutant: what a tick has read survives it in the job object.             *)
StopKeepingBatch(t) ==
  /\ stage' = [ stage EXCEPT ![t] = "idle" ]
  /\ UNCHANGED << from, batch, todo >>

Stop(t) ==
  /\ stage' = [ stage EXCEPT ![t] = "idle" ]
  /\ batch' = [ batch EXCEPT ![t] = {} ]
  /\ todo' = [ todo EXCEPT ![t] = {} ]
  /\ UNCHANGED from

(* Something in the batch raises, or the worker dies.                      *)
Fail(t) ==
  /\ stage[t] # "idle"
  /\ failures < MaxFailures
  /\ failures' = failures + 1
  /\ Stop(t)
  /\ UNCHANGED << clock, ingestVars, cursor, evaluated, late, backlog >>

(* advance_to(last_processed)                                              *)
Advance(t) ==
  /\ stage[t] = "evaluating"
  /\ todo[t] = {}
  /\ \E s \in batch[t] :
       /\ \A u \in batch[t] \ {s} : Before(u, s)
       /\ cursor' = IF MayAdvance(s) THEN [ at |-> at[s], id |-> s, exists |-> TRUE ]
                                     ELSE cursor
  /\ Stop(t)
  /\ UNCHANGED << clock, ingestVars, evaluated, failures, late, backlog >>

-----------------------------------------------------------------------------
TimePasses ==
  /\ clock < MaxClock
  /\ clock' = clock + 1
  /\ UNCHANGED << ingestVars, cursor, tickVars, evaluated, failures, late, backlog >>

CursorInit ==
  /\ clock = 1
  /\ phase = [ s \in Signals |-> "absent" ]
  /\ at = [ s \in Signals |-> 0 ]
  /\ cursor = NoCursor
  /\ stage = [ t \in Ticks |-> "idle" ]
  /\ from = [ t \in Ticks |-> NoCursor ]
  /\ batch = [ t \in Ticks |-> {} ]
  /\ todo = [ t \in Ticks |-> {} ]
  /\ evaluated = {}
  /\ failures = 0
  /\ late = {}
  /\ backlog = {}

CursorNext ==
  \/ TimePasses
  \/ \E s \in Signals : Begin(s) \/ Insert(s) \/ CommitSignal(s) \/ Rollback(s)
  \/ \E t \in Ticks : Load(t) \/ ReadBatch(t) \/ EvaluateSignal(t) \/ Fail(t) \/ Advance(t)

CursorSpec == CursorInit /\ [][CursorNext]_cursorVars

(* The recurring schedule starts a tick every 30 seconds and a started     *)
(* tick runs on; nothing is assumed of the feeds.                          *)
CursorFairness ==
  \A t \in Ticks : WF_cursorVars(Load(t) \/ ReadBatch(t) \/ EvaluateSignal(t) \/ Advance(t))

CursorFairSpec == CursorSpec /\ CursorFairness

-----------------------------------------------------------------------------
(* Type invariant *)

Phases == { "absent", "begun", "inserted", "committed", "found", "rolled_back" }

Cursors == [ at : Nat, id : Nat, exists : BOOLEAN ]

(* Every variable has its shape, and only a running tick has a batch       *)
(* (the local variables of EvaluateRecentJob.perform).                     *)
CursorTypeOK ==
  /\ clock \in Nat
  /\ phase \in [Signals -> Phases]
  /\ at \in [Signals -> Nat]
  /\ cursor \in Cursors
  /\ stage \in [Ticks -> { "idle", "loaded", "evaluating" }]
  /\ from \in [Ticks -> Cursors]
  /\ batch \in [Ticks -> SUBSET Committed]
  /\ todo \in [Ticks -> SUBSET Signals]
  /\ \A t \in Ticks :
       /\ todo[t] \subseteq batch[t]
       /\ stage[t] # "evaluating" => batch[t] = {}
  /\ evaluated \subseteq Committed
  /\ failures \in Nat
  /\ late \subseteq Committed
  /\ backlog \subseteq Committed

-----------------------------------------------------------------------------
(* Properties *)

Passed(s) == cursor.exists /\ ~After(s, cursor)

(* A signal that was committed before any tick read beyond it is evaluated *)
(* before the cursor passes it, whatever ticks overlap, raise or are cut   *)
(* by the limit (the comment in perform on advancing after the batch).     *)
OnTimeSignalsEvaluated ==
  \A s \in Committed \ (late \cup backlog) : Passed(s) => s \in evaluated

(* Two ticks that race on the cursor never move it backwards, so no signal *)
(* that was passed becomes unpassed (the comment on advance_to).           *)
CursorNeverRegresses ==
  [][ cursor.exists => \A s \in Committed : Passed(s) => Passed(s)' ]_cursorVars

(* Feeds that poll overlapping windows, or race on the same observation,   *)
(* store it once (IngestService: "Idempotent").                            *)
OneRowPerObservation ==
  \A s, u \in Committed : Observation[s] = Observation[u] => s = u

(* Every signal committed in time is evaluated in the end, although ticks  *)
(* fail and overlap and each takes at most Limit signals.                  *)
OnTimeSignalsGetEvaluated ==
  \A s \in Signals :
    cursor.exists /\ s \in Committed \ (late \cup backlog) ~> s \in evaluated

(* The header of IngestionCursor: the cursor guarantees that no signal is  *)
(* skipped "even under concurrent ingestion bursts".                       *)
NoSignalSkipped ==
  \A s \in Committed \ backlog : Passed(s) => s \in evaluated

-----------------------------------------------------------------------------
(* The inductive invariant behind the theorems of SignalPipelineProofs.    *)

(* Nothing that c leaves behind lies after d.                              *)
NotBehind(c, d) ==
  \/ c.at < d.at
  \/ c.at = d.at /\ (c.id = d.id \/ (0 < c.id /\ c.id < d.id))

(* A running tick started from a cursor that the row has since reached,    *)
(* from its first value if it still has that, and reads only beyond it.    *)
TicksStartBehind ==
  \A t \in Ticks : stage[t] # "idle" =>
    /\ cursor.exists
    /\ NotBehind(from[t], cursor)
    /\ cursor.id = 0 => from[t] = cursor
    /\ \A u \in batch[t] : After(u, from[t])

(* A batch leaves out no on-time signal before its end unless that was     *)
(* evaluated already, and what left todo was evaluated.                    *)
BatchesAreComplete ==
  \A t \in Ticks :
    /\ \A s \in Committed \ (late \cup backlog) : \A u \in batch[t] :
         Before(s, u) => s \in batch[t] \/ s \in evaluated
    /\ batch[t] \ todo[t] \subseteq evaluated

(* Together: why advancing the cursor loses nothing that was visible.      *)
CursorInv ==
  /\ CursorTypeOK
  /\ TicksStartBehind
  /\ BatchesAreComplete
  /\ OnTimeSignalsEvaluated
=============================================================================
