------------------------- MODULE SignalPipelineProofs -------------------------
(***************************************************************************)
(* Theorems about the pipeline of signals.  Of SignalCursor, for every set *)
(* of signals and ticks, every limit and every clock: advancing the cursor *)
(* skips no signal that was committed in time, racing ticks never move the *)
(* cursor backwards, and an observation is stored once.  Of RuleFiring,    *)
(* for every set of rules and jobs, every cooldown, any number of attempts *)
(* and any disagreement of worker clocks: fires are spaced, stand or fall  *)
(* as a whole, and act on a signal once.                                   *)
(***************************************************************************)
EXTENDS SignalCursor, RuleFiring, TLAPS

(* What a cursor has passed stays passed when the cursor moves on.         *)
LEMMA PassedStays ==
  ASSUME CursorTypeOK, NEW s \in Signals,
         NEW c \in Cursors, NEW d \in Cursors, NotBehind(c, d), ~After(s, c)
  PROVE  ~After(s, d)
  BY CursorAssumption DEF CursorTypeOK, Cursors, NotBehind, After

(* The initial state is well-typed.                                        *)
LEMMA InitType == CursorInit => CursorTypeOK
  BY CursorAssumption DEF CursorInit, CursorTypeOK, Phases, Cursors, NoCursor, Committed

(* Every step preserves the shape of the variables.                        *)
LEMMA NextType == CursorTypeOK /\ [CursorNext]_cursorVars => CursorTypeOK'
<1> SUFFICES ASSUME CursorTypeOK, [CursorNext]_cursorVars PROVE CursorTypeOK'
  OBVIOUS
<1> USE CursorAssumption DEF CursorTypeOK, ingestVars, tickVars
<1>1. CASE TimePasses
  BY <1>1 DEF TimePasses, Committed
<1>2. ASSUME NEW s \in Signals, Begin(s) PROVE CursorTypeOK'
  <2>1. /\ phase' \in [Signals -> Phases]
        /\ at' \in [Signals -> Nat]
        /\ Committed' = Committed
    <3>1. CASE \E u \in Committed : Observation[u] = Observation[s]
      BY <1>2, <3>1 DEF Begin, Committed, Phases
    <3>2. CASE ~ \E u \in Committed : Observation[u] = Observation[s]
      <4>1. /\ phase' = [ phase EXCEPT ![s] = "begun" ]
            /\ at' = [ at EXCEPT ![s] = clock ]
            /\ phase[s] = "absent"
        BY <1>2, <3>2 DEF Begin
      <4> QED
        BY <4>1 DEF Committed, Phases
    <3> QED
      BY <3>1, <3>2
  <2>2. UNCHANGED << clock, cursor, stage, from, batch, todo, evaluated, failures, late, backlog >>
    BY <1>2 DEF Begin
  <2> QED
    BY <2>1, <2>2
<1>3. ASSUME NEW s \in Signals, Insert(s) PROVE CursorTypeOK'
  BY <1>3 DEF Insert, Committed, Phases
<1>4. ASSUME NEW s \in Signals, CommitSignal(s) PROVE CursorTypeOK'
  BY <1>4 DEF CommitSignal, Committed, Phases
<1>5. ASSUME NEW s \in Signals, Rollback(s) PROVE CursorTypeOK'
  BY <1>5 DEF Rollback, Committed, Phases
<1>6. ASSUME NEW t \in Ticks, Load(t) PROVE CursorTypeOK'
  <2>1. cursor' \in Cursors
    <3>1. CASE cursor.exists
      BY <1>6, <3>1 DEF Load
    <3>2. CASE ~cursor.exists
      <4> DEFINE start == IF clock > Lookback THEN clock - Lookback ELSE 0
      <4>1. start \in Nat
        OBVIOUS
      <4>2. cursor' = [ at |-> start, id |-> 0, exists |-> TRUE ]
        BY <1>6, <3>2 DEF Load
      <4> HIDE DEF start
      <4> QED
        BY <4>1, <4>2 DEF Cursors
    <3> QED
      BY <3>1, <3>2
  <2>2. backlog' \subseteq Committed
    BY <1>6 DEF Load
  <2>3. Committed' = Committed
    BY <1>6 DEF Load, Committed
  <2>4. from' \in [Ticks -> Cursors]
    BY <1>6, <2>1 DEF Load
  <2>5. stage' \in [Ticks -> { "idle", "loaded", "evaluating" }]
    BY <1>6 DEF Load
  <2>6. ASSUME NEW u \in Ticks, stage'[u] # "evaluating" PROVE batch'[u] = {}
    BY <1>6, <2>6 DEF Load
  <2>7. UNCHANGED << clock, phase, at, batch, todo, evaluated, failures, late >>
    BY <1>6 DEF Load
  <2> QED
    BY <2>1, <2>2, <2>3, <2>4, <2>5, <2>6, <2>7
<1>7. ASSUME NEW t \in Ticks, ReadBatch(t) PROVE CursorTypeOK'
  <2>1. PICK B \in SUBSET Committed :
          /\ batch' = [ batch EXCEPT ![t] = B ]
          /\ todo' = [ todo EXCEPT ![t] = B ]
          /\ stage' = [ stage EXCEPT ![t] = IF B = {} THEN "idle" ELSE "evaluating" ]
    BY <1>7 DEF ReadBatch
  <2>2. Committed' = Committed
    BY <1>7 DEF ReadBatch, Committed
  <2>3. B \in SUBSET Signals
    BY DEF Committed
  <2>4. UNCHANGED << clock, phase, at, cursor, from, evaluated, failures, late, backlog >>
    BY <1>7 DEF ReadBatch
  <2>5. ASSUME NEW u \in Ticks
        PROVE /\ todo'[u] \subseteq batch'[u]
              /\ stage'[u] # "evaluating" => batch'[u] = {}
    BY <2>1
  <2> QED
    BY <2>1, <2>2, <2>3, <2>4, <2>5
<1>8. ASSUME NEW t \in Ticks, EvaluateSignal(t) PROVE CursorTypeOK'
  <2>1. PICK s \in todo[t] : /\ evaluated' = evaluated \cup {s}
                             /\ todo' = [ todo EXCEPT ![t] = @ \ {s} ]
    BY <1>8 DEF EvaluateSignal
  <2>2. Committed' = Committed
    BY <1>8 DEF EvaluateSignal, Committed
  <2>3. s \in Committed
    OBVIOUS
  <2>4. UNCHANGED << clock, phase, at, cursor, stage, from, batch, failures, late, backlog >>
    BY <1>8 DEF EvaluateSignal
  <2> QED
    BY <2>1, <2>2, <2>3, <2>4
<1>9. ASSUME NEW t \in Ticks, Fail(t) PROVE CursorTypeOK'
  BY <1>9 DEF Fail, Stop, Committed
<1>10. ASSUME NEW t \in Ticks, Advance(t) PROVE CursorTypeOK'
  <2>1. cursor' \in Cursors
    BY <1>10 DEF Advance, Cursors, Committed
  <2> QED
    BY <1>10, <2>1 DEF Advance, Stop, Committed
<1>11. CASE UNCHANGED cursorVars
  BY <1>11 DEF cursorVars, Committed
<1> QED
  BY <1>1, <1>2, <1>3, <1>4, <1>5, <1>6, <1>7, <1>8, <1>9, <1>10, <1>11 DEF CursorNext

(* The specification is well-typed.                                        *)
THEOREM Typing == CursorSpec => []CursorTypeOK
  BY InitType, NextType, PTL DEF CursorSpec

-----------------------------------------------------------------------------
(* The three parts of the inductive invariant beyond the types.            *)
Parts == TicksStartBehind /\ BatchesAreComplete /\ OnTimeSignalsEvaluated

(* Initially there is nothing to skip.                                     *)
LEMMA InitInv == CursorInit => Parts
  BY DEF CursorInit, Parts, TicksStartBehind, BatchesAreComplete, OnTimeSignalsEvaluated,
         Committed

(* Steps of an ingestion that commits nothing, and the clock.              *)
LEMMA QuietStep ==
  ASSUME CursorTypeOK, Parts, Committed' = Committed,
         \A s \in Committed : at'[s] = at[s],
         UNCHANGED << cursor, tickVars, evaluated, late, backlog >>
  PROVE  Parts'
<1>1. TicksStartBehind'
  BY DEF CursorTypeOK, Parts, TicksStartBehind, tickVars, NotBehind, After
<1>2. BatchesAreComplete'
  BY DEF CursorTypeOK, Parts, BatchesAreComplete, tickVars, Before
<1>3. OnTimeSignalsEvaluated'
  BY DEF CursorTypeOK, Parts, OnTimeSignalsEvaluated, Passed, After
<1> QED
  BY <1>1, <1>2, <1>3 DEF Parts

(* A commit is late, or nobody has read or passed beyond it.               *)
LEMMA CommitStep ==
  ASSUME CursorTypeOK, Parts, NEW s \in Signals, CommitSignal(s)
  PROVE  Parts'
<1> USE DEF CursorTypeOK, CommitSignal, tickVars
<1>1. Committed' = Committed \cup {s}
  BY DEF Committed
<1>2. TicksStartBehind'
  BY DEF Parts, TicksStartBehind, NotBehind, After
<1>3. BatchesAreComplete'
  BY <1>1 DEF Parts, BatchesAreComplete, Before, Overtaken
<1>4. OnTimeSignalsEvaluated'
  BY <1>1 DEF Parts, OnTimeSignalsEvaluated, Passed, After, Overtaken
<1> QED
  BY <1>2, <1>3, <1>4 DEF Parts

(* A tick starts from the cursor, which it creates if there is none.       *)
LEMMA LoadStep ==
  ASSUME CursorTypeOK, Parts, NEW t \in Ticks, Load(t)
  PROVE  Parts'
<1> USE DEF CursorTypeOK, tickVars, ingestVars
<1>1. Committed' = Committed
  BY DEF Load, Committed
<1>2. cursor'.exists
  BY DEF Load
<1>3. /\ \A u \in Ticks \ {t} : stage'[u] = stage[u] /\ from'[u] = from[u]
      /\ from'[t] = cursor'
      /\ batch[t] = {}
      /\ UNCHANGED << at, batch, todo, evaluated, late >>
  BY DEF Load
<1>4. CASE cursor.exists
  <2>1. UNCHANGED << cursor, backlog >>
    BY <1>4 DEF Load
  <2>2. TicksStartBehind'
    BY <1>2, <1>3, <2>1 DEF Parts, TicksStartBehind, NotBehind, After
  <2>3. BatchesAreComplete'
    BY <1>1, <1>3, <2>1 DEF Parts, BatchesAreComplete, Before
  <2>4. OnTimeSignalsEvaluated'
    BY <1>1, <1>3, <2>1 DEF Parts, OnTimeSignalsEvaluated, Passed, After
  <2> QED
    BY <2>2, <2>3, <2>4 DEF Parts
<1>5. CASE ~cursor.exists
  <2>1. \A u \in Ticks : stage[u] = "idle" /\ batch[u] = {}
    BY <1>5 DEF Parts, TicksStartBehind
  <2>2. TicksStartBehind'
    BY <1>2, <1>3, <2>1 DEF TicksStartBehind, NotBehind
  <2>3. BatchesAreComplete'
    BY <1>3, <2>1 DEF BatchesAreComplete
  <2>4. backlog' = { s \in Committed : ~After(s, cursor') }
    BY <1>5 DEF Load
  <2>5. OnTimeSignalsEvaluated'
    BY <1>1, <1>3, <2>4 DEF OnTimeSignalsEvaluated, Passed, After
  <2> QED
    BY <2>2, <2>3, <2>5 DEF Parts
<1> QED
  BY <1>4, <1>5

(* What a batch leaves out comes after it, or was passed already.          *)
LEMMA ReadStep ==
  ASSUME CursorTypeOK, Parts, NEW t \in Ticks, ReadBatch(t)
  PROVE  Parts'
<1> USE DEF CursorTypeOK, ingestVars
<1> DEFINE candidates == { s \in Committed : After(s, from[t]) }
<1>1. PICK B \in SUBSET candidates :
        /\ \A s \in B, u \in candidates \ B : Before(s, u)
        /\ batch' = [ batch EXCEPT ![t] = B ]
        /\ todo' = [ todo EXCEPT ![t] = B ]
        /\ stage' = [ stage EXCEPT ![t] = IF B = {} THEN "idle" ELSE "evaluating" ]
  BY DEF ReadBatch, IsBatch
<1>2. /\ Committed' = Committed
      /\ UNCHANGED << at, cursor, from, evaluated, late, backlog >>
      /\ stage[t] = "loaded"
  BY DEF ReadBatch, Committed
<1>3. TicksStartBehind'
  BY <1>1, <1>2 DEF Parts, TicksStartBehind, NotBehind, After
<1>4. ASSUME NEW s \in Committed \ (late \cup backlog), NEW u \in B, Before(s, u)
      PROVE  s \in B \/ s \in evaluated
  <2>1. s \in Signals /\ u \in Signals /\ s \in Nat /\ u \in Nat
    BY CursorAssumption DEF Committed
  <2>2. CASE After(s, from[t])
    <3>1. ~Before(u, s)
      BY <1>4, <2>1 DEF Before
    <3> QED
      BY <1>1, <2>2, <3>1
  <2>3. CASE ~After(s, from[t])
    <3>1. cursor.exists /\ NotBehind(from[t], cursor)
      BY <1>2 DEF Parts, TicksStartBehind
    <3>2. ~After(s, cursor)
      BY <2>1, <2>3, <3>1, PassedStays
    <3> QED
      BY <3>1, <3>2 DEF Parts, OnTimeSignalsEvaluated, Passed
  <2> QED
    BY <2>2, <2>3
<1>5. BatchesAreComplete'
  BY <1>1, <1>2, <1>4 DEF Parts, BatchesAreComplete, Before
<1>6. OnTimeSignalsEvaluated'
  BY <1>2 DEF Parts, OnTimeSignalsEvaluated, Passed, After
<1> QED
  BY <1>3, <1>5, <1>6 DEF Parts

(* Evaluating a signal moves it from todo to evaluated.                    *)
LEMMA EvaluateStep ==
  ASSUME CursorTypeOK, Parts, NEW t \in Ticks, EvaluateSignal(t)
  PROVE  Parts'
<1> USE DEF CursorTypeOK, ingestVars
<1>1. PICK s \in todo[t] : /\ evaluated' = evaluated \cup {s}
                           /\ todo' = [ todo EXCEPT ![t] = @ \ {s} ]
  BY DEF EvaluateSignal
<1>2. /\ Committed' = Committed
      /\ UNCHANGED << at, cursor, stage, from, batch, late, backlog >>
  BY DEF EvaluateSignal, Committed
<1>3. TicksStartBehind'
  BY <1>2 DEF Parts, TicksStartBehind, NotBehind, After
<1>4. BatchesAreComplete'
  BY <1>1, <1>2 DEF Parts, BatchesAreComplete, Before
<1>5. OnTimeSignalsEvaluated'
  BY <1>1, <1>2 DEF Parts, OnTimeSignalsEvaluated, Passed, After
<1> QED
  BY <1>3, <1>4, <1>5 DEF Parts

(* A tick that raises leaves the cursor where it was.                      *)
LEMMA FailStep ==
  ASSUME CursorTypeOK, Parts, NEW t \in Ticks, Fail(t)
  PROVE  Parts'
<1> USE DEF CursorTypeOK, Fail, Stop, ingestVars
<1>1. Committed' = Committed
  BY DEF Committed
<1>2. TicksStartBehind'
  BY DEF Parts, TicksStartBehind, NotBehind, After
<1>3. BatchesAreComplete'
  BY <1>1 DEF Parts, BatchesAreComplete, Before
<1>4. OnTimeSignalsEvaluated'
  BY <1>1 DEF Parts, OnTimeSignalsEvaluated, Passed, After
<1> QED
  BY <1>2, <1>3, <1>4 DEF Parts

(* The compare-and-set leaves the cursor alone or moves it to the end of a *)
(* batch that has been evaluated, beyond where it was.                     *)
LEMMA AdvanceMoves ==
  ASSUME CursorTypeOK, Parts, NEW t \in Ticks, Advance(t)
  PROVE  \/ cursor' = cursor
         \/ \E s \in batch[t] :
              /\ cursor' = [ at |-> at[s], id |-> s, exists |-> TRUE ]
              /\ \A u \in batch[t] \ {s} : Before(u, s)
              /\ NotBehind(cursor, cursor')
<1>1. PICK s \in batch[t] :
        /\ \A u \in batch[t] \ {s} : Before(u, s)
        /\ cursor' = IF MayAdvance(s) THEN [ at |-> at[s], id |-> s, exists |-> TRUE ]
                                      ELSE cursor
  BY DEF Advance
<1>2. s \in Signals /\ s \in Nat /\ at[s] \in Nat /\ cursor \in Cursors /\ from[t] \in Cursors
  BY CursorAssumption DEF CursorTypeOK, Committed
<1>3. /\ After(s, from[t])
      /\ cursor.id = 0 => from[t] = cursor
  BY DEF Advance, Parts, TicksStartBehind
<1>4. CASE MayAdvance(s)
  <2>1. cursor' = [ at |-> at[s], id |-> s, exists |-> TRUE ]
    BY <1>1, <1>4
  <2>2. NotBehind(cursor, cursor')
    BY <1>2, <1>3, <1>4, <2>1 DEF MayAdvance, NotBehind, After, Cursors
  <2> QED
    BY <1>1, <2>1, <2>2
<1> QED
  BY <1>1, <1>4

(* Advancing passes only what was evaluated.                               *)
LEMMA AdvanceStep ==
  ASSUME CursorTypeOK, CursorTypeOK', Parts, NEW t \in Ticks, Advance(t)
  PROVE  Parts'
<1>1. /\ Committed' = Committed
      /\ UNCHANGED << at, from, evaluated, late, backlog >>
      /\ stage' = [ stage EXCEPT ![t] = "idle" ]
      /\ batch' = [ batch EXCEPT ![t] = {} ]
      /\ todo' = [ todo EXCEPT ![t] = {} ]
      /\ stage[t] = "evaluating" /\ todo[t] = {}
      /\ cursor.exists
  BY DEF Advance, Stop, Committed, ingestVars, Parts, TicksStartBehind
<1>2. BatchesAreComplete'
  BY <1>1 DEF CursorTypeOK, Parts, BatchesAreComplete, Before
<1>3. CASE cursor' = cursor
  <2>1. TicksStartBehind'
    BY <1>1, <1>3 DEF CursorTypeOK, Parts, TicksStartBehind, NotBehind, After
  <2>2. OnTimeSignalsEvaluated'
    BY <1>1, <1>3 DEF Parts, OnTimeSignalsEvaluated, Passed, After
  <2> QED
    BY <1>2, <2>1, <2>2 DEF Parts
<1>4. CASE cursor' # cursor
  <2>1. PICK s \in batch[t] :
          /\ cursor' = [ at |-> at[s], id |-> s, exists |-> TRUE ]
          /\ \A u \in batch[t] \ {s} : Before(u, s)
          /\ NotBehind(cursor, cursor')
    BY <1>4, AdvanceMoves
  <2>2. s \in Signals /\ s \in Nat \ {0}
    BY CursorAssumption DEF CursorTypeOK, Committed
  <2>3. ASSUME NEW u \in Ticks, stage'[u] # "idle"
        PROVE  /\ cursor'.exists
               /\ NotBehind(from[u], cursor')
               /\ cursor'.id # 0
               /\ u # t
    <3>1. u # t /\ stage[u] # "idle"
      BY <1>1, <2>3 DEF CursorTypeOK
    <3>2. NotBehind(from[u], cursor)
      BY <3>1 DEF Parts, TicksStartBehind
    <3>3. NotBehind(from[u], cursor')
      BY <2>1, <3>2 DEF CursorTypeOK, Cursors, NotBehind
    <3> QED
      BY <2>1, <2>2, <3>1, <3>3
  <2>4. TicksStartBehind'
    BY <1>1, <2>3 DEF CursorTypeOK, Parts, TicksStartBehind, NotBehind, After
  <2>5. ASSUME NEW u \in Committed \ (late \cup backlog), ~After(u, cursor')
        PROVE  u \in evaluated
    <3>1. u \in Signals /\ u \in Nat /\ at[u] \in Nat /\ at[s] \in Nat
      BY <2>2, CursorAssumption DEF CursorTypeOK, Committed
    <3>2. u = s \/ Before(u, s)
      BY <2>1, <2>2, <2>5, <3>1 DEF After, Before
    <3> QED
      BY <1>1, <3>2 DEF Parts, BatchesAreComplete
  <2>6. OnTimeSignalsEvaluated'
    BY <1>1, <2>5 DEF OnTimeSignalsEvaluated, Passed, After
  <2> QED
    BY <1>2, <2>4, <2>6 DEF Parts
<1> QED
  BY <1>3, <1>4

(* The invariant is inductive.                                             *)
LEMMA NextInv == CursorInv /\ CursorTypeOK' /\ [CursorNext]_cursorVars => CursorInv'
<1> SUFFICES ASSUME CursorTypeOK, CursorTypeOK', Parts, [CursorNext]_cursorVars PROVE Parts'
  BY DEF CursorInv, Parts
<1>1. CASE TimePasses
  BY <1>1, QuietStep DEF TimePasses, Committed, ingestVars
<1>2. ASSUME NEW s \in Signals, Begin(s) PROVE Parts'
  <2>1. Committed' = Committed
    BY <1>2 DEF Begin, Committed, CursorTypeOK
  <2>2. \A u \in Committed : at'[u] = at[u]
    BY <1>2 DEF Begin, Committed, CursorTypeOK
  <2> QED
    BY <1>2, <2>1, <2>2, QuietStep DEF Begin
<1>3. ASSUME NEW s \in Signals, Insert(s) PROVE Parts'
  BY <1>3, QuietStep DEF Insert, Committed, CursorTypeOK
<1>4. ASSUME NEW s \in Signals, Rollback(s) PROVE Parts'
  BY <1>4, QuietStep DEF Rollback, Committed, CursorTypeOK
<1>5. CASE UNCHANGED cursorVars
  BY <1>5, QuietStep DEF cursorVars, Committed, ingestVars, tickVars
<1> QED
  BY <1>1, <1>2, <1>3, <1>4, <1>5, CommitStep, LoadStep, ReadStep, EvaluateStep,
     FailStep, AdvanceStep DEF CursorNext

(* The inductive invariant holds for every instance.                       *)
THEOREM Invariance == CursorSpec => []CursorInv
<1>1. CursorInit => CursorInv
  BY InitType, InitInv DEF CursorInv, Parts
<1>2. CursorInv /\ [CursorNext]_cursorVars => CursorInv'
  BY NextType, NextInv DEF CursorInv
<1> QED
  BY <1>1, <1>2, PTL DEF CursorSpec

(* However ticks overlap, fail and race, the cursor passes no signal that  *)
(* was committed in time before it was evaluated (EvaluateRecentJob).      *)
THEOREM NoOnTimeSignalSkipped == CursorSpec => []OnTimeSignalsEvaluated
<1>1. CursorInv => OnTimeSignalsEvaluated
  BY DEF CursorInv
<1> QED
  BY <1>1, Invariance, PTL

(* The guarded UPDATE never moves the cursor backwards (advance_to).       *)
THEOREM CursorMonotonic == CursorSpec => CursorNeverRegresses
<1>1. CursorInv /\ [CursorNext]_cursorVars =>
        [ cursor.exists => \A s \in Committed : Passed(s) => Passed(s)' ]_cursorVars
  <2> SUFFICES ASSUME CursorInv, [CursorNext]_cursorVars, cursor.exists,
                      NEW s \in Committed, Passed(s)
               PROVE  Passed(s)'
    OBVIOUS
  <2> USE DEF CursorInv, CursorTypeOK
  <2>1. s \in Signals /\ phase[s] = "committed" /\ ~After(s, cursor)
    BY DEF Committed, Passed
  <2>2. at'[s] = at[s]
    BY <2>1 DEF CursorNext, TimePasses, Begin, Insert, CommitSignal, Rollback, Load, ReadBatch,
                EvaluateSignal, Fail, Advance, ingestVars, cursorVars
  <2>3. CASE cursor' = cursor
    BY <2>2, <2>3 DEF Passed, After
  <2>4. CASE cursor' # cursor
    <3>1. PICK t \in Ticks : Advance(t)
      BY <2>4 DEF CursorNext, TimePasses, Begin, Insert, CommitSignal, Rollback, Load, ReadBatch,
                  EvaluateSignal, Fail, cursorVars
    <3>2. cursor'.exists /\ NotBehind(cursor, cursor')
      BY <2>4, <3>1, AdvanceMoves DEF Parts
    <3>3. cursor' \in Cursors
      BY NextType
    <3>4. ~After(s, cursor')
      BY <2>1, <3>2, <3>3, PassedStays
    <3> QED
      BY <2>2, <3>2, <3>4 DEF Passed, After
  <2> QED
    BY <2>3, <2>4
<1> QED
  BY <1>1, Invariance, PTL DEF CursorSpec, CursorNeverRegresses

-----------------------------------------------------------------------------
(* Of the rows of one observation, at most one is inserted or committed:   *)
(* the unique index makes the INSERT of another wait for it or find it.    *)
Held(s) == phase[s] \in { "inserted", "committed" }
OneRowHeld ==
  \A s, u \in Signals : Held(s) /\ Held(u) /\ Observation[s] = Observation[u] => s = u

(* A step that brings no row further than it was, in this sense.           *)
LEMMA HeldStep ==
  ASSUME OneRowHeld, \A s \in Signals : Held(s)' => Held(s)
  PROVE  OneRowHeld'
  BY DEF OneRowHeld

LEMMA OneRowStep == CursorTypeOK /\ OneRowHeld /\ [CursorNext]_cursorVars => OneRowHeld'
<1> SUFFICES ASSUME CursorTypeOK, OneRowHeld, [CursorNext]_cursorVars PROVE OneRowHeld'
  OBVIOUS
<1> USE DEF CursorTypeOK
<1>1. ASSUME NEW s \in Signals, Insert(s) PROVE OneRowHeld'
  <2>1. CASE SameRows(s, "committed") = {}
    <3>1. phase' = [ phase EXCEPT ![s] = "inserted" ]
      BY <1>1, <2>1 DEF Insert
    <3>2. \A u \in Signals \ {s} : Observation[u] = Observation[s] => ~Held(u)
      BY <1>1, <2>1 DEF Insert, SameRows, Held
    <3> QED
      BY <3>1, <3>2 DEF OneRowHeld, Held
  <2>2. CASE SameRows(s, "committed") # {}
    BY <1>1, <2>2, HeldStep DEF Insert, Held
  <2> QED
    BY <2>1, <2>2
<1>2. ASSUME NEW s \in Signals, Begin(s) \/ CommitSignal(s) \/ Rollback(s) PROVE OneRowHeld'
  <2>1. \A u \in Signals : Held(u)' => Held(u)
    BY <1>2 DEF Begin, CommitSignal, Rollback, Held
  <2> QED
    BY <2>1, HeldStep
<1>3. CASE phase' = phase
  BY <1>3, HeldStep DEF Held
<1>4. TimePasses \/ UNCHANGED cursorVars => phase' = phase
  BY DEF TimePasses, cursorVars, ingestVars
<1>5. ASSUME NEW t \in Ticks,
             Load(t) \/ ReadBatch(t) \/ EvaluateSignal(t) \/ Fail(t) \/ Advance(t)
      PROVE  phase' = phase
  BY <1>5 DEF Load, ReadBatch, EvaluateSignal, Fail, Advance, ingestVars
<1> QED
  BY <1>1, <1>2, <1>3, <1>4, <1>5 DEF CursorNext

(* Feeds that poll overlapping windows, or race on one observation, store  *)
(* it once (IngestService.call and the unique index it falls back on).     *)
THEOREM StoredOnce == CursorSpec => []OneRowPerObservation
<1>1. CursorInit => OneRowHeld
  BY DEF CursorInit, OneRowHeld, Held
<1>2. OneRowHeld => OneRowPerObservation
  BY DEF OneRowHeld, OneRowPerObservation, Held, Committed
<1> QED
  BY <1>1, <1>2, OneRowStep, Typing, PTL DEF CursorSpec

-----------------------------------------------------------------------------
(* Firing the rules that the evaluated signals match.                      *)

(* The initial state is well-typed.                                        *)
LEMMA FiringInitType == Init => TypeOK
  BY FiringAssumption DEF Init, TypeOK, Places, Settled, Rows

(* Rolling back releases exactly the row of the job.                       *)
LEMMA RowReleased ==
  ASSUME TypeOK, NEW j \in Jobs, ReleaseRow(j)
  PROVE  /\ rowOwner' \in [Rules -> Jobs \cup {None}]
         /\ \A r \in Rules, i \in Jobs \ {j} : rowOwner'[r] = i <=> rowOwner[r] = i
         /\ \A r \in Rules : rowOwner'[r] # j
  BY FiringAssumption DEF TypeOK, ReleaseRow

(* Every step preserves the shape of the variables.                        *)
LEMMA FiringNextType == TypeOK /\ [Next]_vars => TypeOK'
<1> SUFFICES ASSUME TypeOK, [Next]_vars PROVE TypeOK'
  OBVIOUS
<1> USE FiringAssumption DEF TypeOK, Goto
<1>1. CASE Clock
  BY <1>1 DEF Clock
<1>2. ASSUME NEW r \in Rules, Deactivate(r) PROVE TypeOK'
  BY <1>2 DEF Deactivate
<1>3. ASSUME NEW j \in Jobs, Evaluate(j) PROVE TypeOK'
  BY <1>3 DEF Evaluate, Clocks, Places, Settled
<1>4. ASSUME NEW j \in Jobs, Start(j) PROVE TypeOK'
  BY <1>4 DEF Start, Clocks, Places, Settled
<1>5. ASSUME NEW j \in Jobs, Claim(j) PROVE TypeOK'
  BY <1>5 DEF Claim, RowFree, Places, Settled
<1>6. ASSUME NEW j \in Jobs, LoseClaim(j) PROVE TypeOK'
  BY <1>6 DEF LoseClaim, Places, Settled
<1>7. ASSUME NEW j \in Jobs, Commit(j) PROVE TypeOK'
  <2>1. Match(j) \in Rows
    BY DEF Match, Rows
  <2>2. pc' \in [Jobs -> Places]
    BY <1>7 DEF Commit, Places
  <2>3. lastFired' \in [Rules -> Nat \cup {None}]
    BY <1>7 DEF Commit
  <2>4. \A r \in Rules, i \in Jobs : rowOwner'[r] = i <=> (RuleOf[i] = r /\ pc'[i] = "acting")
    BY <1>7, RowReleased DEF Commit
  <2> QED
    BY <1>7, <2>1, <2>2, <2>3, <2>4, RowReleased DEF Commit
<1>8. ASSUME NEW j \in Jobs, Undo(j), fusions' = fusions,
             UNCHANGED << now, active, attempt, stamp >>, faults' \in Nat,
             NEW p \in Places, p # "acting", pc' = [ pc EXCEPT ![j] = p ]
      PROVE  TypeOK'
  <2>1. \A r \in Rules, i \in Jobs : rowOwner'[r] = i <=> (RuleOf[i] = r /\ pc'[i] = "acting")
    BY <1>8, RowReleased DEF Undo
  <2> QED
    BY <1>8, <2>1, RowReleased DEF Undo
<1>9. ASSUME NEW j \in Jobs, Reject(j) PROVE TypeOK'
  BY <1>8, <1>9 DEF Reject, Places, Settled
<1>10. ASSUME NEW j \in Jobs, ActionFails(j) PROVE TypeOK'
  <2>1. /\ pc' = [ pc EXCEPT ![j] = "action_failed" ]
        /\ Undo(j) /\ fusions' = fusions /\ faults' \in Nat
        /\ UNCHANGED << now, active, attempt, stamp >>
    BY <1>10 DEF ActionFails, Fault
  <2> QED
    BY <1>8, <2>1 DEF Places, Settled
<1>11. ASSUME NEW j \in Jobs, StatementFails(j) PROVE TypeOK'
  <2> DEFINE p == IF attempt[j] < MaxAttempts THEN "queued" ELSE "exhausted"
  <2>1. p \in Places /\ p # "acting"
    BY DEF Places, Settled
  <2>2. /\ pc' = [ pc EXCEPT ![j] = p ]
        /\ Undo(j) /\ fusions' = fusions /\ faults' \in Nat
        /\ UNCHANGED << now, active, attempt, stamp >>
    BY <1>11 DEF StatementFails, Fault
  <2> HIDE DEF p
  <2> QED
    BY <1>8, <2>1, <2>2
<1>12. ASSUME NEW j \in Jobs, EnqueueFusion(j) PROVE TypeOK'
  BY <1>12 DEF EnqueueFusion, Places, Settled
<1>13. ASSUME NEW j \in Jobs, EnqueueFails(j) PROVE TypeOK'
  BY <1>13 DEF EnqueueFails, Fault, Places, Settled
<1>14. ASSUME NEW j \in Jobs, Crash(j) PROVE TypeOK'
  BY <1>8, <1>14 DEF Crash, Fault, Places, Settled
<1>15. CASE UNCHANGED vars
  BY <1>15 DEF vars
<1> QED
  BY <1>1, <1>2, <1>3, <1>4, <1>5, <1>6, <1>7, <1>9, <1>10, <1>11, <1>12, <1>13,
     <1>14, <1>15 DEF Next

(* The specification is well-typed.                                        *)
THEOREM FiringTyping == Spec => []TypeOK
  BY FiringInitType, FiringNextType, PTL DEF Spec

-----------------------------------------------------------------------------
(* The parts of the inductive invariant beyond the types.                  *)
FiringParts == /\ ClaimStands /\ LastFiredIsLatest /\ FireIsAtomic
         /\ CooldownRespected /\ SkippedOnlyForAFire

(* Initially nothing has fired.                                            *)
LEMMA FiringInitInv == Init => FiringParts
  BY DEF Init, FiringParts, ClaimStands, LastFiredIsLatest, FireIsAtomic,
         CooldownRespected, SkippedOnlyForAFire

(* A step that commits nothing keeps the invariant, provided that a job    *)
(* that starts to act, or is skipped, has reason to.                       *)
LEMMA FiringQuietStep ==
  ASSUME TypeOK, TypeOK', FiringParts,
         UNCHANGED << lastFired, effects, matches >>,
         NEW j \in Jobs,
         \A i \in Jobs \ {j} : pc'[i] = pc[i] /\ stamp'[i] = stamp[i],
         pc'[j] = "acting" => CooldownOver(RuleOf[j], stamp'[j]),
         pc'[j] = "cooldown_skipped" =>
           ~CooldownOver(RuleOf[j], stamp'[j]) \/ (pc[j] = pc'[j] /\ stamp'[j] = stamp[j])
  PROVE  FiringParts'
<1>1. ClaimStands'
  BY DEF FiringParts, ClaimStands, CooldownOver
<1>2. LastFiredIsLatest' /\ FireIsAtomic' /\ CooldownRespected'
  BY DEF FiringParts, LastFiredIsLatest, FireIsAtomic, CooldownRespected
<1>3. ASSUME pc'[j] = "cooldown_skipped", ~CooldownOver(RuleOf[j], stamp'[j])
      PROVE  \E m \in matches : m.rule = RuleOf[j] /\ m.stamp + Cooldown[m.rule] > stamp'[j]
  <2>1. RuleOf[j] \in Rules /\ stamp'[j] \in Nat
    BY FiringAssumption DEF TypeOK
  <2>2. PICK m \in matches : m.rule = RuleOf[j] /\ m.stamp = lastFired[RuleOf[j]]
    BY <1>3, <2>1 DEF FiringParts, FireIsAtomic, CooldownOver
  <2>3. m.stamp \in Nat /\ Cooldown[RuleOf[j]] \in Nat
    BY <2>1, FiringAssumption DEF TypeOK, Rows
  <2> QED
    BY <1>3, <2>1, <2>2, <2>3 DEF CooldownOver
<1>4. SkippedOnlyForAFire'
  BY <1>3 DEF FiringParts, SkippedOnlyForAFire
<1> QED
  BY <1>1, <1>2, <1>4 DEF FiringParts

(* A commit is the latest fire of its rule, a cooldown after the others.   *)
LEMMA FiringCommitStep ==
  ASSUME TypeOK, FiringParts, NEW j \in Jobs, Commit(j)
  PROVE  FiringParts'
<1> DEFINE r == RuleOf[j]
<1>1. /\ r \in Rules
      /\ stamp[j] \in Nat
      /\ Cooldown \in [Rules -> Nat]
      /\ matches \subseteq Rows
      /\ lastFired \in [Rules -> Nat \cup {None}] /\ None \notin Nat
      /\ stamp' = stamp
      /\ pc' = [ pc EXCEPT ![j] = "committed" ] /\ pc \in [Jobs -> Places]
      /\ pc[j] = "acting"
  BY FiringAssumption DEF TypeOK, Commit, Goto
<1>2. /\ matches' = matches \cup { Match(j) }
      /\ effects' = effects \cup {j}
      /\ lastFired' = [ lastFired EXCEPT ![r] = stamp[j] ]
  BY DEF Commit
<1>3. Match(j).rule = r /\ Match(j).stamp = stamp[j] /\ Match(j).job = j
  BY DEF Match
<1>4. ASSUME NEW m \in matches, m.rule = r
      PROVE  m.stamp + Cooldown[r] <= stamp[j]
  <2>1. m.stamp \in Nat /\ lastFired[r] \in Nat /\ m.stamp <= lastFired[r]
    BY <1>1, <1>4 DEF FiringParts, LastFiredIsLatest, Rows
  <2>2. lastFired[r] + Cooldown[r] <= stamp[j]
    BY <1>1, <2>1 DEF FiringParts, ClaimStands, CooldownOver
  <2>3. Cooldown[r] \in Nat
    BY <1>1
  <2> QED
    BY <1>1, <2>1, <2>2, <2>3
<1>5. ASSUME NEW i \in Jobs, pc'[i] = "acting"
      PROVE  i # j /\ pc[i] = "acting" /\ RuleOf[i] # r
  BY <1>1, <1>5 DEF TypeOK
<1>6. ClaimStands'
  BY <1>1, <1>2, <1>5, FiringAssumption DEF FiringParts, ClaimStands, CooldownOver
<1>7. LastFiredIsLatest'
  <2>1. SUFFICES ASSUME NEW m \in matches'
                 PROVE  lastFired'[m.rule] # None /\ m.stamp <= lastFired'[m.rule]
    BY DEF LastFiredIsLatest
  <2>2. CASE m \in matches /\ m.rule = r
    <3>1. m.stamp \in Nat /\ Cooldown[r] \in Nat
      BY <1>1, <2>2 DEF Rows
    <3> QED
      BY <1>1, <1>2, <1>4, <2>2, <3>1
  <2>3. CASE m \in matches /\ m.rule # r
    BY <1>1, <1>2, <2>3 DEF FiringParts, LastFiredIsLatest, Rows
  <2>4. CASE m = Match(j)
    BY <1>1, <1>2, <1>3, <2>4
  <2> QED
    BY <1>2, <2>2, <2>3, <2>4
<1>8. FireIsAtomic'
  <2>1. effects' = { m.job : m \in matches' }
    BY <1>2, <1>3 DEF FiringParts, FireIsAtomic
  <2>2. ASSUME NEW q \in Rules, lastFired'[q] = None
        PROVE  \A m \in matches' : m.rule # q
    BY <1>1, <1>2, <1>3, <2>2 DEF FiringParts, FireIsAtomic
  <2>3. ASSUME NEW q \in Rules, lastFired'[q] # None
        PROVE  \E m \in matches' : m.rule = q /\ m.stamp = lastFired'[q]
    BY <1>1, <1>2, <1>3, <2>3 DEF FiringParts, FireIsAtomic
  <2> QED
    BY <2>1, <2>2, <2>3 DEF FireIsAtomic
<1>9. CooldownRespected'
  BY <1>2, <1>3, <1>4 DEF FiringParts, CooldownRespected
<1>10. SkippedOnlyForAFire'
  BY <1>1, <1>2 DEF FiringParts, SkippedOnlyForAFire
<1> QED
  BY <1>6, <1>7, <1>8, <1>9, <1>10 DEF FiringParts

(* The invariant is inductive.                                             *)
LEMMA FiringNextInv == TypeOK /\ TypeOK' /\ FiringParts /\ [Next]_vars => FiringParts'
<1> SUFFICES ASSUME TypeOK, TypeOK', FiringParts, [Next]_vars PROVE FiringParts'
  OBVIOUS
<1> USE DEF Goto
<1>1. CASE UNCHANGED << lastFired, effects, matches, pc, stamp >>
  BY <1>1 DEF FiringParts, ClaimStands, CooldownOver, LastFiredIsLatest, FireIsAtomic,
              CooldownRespected, SkippedOnlyForAFire
<1>2. CASE Clock \/ (\E r \in Rules : Deactivate(r)) \/ UNCHANGED vars
  BY <1>1, <1>2 DEF Clock, Deactivate, vars
<1>3. ASSUME NEW j \in Jobs, Evaluate(j) PROVE FiringParts'
  <2>1. RuleOf[j] \in Rules
    BY FiringAssumption
  <2>2. /\ UNCHANGED << lastFired, effects, matches >>
        /\ \A i \in Jobs \ {j} : pc'[i] = pc[i] /\ stamp'[i] = stamp[i]
        /\ pc'[j] # "acting"
    BY <1>3 DEF Evaluate, TypeOK
  <2>3. pc'[j] = "cooldown_skipped" => OnCooldown(RuleOf[j], stamp'[j])
    BY <1>3 DEF Evaluate, TypeOK
  <2>4. OnCooldown(RuleOf[j], stamp'[j]) => ~CooldownOver(RuleOf[j], stamp'[j])
    BY <2>1, FiringAssumption DEF OnCooldown, CooldownOver, TypeOK
  <2> QED
    BY <2>2, <2>3, <2>4, FiringQuietStep
<1>4. ASSUME NEW j \in Jobs, Start(j) PROVE FiringParts'
  BY <1>4, FiringQuietStep DEF Start, TypeOK
<1>5. ASSUME NEW j \in Jobs, Claim(j) PROVE FiringParts'
  BY <1>5, FiringQuietStep DEF Claim, TypeOK
<1>6. ASSUME NEW j \in Jobs, LoseClaim(j) PROVE FiringParts'
  BY <1>6, FiringQuietStep DEF LoseClaim, TypeOK
<1>7. ASSUME NEW j \in Jobs, Reject(j) PROVE FiringParts'
  BY <1>7, FiringQuietStep DEF Reject, Undo, TypeOK
<1>8. ASSUME NEW j \in Jobs, ActionFails(j) PROVE FiringParts'
  BY <1>8, FiringQuietStep DEF ActionFails, Undo, TypeOK
<1>9. ASSUME NEW j \in Jobs, StatementFails(j) PROVE FiringParts'
  BY <1>9, FiringQuietStep DEF StatementFails, Undo, TypeOK
<1>10. ASSUME NEW j \in Jobs, EnqueueFusion(j) PROVE FiringParts'
  BY <1>10, FiringQuietStep DEF EnqueueFusion, TypeOK
<1>11. ASSUME NEW j \in Jobs, EnqueueFails(j) PROVE FiringParts'
  BY <1>11, FiringQuietStep DEF EnqueueFails, TypeOK
<1>12. ASSUME NEW j \in Jobs, Crash(j) PROVE FiringParts'
  BY <1>12, FiringQuietStep DEF Crash, Undo, TypeOK
<1> QED
  BY <1>2, <1>3, <1>4, <1>5, <1>6, <1>7, <1>8, <1>9, <1>10, <1>11, <1>12, FiringCommitStep DEF Next

(* The inductive invariant holds for every instance.                       *)
THEOREM FiringInvariance == Spec => []FiringInv
<1>1. Init => FiringInv
  BY FiringInitType, FiringInitInv DEF FiringInv, FiringParts
<1>2. FiringInv /\ [Next]_vars => FiringInv'
  BY FiringNextType, FiringNextInv DEF FiringInv, FiringParts
<1> QED
  BY <1>1, <1>2, PTL DEF Spec

(* Any two fires of a rule are at least its cooldown apart                 *)
(* (RuleFiringService.call).                                               *)
THEOREM FiresAreSpaced == Spec => []CooldownRespected
<1>1. FiringInv => CooldownRespected
  BY DEF FiringInv
<1> QED
  BY <1>1, FiringInvariance, PTL

(* Claim, actions and match happen together or not at all.                 *)
THEOREM NoMiddleState == Spec => []FireIsAtomic
<1>1. FiringInv => FireIsAtomic
  BY DEF FiringInv
<1> QED
  BY <1>1, FiringInvariance, PTL

(* No signal is passed over for a cooldown that no fire started.           *)
THEOREM NoFireLostToRollback == Spec => []SkippedOnlyForAFire
<1>1. FiringInv => SkippedOnlyForAFire
  BY DEF FiringInv
<1> QED
  BY <1>1, FiringInvariance, PTL
-----------------------------------------------------------------------------
(* A match names its job's rule and signal.                                *)
MatchesAreOfTheirJobs ==
  \A m \in matches : m.rule = RuleOf[m.job] /\ m.signal = SignalOf[m.job]

(* Only a commit records a match or carries an action out.                 *)
LEMMA OnlyCommitActs ==
  ASSUME [Next]_vars, \A j \in Jobs : ~Commit(j)
  PROVE  UNCHANGED << effects, matches >>
  BY DEF Next, vars, Clock, Deactivate, Evaluate, Start, Claim, LoseClaim, Reject, ActionFails,
     StatementFails, EnqueueFusion, EnqueueFails, Crash, Undo

LEMMA ActsOnceStep ==
  FiringInv /\ MatchesAreOfTheirJobs /\ ActsOncePerSignal /\ [Next]_vars
    => MatchesAreOfTheirJobs' /\ ActsOncePerSignal'
<1> SUFFICES ASSUME FiringInv, MatchesAreOfTheirJobs, ActsOncePerSignal, [Next]_vars
             PROVE  MatchesAreOfTheirJobs' /\ ActsOncePerSignal'
  OBVIOUS
<1>1. ASSUME NEW j \in Jobs, Commit(j)
      PROVE  MatchesAreOfTheirJobs' /\ ActsOncePerSignal'
  <2>1. /\ matches' = matches \cup { Match(j) } /\ effects' = effects \cup {j}
        /\ Match(j).job = j /\ Match(j).rule = RuleOf[j] /\ Match(j).signal = SignalOf[j]
    BY <1>1 DEF Commit, Match
  <2>2. ASSUME NEW i \in effects, RuleOf[i] = RuleOf[j], SignalOf[i] = SignalOf[j]
        PROVE  FALSE
    <3>1. PICK m \in matches : m.job = i
      BY DEF FiringInv, FireIsAtomic
    <3>2. m.rule = RuleOf[j] /\ m.signal = SignalOf[j]
      BY <2>2, <3>1 DEF MatchesAreOfTheirJobs
    <3> QED
      BY <1>1, <3>2 DEF Commit, RecordedBefore
  <2>3. MatchesAreOfTheirJobs'
    BY <2>1 DEF MatchesAreOfTheirJobs
  <2>4. ActsOncePerSignal'
    BY <2>1, <2>2 DEF ActsOncePerSignal
  <2> QED
    BY <2>3, <2>4
<1>2. CASE \A j \in Jobs : ~Commit(j)
  BY <1>2, OnlyCommitActs DEF MatchesAreOfTheirJobs, ActsOncePerSignal
<1> QED
  BY <1>1, <1>2

(* However often a signal is evaluated and its jobs run again, a rule acts *)
(* on it once: a second match rolls its job's actions back                 *)
(* (RuleFiringService.call, the unique index of signal_rule_matches).      *)
THEOREM ActsOnce == Spec => []ActsOncePerSignal
<1>1. Init => MatchesAreOfTheirJobs /\ ActsOncePerSignal
  BY DEF Init, MatchesAreOfTheirJobs, ActsOncePerSignal
<1> QED
  BY <1>1, ActsOnceStep, FiringInvariance, PTL DEF Spec
=============================================================================
