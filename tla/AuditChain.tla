------------------------------ MODULE AuditChain ------------------------------
(***************************************************************************)
(* The audit log of Resilience: Audit::EventWriter, called by every        *)
(* service that mutates state, and the Postgres transactions it runs in.   *)
(*                                                                         *)
(* A writer is a web request or a background job holding one database      *)
(* connection.  Most services open a transaction, UPDATE an entity (which  *)
(* takes its row lock until the end of the transaction), write one audit   *)
(* event, perhaps repeat for further entities, and commit.  The services   *)
(* of the Detached entities (User rows changed by Mfa::EnrollmentService)  *)
(* commit the UPDATE first and write the event in a second transaction.    *)
(*                                                                         *)
(* EventWriter takes the organisation's advisory transaction lock, reads   *)
(* the tip of the organisation's chain, and inserts a row that continues   *)
(* it.  Postgres aborts one transaction of every cycle of lock waits.      *)
(*                                                                         *)
(* Abstracted: actor, event type, correlation id, snapshots' fields (an    *)
(* entity's state is the number of mutations it has seen, its version),    *)
(* occurred_at (set in the same step as sequence), the 32 bytes of a hash  *)
(* (the term that was hashed: SHA-256 is taken to be injective), and the   *)
(* backoff sleep.                                                          *)
(***************************************************************************)
EXTENDS Naturals, FiniteSets

CONSTANTS
  Writers,       \* database connections: request threads and job workers
  Entities,      \* auditable records
  Detached,      \* entities whose service audits after its own COMMIT
  Chains,        \* one per organisation, and the global (nil) chain
  ChainOf,       \* the chain an entity's events belong to
  None,          \* no writer holds the lock
  MaxAttempts,   \* EventWriter::MAX_DEADLOCK_RETRIES
  MaxWrites,     \* bound: events one transaction may write
  MaxSequence    \* bound: no mutation starts once this many numbers are drawn,
                 \* and a detached entity is mutated this many times

ASSUME ConstantsAssumption ==
  /\ Detached \subseteq Entities
  /\ ChainOf \in [Entities -> Chains]
  /\ Writers # {}
  /\ None \notin Writers
  /\ MaxAttempts \in Nat \ {0}
  /\ MaxWrites \in Nat
  /\ MaxSequence \in Nat

VARIABLES
  events,      \* committed rows of audit_events
  version,     \* committed mutations of each entity
  nextval,     \* next value of audit_events_sequence_seq (never rolled back)
  chainOwner,  \* holder of each chain's pg_advisory_xact_lock
  pc,          \* where each writer is
  outer,       \* does the writer's EventWriter call run in a caller's transaction?
  write,       \* the mutation the writer is auditing: its entity and version
  attempt,     \* attempts of the current EventWriter.write
  tip,         \* the chain tip the writer has read
  pending,     \* audit rows inserted by the writer's open transaction
  updates      \* UPDATEs of each entity by the writer's open transaction

vars == << events, version, nextval, chainOwner, pc, outer, write, attempt,
           tip, pending, updates >>

txVars == << pending, updates >>

-----------------------------------------------------------------------------
(* Rows, hashes and the chain tip *)

Genesis(c) == << "genesis", c >>

Compute(c, p, prev, s, e, v) == << "row", c, p, prev, s, e, v >>

(* Mutant: the position is not advanced past the tip's.                    *)
NewRowAtTip(c, t, s, e, v) ==
  [ chain     |-> c,
    position  |-> t.position,
    prev_hash |-> t.row_hash,
    row_hash  |-> Compute(c, t.position, t.row_hash, s, e, v),
    sequence  |-> s,
    entity    |-> e,
    version   |-> v ]

NewRow(c, t, s, e, v) ==
  [ chain     |-> c,
    position  |-> t.position + 1,
    prev_hash |-> t.row_hash,
    row_hash  |-> Compute(c, t.position + 1, t.row_hash, s, e, v),
    sequence  |-> s,
    entity    |-> e,
    version   |-> v ]

RowsIn(rows, c) == { r \in rows : r.chain = c }

(* ORDER BY chain_position DESC LIMIT 1, or the genesis sentinel.          *)
Tips(rows, c) ==
  IF RowsIn(rows, c) = {}
  THEN { [position |-> 0, row_hash |-> Genesis(c)] }
  ELSE { [position |-> r.position, row_hash |-> r.row_hash] :
           r \in { r \in RowsIn(rows, c) :
                     \A q \in RowsIn(rows, c) : q.position <= r.position } }

(* READ COMMITTED: committed rows and the transaction's own.               *)
Visible(w) == events \cup pending[w]

-----------------------------------------------------------------------------
(* Locks *)

(* Mutant: EventWriter reads the tip without taking the advisory lock.     *)
ChainFreeUnlocked(w, c) == TRUE

ChainFree(w, c) == chainOwner[c] \in {None, w}

(* Mutant: the version audited is read without the row lock.               *)
RowFreeUnlocked(w, e) == TRUE

(* A row is locked by the transaction that has updated it.                 *)
RowFree(w, e) == \A u \in Writers \ {w} : updates[u][e] = 0

WaitsFor(w) ==
  CASE pc[w] = "lock"   -> { chainOwner[ChainOf[write[w].entity]] } \ {None, w}
    [] pc[w] = "update" -> { u \in Writers \ {w} : updates[u][write[w].entity] > 0 }
    [] OTHER            -> {}

(* Every lock is exclusive, so a writer waits for at most one other and a  *)
(* cycle of waits is a set of writers that waits for exactly itself.       *)
InWaitCycle(w) ==
  \E S \in SUBSET Writers :
    /\ w \in S
    /\ \A u \in S : WaitsFor(u) # {}
    /\ UNION { WaitsFor(u) : u \in S } = S

(* Mutant: a session lock (pg_advisory_lock) outlives the transaction.     *)
ReleaseLocksOfSession(w) == UNCHANGED chainOwner

ReleaseLocks(w) ==
  chainOwner' = [ c \in Chains |-> IF chainOwner[c] = w THEN None ELSE chainOwner[c] ]

(* The call has returned: its local variables are gone.                    *)
NoWrite == [ entity |-> None, version |-> 0 ]
NoTip   == [ position |-> 0, row_hash |-> None ]

Finish(w) ==
  /\ pc' = [ pc EXCEPT ![w] = "idle" ]
  /\ outer' = [ outer EXCEPT ![w] = TRUE ]
  /\ write' = [ write EXCEPT ![w] = NoWrite ]
  /\ attempt' = [ attempt EXCEPT ![w] = 0 ]
  /\ tip' = [ tip EXCEPT ![w] = NoTip ]

(* What Postgres does when it aborts the transaction of w.                 *)
DiscardTransaction(w) ==
  /\ ReleaseLocks(w)
  /\ pending' = [ pending EXCEPT ![w] = {} ]
  /\ updates' = [ updates EXCEPT ![w] = [ e \in Entities |-> 0 ] ]
  /\ UNCHANGED << events, version, nextval >>

-----------------------------------------------------------------------------
(* The service's transaction *)

Begin(w) ==
  /\ pc[w] = "idle"
  /\ pc' = [ pc EXCEPT ![w] = "body" ]
  /\ outer' = [ outer EXCEPT ![w] = TRUE ]
  /\ UNCHANGED << events, version, nextval, chainOwner, write, attempt, tip, txVars >>

(* The service reaches update! / lock! on an entity.                       *)
RequestUpdate(w, e) ==
  /\ pc[w] = "body"
  /\ outer[w]
  /\ e \notin Detached
  /\ Cardinality(pending[w]) < MaxWrites
  /\ nextval <= MaxSequence
  /\ pc' = [ pc EXCEPT ![w] = "update" ]
  /\ write' = [ write EXCEPT ![w] = [ entity |-> e, version |-> 0 ] ]
  /\ UNCHANGED << events, version, nextval, chainOwner, outer, attempt, tip, txVars >>

(* The row lock is granted, the UPDATE runs, and EventWriter.write begins. *)
Update(w) ==
  LET e == write[w].entity
      v == version[e] + updates[w][e] + 1
  IN  /\ pc[w] = "update"
      /\ RowFree(w, e)
      /\ pc' = [ pc EXCEPT ![w] = "lock" ]
      /\ write' = [ write EXCEPT ![w] = [ entity |-> e, version |-> v ] ]
      /\ updates' = [ updates EXCEPT ![w][e] = @ + 1 ]
      /\ attempt' = [ attempt EXCEPT ![w] = 1 ]
      /\ UNCHANGED << events, version, nextval, chainOwner, outer, tip, pending >>

(* confirm_enrollment and disable!: the UPDATE commits on its own and      *)
(* EventWriter.write opens a transaction of its own.                       *)
DetachedUpdate(w, e) ==
  /\ pc[w] = "idle"
  /\ e \in Detached
  /\ version[e] < MaxSequence
  /\ RowFree(w, e)
  /\ version' = [ version EXCEPT ![e] = @ + 1 ]
  /\ write' = [ write EXCEPT ![w] = [ entity |-> e, version |-> version[e] + 1 ] ]
  /\ attempt' = [ attempt EXCEPT ![w] = 1 ]
  /\ outer' = [ outer EXCEPT ![w] = FALSE ]
  /\ pc' = [ pc EXCEPT ![w] = "lock" ]
  /\ UNCHANGED << events, nextval, chainOwner, tip, txVars >>

Commit(w) ==
  /\ pc[w] = "body"
  /\ events' = events \cup pending[w]
  /\ version' = [ e \in Entities |-> version[e] + updates[w][e] ]
  /\ ReleaseLocks(w)
  /\ pending' = [ pending EXCEPT ![w] = {} ]
  /\ updates' = [ updates EXCEPT ![w] = [ e \in Entities |-> 0 ] ]
  /\ Finish(w)
  /\ UNCHANGED nextval

(* The service raises, the worker is killed or the connection drops.       *)
Abort(w) ==
  /\ pc[w] # "idle"
  /\ DiscardTransaction(w)
  /\ Finish(w)

(* update! raises Deadlocked: the service's transaction is rolled back.    *)
DeadlockInService(w) ==
  /\ pc[w] = "update"
  /\ InWaitCycle(w)
  /\ DiscardTransaction(w)
  /\ Finish(w)

-----------------------------------------------------------------------------
(* Audit::EventWriter.write *)

AcquireChainLock(w) ==
  LET c == ChainOf[write[w].entity]
  IN  /\ pc[w] = "lock"
      /\ ChainFree(w, c)
      /\ chainOwner' = [ chainOwner EXCEPT ![c] = w ]
      /\ pc' = [ pc EXCEPT ![w] = "tip" ]
      /\ UNCHANGED << events, version, nextval, outer, write, attempt, tip, txVars >>

ReadTip(w) ==
  /\ pc[w] = "tip"
  /\ \E t \in Tips(Visible(w), ChainOf[write[w].entity]) :
       tip' = [ tip EXCEPT ![w] = t ]
  /\ pc' = [ pc EXCEPT ![w] = "insert" ]
  /\ UNCHANGED << events, version, nextval, chainOwner, outer, write, attempt, txVars >>

(* nextval, ChainHasher.compute and create!.  Only the lock holder inserts *)
(* into the chain, so drawing the number in the same step loses nothing.   *)
Insert(w) ==
  /\ pc[w] = "insert"
  /\ pending' = [ pending EXCEPT ![w] = @ \cup
       { NewRow(ChainOf[write[w].entity], tip[w], nextval,
                write[w].entity, write[w].version) } ]
  /\ nextval' = nextval + 1
  /\ pc' = [ pc EXCEPT ![w] = "body" ]
  /\ write' = [ write EXCEPT ![w] = NoWrite ]
  /\ attempt' = [ attempt EXCEPT ![w] = 0 ]
  /\ tip' = [ tip EXCEPT ![w] = NoTip ]
  /\ UNCHANGED << events, version, chainOwner, outer, updates >>

(* pg_advisory_xact_lock raises Deadlocked inside EventWriter: Postgres    *)
(* has aborted the whole transaction; the rescue decides whether to retry. *)
DeadlockInWriter(w) ==
  /\ pc[w] = "lock"
  /\ InWaitCycle(w)
  /\ DiscardTransaction(w)
  /\ pc' = [ pc EXCEPT ![w] = IF attempt[w] < MaxAttempts THEN "retry" ELSE "failed" ]
  /\ UNCHANGED << outer, write, attempt, tip >>

(* retry: inside a caller's transaction the first statement raises         *)
(* InFailedSqlTransaction, which no rescue in write catches.               *)
Retry(w) ==
  /\ pc[w] = "retry"
  /\ attempt' = [ attempt EXCEPT ![w] = @ + 1 ]
  /\ pc' = [ pc EXCEPT ![w] = IF outer[w] THEN "failed" ELSE "lock" ]
  /\ UNCHANGED << events, version, nextval, chainOwner, outer, write, tip, txVars >>

-----------------------------------------------------------------------------
Init ==
  /\ events = {}
  /\ version = [ e \in Entities |-> 0 ]
  /\ nextval = 1
  /\ chainOwner = [ c \in Chains |-> None ]
  /\ pc = [ w \in Writers |-> "idle" ]
  /\ outer = [ w \in Writers |-> TRUE ]
  /\ write = [ w \in Writers |-> NoWrite ]
  /\ attempt = [ w \in Writers |-> 0 ]
  /\ tip = [ w \in Writers |-> NoTip ]
  /\ pending = [ w \in Writers |-> {} ]
  /\ updates = [ w \in Writers |-> [ e \in Entities |-> 0 ] ]

Next ==
  \E w \in Writers :
    \/ Begin(w)
    \/ \E e \in Entities : RequestUpdate(w, e) \/ DetachedUpdate(w, e)
    \/ Update(w)
    \/ Commit(w)
    \/ Abort(w)
    \/ DeadlockInService(w)
    \/ AcquireChainLock(w)
    \/ ReadTip(w)
    \/ Insert(w)
    \/ DeadlockInWriter(w)
    \/ Retry(w)

Spec == Init /\ [][Next]_vars

-----------------------------------------------------------------------------
(* Fairness: Postgres grants a lock to its longest waiter and resolves     *)
(* every wait cycle after deadlock_timeout; Ruby code between statements   *)
(* runs on, and an exception reaches the service's rollback.               *)
Fairness ==
  \A w \in Writers :
    /\ SF_vars(Update(w))
    /\ SF_vars(AcquireChainLock(w))
    /\ WF_vars(ReadTip(w))
    /\ WF_vars(Insert(w))
    /\ WF_vars(Commit(w))
    /\ WF_vars(DeadlockInService(w) \/ DeadlockInWriter(w))
    /\ WF_vars(Retry(w))
    /\ WF_vars(pc[w] = "failed" /\ Abort(w))

FairSpec == Spec /\ Fairness

-----------------------------------------------------------------------------
(* Type invariant *)

Places == { "idle", "body", "update", "lock", "tip", "insert", "retry", "failed" }

RowOK(r) ==
  /\ r.chain \in Chains
  /\ r.position \in Nat \ {0}
  /\ r.sequence \in Nat
  /\ r.entity \in Entities
  /\ r.version \in Nat \ {0}
  /\ r.chain = ChainOf[r.entity]

(* Every variable has its shape; a writer that is auditing a mutation      *)
(* knows its entity, and one inside a caller's transaction is not          *)
(* auditing a detached entity (EventWriter and its callers).               *)
TypeOK ==
  /\ \A r \in events : RowOK(r)
  /\ version \in [Entities -> Nat]
  /\ nextval \in Nat \ {0}
  /\ chainOwner \in [Chains -> Writers \cup {None}]
  /\ pc \in [Writers -> Places]
  /\ outer \in [Writers -> BOOLEAN]
  /\ write \in [Writers -> [entity : Entities \cup {None}, version : Nat]]
  /\ attempt \in [Writers -> Nat]
  /\ DOMAIN tip = Writers
  /\ \A w \in Writers : tip[w].position \in Nat
  /\ DOMAIN pending = Writers
  /\ \A w \in Writers : \A r \in pending[w] : RowOK(r)
  /\ updates \in [Writers -> [Entities -> Nat]]
  /\ \A w \in Writers :
       /\ pc[w] \in { "update", "lock", "tip", "insert", "retry" } => write[w].entity \in Entities
       /\ pc[w] \in { "lock", "tip", "insert", "retry" } => write[w].version > 0

-----------------------------------------------------------------------------
(* Safety *)

(* What ChainVerifier.verify_organization accepts.  Walking the rows in    *)
(* position order and comparing each position with its index is, for a     *)
(* finite chain, uniqueness of positions and a predecessor for each one.   *)
Verifies(rows, c) ==
  LET chain == RowsIn(rows, c)
  IN  /\ \A r, q \in chain : r.position = q.position => r = q
      /\ \A r \in chain :
           \/ r.position = 1 /\ r.prev_hash = Genesis(c)
           \/ \E q \in chain : q.position + 1 = r.position /\ q.row_hash = r.prev_hash
      /\ \A r \in chain :
           r.row_hash = Compute(r.chain, r.position, r.prev_hash, r.sequence,
                                r.entity, r.version)

(* At every moment, whatever transactions are in flight or were aborted,   *)
(* the verifier accepts every chain (VerifyAllChainsJob raises no alert).  *)
ChainIntact == \A c \in Chains : Verifies(events, c)

(* The unique indexes on (organization_id, chain_position) are never what  *)
(* keeps the chain linear: no two rows, committed or in flight, claim the  *)
(* same position, so no writer ever fails with RecordNotUnique.            *)
PositionsUnique ==
  LET rows == events \cup UNION { pending[w] : w \in Writers }
  IN  \A r, q \in rows : (r.chain = q.chain /\ r.position = q.position) => r = q

(* Within a chain, sequence and chain_position order the rows alike:       *)
(* replay, which sorts by (occurred_at, sequence), and the verifier agree  *)
(* on history although numbers are drawn by concurrent transactions.       *)
SequenceFollowsChain ==
  \A r, q \in events :
    (r.chain = q.chain /\ r.position < q.position) => r.sequence < q.sequence

RowsFor(rows, e) == { r \in rows : r.entity = e }

(* The events of an entity are its history: one per committed mutation,    *)
(* none missing, none twice.                                               *)
HistoryOf(e) ==
  /\ { r.version : r \in RowsFor(events, e) } = 1..version[e]
  /\ \A r, q \in RowsFor(events, e) : r.version = q.version => r = q

(* For every entity audited inside the service's transaction, at every     *)
(* moment: the events are exactly the committed mutations, and replay's    *)
(* order (sequence) is the order in which the mutations took effect.       *)
AuditMatchesData ==
  \A e \in Entities \ Detached :
    /\ HistoryOf(e)
    /\ \A r, q \in RowsFor(events, e) : r.version < q.version => r.sequence < q.sequence

(* README: every mutation is audited in its own transaction.  Weakened to  *)
(* moments when no call is between its UPDATE and its event.               *)
EveryMutationAudited ==
  \A e \in Entities :
    (\A w \in Writers : write[w].entity # e) => HistoryOf(e)

(* The comment on MAX_DEADLOCK_RETRIES: after a deadlock "the retry starts *)
(* fresh, re-resolves the chain tip, and writes a new chain_position       *)
(* cleanly"; a write gives up only when its attempts are used up.          *)
RetryStartsFresh ==
  \A w \in Writers : pc[w] = "failed" => attempt[w] >= MaxAttempts

(* Every call returns: waits for row locks and chain locks end, including  *)
(* those of transactions that touch several entities and chains in         *)
(* opposite orders.                                                        *)
CallsReturn == \A w \in Writers : pc[w] # "idle" ~> pc[w] = "idle"

-----------------------------------------------------------------------------
(* Refinement: the committed rows, without hashes and sequence numbers,    *)
(* are the abstract log.                                                   *)
Entries == { [ chain |-> r.chain, position |-> r.position,
               entity |-> r.entity, version |-> r.version ] : r \in events }

Log == INSTANCE AuditLog WITH log <- Entries

(* Concurrent, failing, retrying transactions look like single atomic      *)
(* steps that change data and append its events together.                  *)
ImplementsLog == Log!Spec

-----------------------------------------------------------------------------
(* The inductive invariant behind the theorems of AuditChainProofs.        *)

(* A writer with rows in flight, or between its lock and its insert, owns  *)
(* the chain: the lock is kept to the end of the transaction.              *)
OwnsItsChains ==
  \A w \in Writers :
    /\ \A r \in pending[w] : chainOwner[r.chain] = w
    /\ pc[w] \in { "tip", "insert" } => chainOwner[ChainOf[write[w].entity]] = w

(* The chain verifies for an outside reader and for every transaction's    *)
(* own view, so it still does if that transaction commits or aborts.       *)
ViewsVerify ==
  \A c \in Chains :
    /\ Verifies(events, c)
    /\ \A w \in Writers : Verifies(Visible(w), c)

(* The tip a writer has read stays the tip of its view until it inserts.   *)
TipIsCurrent ==
  \A w \in Writers :
    pc[w] = "insert" => tip[w] \in Tips(Visible(w), ChainOf[write[w].entity])

(* In every view sequence follows position, and all numbers were drawn.    *)
NumbersDrawnInOrder ==
  \A w \in Writers :
    /\ \A r \in Visible(w) : r.sequence < nextval
    /\ \A r, q \in Visible(w) :
         (r.chain = q.chain /\ r.position < q.position) => r.sequence < q.sequence

(* The advisory lock, held from before the tip is read to the end of the   *)
(* transaction, makes every view of every chain verifiable.                *)
ChainInv ==
  /\ TypeOK
  /\ OwnsItsChains
  /\ ViewsVerify
  /\ TipIsCurrent
  /\ NumbersDrawnInOrder

-----------------------------------------------------------------------------
(* The inductive invariant behind AuditMatchesData and ImplementsLog.      *)

Auditing == { "lock", "tip", "insert" }

(* A row is updated by one open transaction at most.                       *)
RowLocksHold ==
  \A u, w \in Writers, e \in Entities :
    updates[u][e] > 0 /\ updates[w][e] > 0 => u = w

(* A detached entity is audited outside the caller's transaction, any      *)
(* other inside it; a transaction that has ended holds nothing.            *)
CallersKnown ==
  \A w \in Writers :
    /\ pc[w] \in Auditing \cup { "update", "retry" } =>
         (outer[w] <=> write[w].entity \notin Detached)
    /\ pc[w] \in { "idle", "retry", "failed" } =>
         pending[w] = {} /\ \A e \in Entities : updates[w][e] = 0

(* The version a writer audits is the committed one and its own updates.   *)
VersionIsCurrent ==
  \A w \in Writers :
    LET e == write[w].entity
    IN pc[w] \in Auditing /\ e \notin Detached =>
         updates[w][e] > 0 /\ write[w].version = version[e] + updates[w][e]

(* The last version of an entity that the transaction has audited: all but *)
(* the update that its writer is about to audit.                           *)
Audited(w, e) ==
  IF pc[w] \in Auditing /\ write[w].entity = e
  THEN version[e] + updates[w][e] - 1 ELSE version[e] + updates[w][e]

HistoryUpTo(rows, e, n) ==
  /\ { r.version : r \in RowsFor(rows, e) } = 1..n
  /\ \A r, q \in RowsFor(rows, e) :
       /\ r.version = q.version => r = q
       /\ r.version < q.version => r.sequence < q.sequence

ViewsAreHistories ==
  \A e \in Entities \ Detached :
    /\ HistoryUpTo(events, e, version[e])
    /\ \A w \in Writers : HistoryUpTo(Visible(w), e, Audited(w, e))

(* The rows in flight extend the committed chain.                          *)
PendingIsAhead ==
  \A w \in Writers : \A r \in pending[w], q \in events :
    r.chain = q.chain => q.position < r.position

(* The row lock, held from the UPDATE to the end of the transaction, makes *)
(* every transaction's view of an entity's events its history so far.      *)
HistoryInv ==
  /\ RowLocksHold
  /\ CallersKnown
  /\ VersionIsCurrent
  /\ ViewsAreHistories
  /\ PendingIsAhead
=============================================================================
