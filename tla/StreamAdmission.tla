--------------------------- MODULE StreamAdmission ---------------------------
(***************************************************************************)
(* Admission of live streams: Sse::StreamAdmission counts the leases of a  *)
(* user and of a network address under one advisory lock and writes a      *)
(* lease; the stream's heartbeat thread keeps the lease fresh; leases are  *)
(* deleted when a stream closes, by the next admission once they have      *)
(* expired, and by Sse::LeaseCleanupJob.  Web machines share the table.    *)
(*                                                                         *)
(* A unit of time is at least the heartbeat's period (25 s) and at most    *)
(* the refresh margin (60 s), so a live heartbeat looks at its lease once  *)
(* per unit.  Statements end within Wait (statement_timeout, 30 s).        *)
(*                                                                         *)
(* Abstracted: what is streamed; the web machines' clocks agree.           *)
(***************************************************************************)
EXTENDS Naturals, FiniteSets

CONSTANTS
  Streams,    \* requests for a stream, each made once
  UserOf,
  IpOf,
  None,       \* no lease row; nobody holds the advisory lock
  UserLimit,  \* SSE_MAX_STREAMS_PER_USER
  IpLimit,    \* SSE_MAX_STREAMS_PER_IP
  Ttl,        \* SSE_STREAM_LEASE_TTL_SECONDS
  Margin,     \* LEASE_REFRESH_MARGIN
  Wait,       \* how long an admission's statements may take
  MaxTime     \* bound: the clock stops here

ASSUME ConstantsAssumption ==
  /\ IsFiniteSet(Streams)
  /\ None \notin Streams /\ None \notin Nat
  /\ UserLimit \in Nat \ {0} /\ IpLimit \in Nat \ {0}
  /\ Ttl \in Nat \ {0} /\ Margin \in Nat \ {0}
  /\ Wait \in Nat /\ Wait < Ttl
  /\ MaxTime \in Nat

VARIABLES
  now,
  pc,        \* where each request is, or how it ended
  stamp,     \* the time its admission started from
  lockOwner, \* who holds ADVISORY_LOCK_KEY
  doomed,    \* rows deleted by the holder's open transaction
  expires,   \* sse_stream_leases: expires_at of each stream's row
  handle,    \* expires_at in the stream's LeaseHandle
  beating    \* is the stream's heartbeat thread alive?

vars == << now, pc, stamp, lockOwner, doomed, expires, handle, beating >>

-----------------------------------------------------------------------------
Leases == { s \in Streams : expires[s] # None }

UserLeases(s) == { l \in Leases : UserOf[l] = UserOf[s] }

IpLeases(s) == { l \in Leases : IpOf[l] = IpOf[s] }

(* active_at(now) as a transaction sees it that has deleted the doomed.    *)
ActiveAt(t) == { l \in Leases \ doomed : expires[l] > t }

(* expired_at(now)                                                         *)
ExpiredAt(t) == { l \in Leases : expires[l] <= t }

(* Mutant: the admission does not take the advisory lock.                  *)
LockFreeUnlocked == TRUE

LockFree == lockOwner = None

(* Mutant: the lock belongs to the session, and a denial keeps it.         *)
EndTransactionOnCommit(s) ==
  /\ doomed' = {}
  /\ lockOwner' = IF pc'[s] = "open" THEN None ELSE lockOwner

(* COMMIT or ROLLBACK: the advisory lock and the row locks are released.   *)
EndTransaction(s) ==
  /\ doomed' = {}
  /\ lockOwner' = IF lockOwner = s THEN None ELSE lockOwner

(* Mutant: a lease is refreshed only once it has expired.                  *)
NeedsRefreshLate(s) == handle[s] <= now

(* LeaseHandle#refresh_if_needed! goes on to the UPDATE.                   *)
NeedsRefresh(s) == handle[s] <= now + Margin

(* Mutant: the job deletes nothing that a stream wrote.                    *)
ReclaimNothing(l) == expires[l]

Reclaim(l) == IF expires[l] # None /\ expires[l] <= now THEN None ELSE expires[l]

-----------------------------------------------------------------------------
(* StreamAdmission#acquire                                                 *)

Admitting == { "waiting", "locked", "purged", "counted" }

(* Time.current is read, and the transaction asks for the advisory lock.   *)
Ask(s) ==
  /\ pc[s] = "absent"
  /\ pc' = [ pc EXCEPT ![s] = "waiting" ]
  /\ stamp' = [ stamp EXCEPT ![s] = now ]
  /\ UNCHANGED << now, lockOwner, doomed, expires, handle, beating >>

ObtainLock(s) ==
  /\ pc[s] = "waiting"
  /\ LockFree
  /\ lockOwner' = s
  /\ pc' = [ pc EXCEPT ![s] = "locked" ]
  /\ UNCHANGED << now, stamp, doomed, expires, handle, beating >>

(* DELETE of the leases expired at stamp.                                  *)
Purge(s) ==
  /\ pc[s] = "locked"
  /\ doomed' = ExpiredAt(stamp[s])
  /\ pc' = [ pc EXCEPT ![s] = "purged" ]
  /\ UNCHANGED << now, stamp, lockOwner, expires, handle, beating >>

(* Both counts are below their limits.                                     *)
Count(s) ==
  /\ pc[s] = "purged"
  /\ Cardinality(UserLeases(s) \cap ActiveAt(stamp[s])) < UserLimit
  /\ Cardinality(IpLeases(s) \cap ActiveAt(stamp[s])) < IpLimit
  /\ pc' = [ pc EXCEPT ![s] = "counted" ]
  /\ UNCHANGED << now, stamp, lockOwner, doomed, expires, handle, beating >>

(* ActiveRecord::Rollback, which also brings the purged leases back.       *)
Deny(s) ==
  /\ pc[s] = "purged"
  /\ \/ Cardinality(UserLeases(s) \cap ActiveAt(stamp[s])) >= UserLimit
     \/ Cardinality(IpLeases(s) \cap ActiveAt(stamp[s])) >= IpLimit
  /\ pc' = [ pc EXCEPT ![s] = "denied" ]
  /\ EndTransaction(s)
  /\ UNCHANGED << now, stamp, expires, handle, beating >>

(* create!, COMMIT, and the stream opens with its heartbeat thread.        *)
Admit(s) ==
  /\ pc[s] = "counted"
  /\ pc' = [ pc EXCEPT ![s] = "open" ]
  /\ expires' = [ l \in Streams |-> IF l = s THEN stamp[s] + Ttl
                                    ELSE IF l \in doomed THEN None ELSE expires[l] ]
  /\ handle' = [ handle EXCEPT ![s] = stamp[s] + Ttl ]
  /\ beating' = [ beating EXCEPT ![s] = TRUE ]
  /\ EndTransaction(s)
  /\ UNCHANGED << now, stamp >>

(* A statement raises, or times out: "Unable to open live stream".         *)
Fail(s) ==
  /\ pc[s] \in Admitting
  /\ pc' = [ pc EXCEPT ![s] = "failed" ]
  /\ IF lockOwner = s THEN EndTransaction(s) ELSE UNCHANGED << lockOwner, doomed >>
  /\ UNCHANGED << now, stamp, expires, handle, beating >>

-----------------------------------------------------------------------------
(* The open stream.  Statements on a doomed row wait for its transaction.  *)

(* LeaseHandle#refresh_if_needed!, on a heartbeat or before an event: the  *)
(* UPDATE may match no row, and the handle moves on.                       *)
Refresh(s) ==
  /\ pc[s] = "open"
  /\ NeedsRefresh(s)
  /\ s \notin doomed
  /\ expires' = [ expires EXCEPT ![s] = IF @ = None THEN None ELSE now + Ttl ]
  /\ handle' = [ handle EXCEPT ![s] = now + Ttl ]
  /\ UNCHANGED << now, pc, stamp, lockOwner, doomed, beating >>

(* The heartbeat thread ends: its refresh raised, or the client is gone.   *)
(* The stream's own thread goes on waiting for an event.                   *)
HeartbeatStops(s) ==
  /\ pc[s] = "open" /\ beating[s]
  /\ beating' = [ beating EXCEPT ![s] = FALSE ]
  /\ UNCHANGED << now, pc, stamp, lockOwner, doomed, expires, handle >>

(* The ensure block: kill the heartbeat, release!.                         *)
Close(s) ==
  /\ pc[s] = "open"
  /\ s \notin doomed
  /\ pc' = [ pc EXCEPT ![s] = "closed" ]
  /\ expires' = [ expires EXCEPT ![s] = None ]
  /\ beating' = [ beating EXCEPT ![s] = FALSE ]
  /\ UNCHANGED << now, stamp, lockOwner, doomed, handle >>

(* release! raises and is rescued, or the web machine stops.               *)
CloseKeepingLease(s) ==
  /\ pc[s] = "open"
  /\ pc' = [ pc EXCEPT ![s] = "closed" ]
  /\ beating' = [ beating EXCEPT ![s] = FALSE ]
  /\ UNCHANGED << now, stamp, lockOwner, doomed, expires, handle >>

(* Sse::LeaseCleanupJob.perform                                            *)
CleanUp ==
  /\ doomed = {}
  /\ ExpiredAt(now) # {}
  /\ expires' = [ l \in Streams |-> Reclaim(l) ]
  /\ UNCHANGED << now, pc, stamp, lockOwner, doomed, handle, beating >>

-----------------------------------------------------------------------------
(* Time passes once heartbeats have run and statements have ended.         *)
Clock ==
  /\ now < MaxTime
  /\ \A s \in Streams : pc[s] \in Admitting => now < stamp[s] + Wait
  /\ \A s \in Streams : pc[s] = "open" /\ beating[s] => ~NeedsRefresh(s)
  /\ now' = now + 1
  /\ UNCHANGED << pc, stamp, lockOwner, doomed, expires, handle, beating >>

Init ==
  /\ now = 0
  /\ pc = [ s \in Streams |-> "absent" ]
  /\ stamp = [ s \in Streams |-> 0 ]
  /\ lockOwner = None
  /\ doomed = {}
  /\ expires = [ s \in Streams |-> None ]
  /\ handle = [ s \in Streams |-> 0 ]
  /\ beating = [ s \in Streams |-> FALSE ]

Next ==
  \/ Clock
  \/ CleanUp
  \/ \E s \in Streams :
       \/ Ask(s) \/ ObtainLock(s) \/ Purge(s) \/ Count(s) \/ Deny(s) \/ Admit(s)
       \/ Fail(s) \/ Refresh(s) \/ HeartbeatStops(s) \/ Close(s) \/ CloseKeepingLease(s)

Spec == Init /\ [][Next]_vars

(* A transaction runs on, Postgres grants the advisory lock in turn, and   *)
(* the cleanup job recurs.  Nothing is assumed of streams.                 *)
Fairness ==
  /\ WF_vars(CleanUp)
  /\ \A s \in Streams :
       /\ WF_vars(Purge(s) \/ Count(s) \/ Deny(s) \/ Admit(s))
       /\ SF_vars(ObtainLock(s))

FairSpec == Spec /\ Fairness

-----------------------------------------------------------------------------
Places == Admitting \cup { "absent", "open", "denied", "failed", "closed" }

(* Every variable has its shape, and the advisory lock is held exactly by  *)
(* the admission whose transaction is past it (StreamAdmission#acquire).   *)
TypeOK ==
  /\ now \in Nat
  /\ pc \in [Streams -> Places]
  /\ stamp \in [Streams -> Nat]
  /\ lockOwner \in Streams \cup {None}
  /\ doomed \subseteq Leases
  /\ expires \in [Streams -> Nat \cup {None}]
  /\ handle \in [Streams -> Nat]
  /\ beating \in [Streams -> BOOLEAN]
  /\ \A s \in Streams : lockOwner = s <=> pc[s] \in { "locked", "purged", "counted" }

(* However requests race and however long they wait with a time read       *)
(* before the lock, no user and no address has more lease rows than its    *)
(* limit (StreamAdmission#acquire).                                        *)
LeasesWithinLimits ==
  \A s \in Streams :
    /\ Cardinality(UserLeases(s)) <= UserLimit
    /\ Cardinality(IpLeases(s)) <= IpLimit

(* While its heartbeat runs, a stream's lease is in the table and active,  *)
(* whatever purges and cleanups run: the margin covers the heartbeat's     *)
(* period, and the handle agrees with the row (refresh_if_needed!).        *)
BeatingStreamsLeased ==
  \A s \in Streams :
    pc[s] = "open" /\ beating[s] =>
      expires[s] # None /\ expires[s] > now /\ handle[s] = expires[s]

OpenStreams(s) == { t \in Streams : pc[t] = "open" /\ UserOf[t] = UserOf[s] }

(* What the leases are for: the streams of a user whose heartbeats run are *)
(* within the limit (SSE_MAX_STREAMS_PER_USER).                            *)
BeatingStreamsWithinLimit ==
  \A s \in Streams : Cardinality({ t \in OpenStreams(s) : beating[t] }) <= UserLimit

(* ADR-002: "Per-user and per-IP limits are enforced globally across all   *)
(* instances", of all open streams.                                        *)
StreamsWithinLimit ==
  \A s \in Streams : Cardinality(OpenStreams(s)) <= UserLimit

(* Every request for a stream is answered.                                 *)
AsksAnswered ==
  \A s \in Streams : pc[s] = "waiting" ~> pc[s] \in { "open", "denied", "failed", "closed" }

(* A lease left behind by a stream that ended without releasing it does    *)
(* not count against its user for ever (LeaseCleanupJob's comment).        *)
OrphansReclaimed ==
  \A s \in Streams :
    (pc[s] = "closed" /\ expires[s] # None /\ expires[s] <= now) ~> expires[s] = None

-----------------------------------------------------------------------------
(* The inductive invariant behind the theorems of StreamAdmissionProofs.   *)

(* Nobody's admission started in the future, or too long ago.              *)
StampsRecent ==
  \A s \in Streams : pc[s] \in Admitting => stamp[s] <= now /\ now <= stamp[s] + Wait

(* Only an admission past its purge has doomed rows, all expired at its    *)
(* stamp, and the rows it did not doom are active at its stamp.            *)
PurgeIsExact ==
  /\ (\A s \in Streams : pc[s] \notin { "purged", "counted" }) => doomed = {}
  /\ \A s \in Streams : pc[s] \in { "purged", "counted" } =>
       \A l \in Leases : l \in doomed <=> expires[l] <= stamp[s]

(* What an admission counted stands until it commits.                      *)
CountStands ==
  \A s \in Streams : pc[s] = "counted" =>
    /\ Cardinality(UserLeases(s) \ doomed) < UserLimit
    /\ Cardinality(IpLeases(s) \ doomed) < IpLimit

AdmissionInv ==
  /\ TypeOK
  /\ StampsRecent
  /\ PurgeIsExact
  /\ CountStands
  /\ LeasesWithinLimits
  /\ BeatingStreamsLeased
=============================================================================
