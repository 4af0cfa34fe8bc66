------------------------ MODULE StreamAdmissionProofs ------------------------
(* AdmissionInv is an inductive invariant of StreamAdmission.              *)
EXTENDS StreamAdmission, FiniteSetTheorems, TLAPS

USE ConstantsAssumption

(* Sets of leases are finite, and a smaller set counts no more.            *)
LEMMA Fewer ==
  ASSUME NEW S \in SUBSET Streams, NEW T \in SUBSET S
  PROVE  /\ IsFiniteSet(S) /\ IsFiniteSet(T)
         /\ Cardinality(S) \in Nat /\ Cardinality(T) \in Nat
         /\ Cardinality(T) <= Cardinality(S)
  <1>1. IsFiniteSet(S)
    BY FS_Subset
  <1>2. IsFiniteSet(T) /\ Cardinality(T) <= Cardinality(S)
    BY <1>1, FS_Subset
  <1> QED BY <1>1, <1>2, FS_CardinalityType

LEMMA TypeStep == TypeOK /\ [Next]_vars => TypeOK'
  <1> SUFFICES ASSUME TypeOK, [Next]_vars PROVE TypeOK'
    OBVIOUS
  <1> USE DEF TypeOK, Places, Admitting, Leases
  <1>1. CASE Clock
    BY <1>1 DEF Clock
  <1>2. CASE CleanUp
    BY <1>2 DEF CleanUp, Reclaim
  <1>3. ASSUME NEW s \in Streams, Ask(s) PROVE TypeOK'
    BY <1>3 DEF Ask
  <1>4. ASSUME NEW s \in Streams, ObtainLock(s) PROVE TypeOK'
    BY <1>4 DEF ObtainLock, LockFree
  <1>5. ASSUME NEW s \in Streams, Purge(s) PROVE TypeOK'
    BY <1>5 DEF Purge, ExpiredAt
  <1>6. ASSUME NEW s \in Streams, Count(s) PROVE TypeOK'
    BY <1>6 DEF Count
  <1>7. ASSUME NEW s \in Streams, Deny(s) PROVE TypeOK'
    BY <1>7 DEF Deny, EndTransaction
  <1>8. ASSUME NEW s \in Streams, Admit(s) PROVE TypeOK'
    BY <1>8 DEF Admit, EndTransaction
  <1>9. ASSUME NEW s \in Streams, Fail(s) PROVE TypeOK'
    BY <1>9 DEF Fail, EndTransaction
  <1>10. ASSUME NEW s \in Streams, Refresh(s) PROVE TypeOK'
    BY <1>10 DEF Refresh
  <1>11. ASSUME NEW s \in Streams, HeartbeatStops(s) PROVE TypeOK'
    BY <1>11 DEF HeartbeatStops
  <1>12. ASSUME NEW s \in Streams, Close(s) PROVE TypeOK'
    BY <1>12 DEF Close
  <1>13. ASSUME NEW s \in Streams, CloseKeepingLease(s) PROVE TypeOK'
    BY <1>13 DEF CloseKeepingLease
  <1>14. CASE UNCHANGED vars
    BY <1>14 DEF vars
  <1> QED BY <1>1, <1>2, <1>3, <1>4, <1>5, <1>6, <1>7, <1>8, <1>9, <1>10, <1>11,
             <1>12, <1>13, <1>14 DEF Next

LEMMA StampStep == TypeOK /\ StampsRecent /\ [Next]_vars => StampsRecent'
  <1> SUFFICES ASSUME TypeOK, StampsRecent, [Next]_vars,
                      NEW r \in Streams, pc'[r] \in Admitting
               PROVE  stamp'[r] <= now' /\ now' <= stamp'[r] + Wait
    BY DEF StampsRecent
  <1> USE DEF TypeOK, StampsRecent, Admitting
  <1>1. CASE Clock
    BY <1>1 DEF Clock
  <1>2. CASE \E s \in Streams : Ask(s)
    BY <1>2 DEF Ask
  <1>3. CASE \E s \in Streams : ObtainLock(s) \/ Purge(s) \/ Count(s)
    BY <1>3 DEF ObtainLock, Purge, Count
  <1>4. CASE \E s \in Streams : Deny(s) \/ Admit(s) \/ Fail(s)
    BY <1>4 DEF Deny, Admit, Fail
  <1>5. CASE \E s \in Streams : Refresh(s) \/ HeartbeatStops(s) \/ Close(s) \/ CloseKeepingLease(s)
    BY <1>5 DEF Refresh, HeartbeatStops, Close, CloseKeepingLease
  <1>6. CASE CleanUp \/ UNCHANGED vars
    BY <1>6 DEF CleanUp, vars
  <1> QED BY <1>1, <1>2, <1>3, <1>4, <1>5, <1>6 DEF Next

(* There is one admission past the lock at a time.                         *)
LEMMA OneHolder ==
  ASSUME TypeOK, NEW s \in Streams, NEW t \in Streams,
         pc[s] \in { "locked", "purged", "counted" },
         pc[t] \in { "locked", "purged", "counted" }
  PROVE  s = t
  BY DEF TypeOK

LEMMA PurgeStep ==
  TypeOK /\ StampsRecent /\ PurgeIsExact /\ [Next]_vars => PurgeIsExact'
  <1> SUFFICES ASSUME TypeOK, StampsRecent, PurgeIsExact, [Next]_vars PROVE PurgeIsExact'
    OBVIOUS
  <1> USE DEF TypeOK, PurgeIsExact, Leases
  <1>1. CASE Clock
    BY <1>1 DEF Clock
  <1>2. CASE CleanUp
    BY <1>2 DEF CleanUp, Reclaim
  <1>3. ASSUME NEW s \in Streams, Ask(s) PROVE PurgeIsExact'
    BY <1>3 DEF Ask
  <1>4. ASSUME NEW s \in Streams, ObtainLock(s) PROVE PurgeIsExact'
    BY <1>4 DEF ObtainLock, LockFree
  <1>5. ASSUME NEW s \in Streams, Purge(s) PROVE PurgeIsExact'
    <2>1. \A t \in Streams : pc'[t] \in { "purged", "counted" } => t = s
      BY <1>5, OneHolder DEF Purge
    <2>2. pc'[s] = "purged" /\ UNCHANGED << stamp, expires >>
      BY <1>5 DEF Purge
    <2>3. \A l \in Leases : l \in doomed' <=> expires[l] <= stamp[s]
      BY <1>5 DEF Purge, ExpiredAt
    <2> QED BY <2>1, <2>2, <2>3
  <1>6. ASSUME NEW s \in Streams, Count(s) PROVE PurgeIsExact'
    BY <1>6 DEF Count
  <1>7. ASSUME NEW s \in Streams, Deny(s) \/ Admit(s) PROVE PurgeIsExact'
    <2>1. pc[s] \in { "purged", "counted" }
      BY <1>7 DEF Deny, Admit
    <2>2. \A t \in Streams : pc'[t] \notin { "purged", "counted" }
      BY <1>7, <2>1, OneHolder DEF Deny, Admit
    <2>3. doomed' = {}
      BY <1>7 DEF Deny, Admit, EndTransaction
    <2> QED BY <2>2, <2>3
  <1>8. ASSUME NEW s \in Streams, Fail(s) PROVE PurgeIsExact'
    <2>1. CASE lockOwner = s
      <3>1. \A t \in Streams : pc'[t] \notin { "purged", "counted" }
        BY <1>8, <2>1, OneHolder DEF Fail
      <3> QED BY <1>8, <2>1, <3>1 DEF Fail, EndTransaction
    <2>2. CASE lockOwner # s
      BY <1>8, <2>2 DEF Fail
    <2> QED BY <2>1, <2>2
  <1>9. ASSUME NEW s \in Streams, Refresh(s) PROVE PurgeIsExact'
    <2>1. \A t \in Streams : pc[t] \in { "purged", "counted" } => stamp[t] < now + Ttl
      BY DEF StampsRecent, Admitting
    <2>2. /\ UNCHANGED << pc, stamp, doomed >> /\ s \notin doomed
          /\ \A l \in Streams : expires'[l] = IF l # s \/ expires[s] = None
                                              THEN expires[l] ELSE now + Ttl
      BY <1>9 DEF Refresh
    <2>3. Leases' = Leases
      BY <2>2
    <2>4. ASSUME NEW t \in Streams, pc[t] \in { "purged", "counted" }, NEW l \in Leases
          PROVE  l \in doomed <=> expires'[l] <= stamp[t]
      BY <2>1, <2>2, <2>4
    <2> QED BY <2>2, <2>3, <2>4
  <1>10. ASSUME NEW s \in Streams, HeartbeatStops(s) PROVE PurgeIsExact'
    BY <1>10 DEF HeartbeatStops
  <1>11. ASSUME NEW s \in Streams, Close(s) PROVE PurgeIsExact'
    BY <1>11 DEF Close
  <1>12. ASSUME NEW s \in Streams, CloseKeepingLease(s) PROVE PurgeIsExact'
    BY <1>12 DEF CloseKeepingLease
  <1>13. CASE UNCHANGED vars
    BY <1>13 DEF vars
  <1> QED BY <1>1, <1>2, <1>3, <1>4, <1>5, <1>6, <1>7, <1>8, <1>9, <1>10, <1>11,
             <1>12, <1>13 DEF Next

(* Only Admit adds a lease; and what is doomed changes only with the       *)
(* admission that holds the lock.                                          *)
LEMMA LeasesShrink ==
  ASSUME TypeOK, [Next]_vars, \A s \in Streams : ~Admit(s)
  PROVE  /\ Leases' \subseteq Leases
         /\ \A t \in Streams : pc[t] = "counted" /\ pc'[t] = "counted" => doomed' = doomed
  <1> USE DEF TypeOK, Leases
  <1>1. CASE Clock \/ CleanUp \/ UNCHANGED vars
    BY <1>1 DEF Clock, CleanUp, Reclaim, vars
  <1>2. CASE \E s \in Streams : Ask(s) \/ ObtainLock(s) \/ Count(s)
    BY <1>2 DEF Ask, ObtainLock, Count
  <1>3. ASSUME NEW s \in Streams, Purge(s) \/ Deny(s)
        PROVE  /\ Leases' \subseteq Leases
               /\ \A t \in Streams : pc[t] # "counted"
    BY <1>3, OneHolder DEF Purge, Deny
  <1>4. ASSUME NEW s \in Streams, Fail(s)
        PROVE  /\ Leases' \subseteq Leases
               /\ \A t \in Streams : pc[t] = "counted" /\ pc'[t] = "counted" => doomed' = doomed
    BY <1>4 DEF Fail
  <1>5. CASE \E s \in Streams : Refresh(s) \/ HeartbeatStops(s) \/ Close(s) \/ CloseKeepingLease(s)
    BY <1>5 DEF Refresh, HeartbeatStops, Close, CloseKeepingLease
  <1> QED BY <1>1, <1>2, <1>3, <1>4, <1>5 DEF Next

LEMMA CountStep ==
  TypeOK /\ PurgeIsExact /\ CountStands /\ [Next]_vars => CountStands'
  <1> SUFFICES ASSUME TypeOK, PurgeIsExact, CountStands, [Next]_vars,
                      NEW t \in Streams, pc'[t] = "counted"
               PROVE  /\ (Cardinality(UserLeases(t) \ doomed) < UserLimit)'
                      /\ (Cardinality(IpLeases(t) \ doomed) < IpLimit)'
    BY DEF CountStands
  <1>1. CASE Count(t)
    <2>1. pc[t] = "purged" /\ UNCHANGED << expires, doomed >>
      BY <1>1 DEF Count
    <2>2. Leases \ doomed = ActiveAt(stamp[t])
      BY <2>1 DEF PurgeIsExact, ActiveAt, TypeOK, Leases
    <2>3. UserLeases(t) \ doomed = UserLeases(t) \cap ActiveAt(stamp[t])
      BY <2>2 DEF UserLeases, ActiveAt
    <2>4. IpLeases(t) \ doomed = IpLeases(t) \cap ActiveAt(stamp[t])
      BY <2>2 DEF IpLeases, ActiveAt
    <2>5. UserLeases(t)' = UserLeases(t) /\ IpLeases(t)' = IpLeases(t)
      BY <2>1 DEF UserLeases, IpLeases, Leases
    <2> QED BY <1>1, <2>1, <2>3, <2>4, <2>5 DEF Count
  <1>2. CASE ~Count(t)
    <2>1. pc[t] = "counted"
      BY <1>2 DEF TypeOK, Next, Clock, CleanUp, Ask, ObtainLock, Purge, Count, Deny, Admit, Fail,
                  Refresh, HeartbeatStops, Close, CloseKeepingLease, vars
    <2>2. \A s \in Streams : ~Admit(s)
      BY <2>1, OneHolder DEF Admit, TypeOK
    <2>3. Leases' \subseteq Leases /\ doomed' = doomed
      BY <2>1, <2>2, LeasesShrink
    <2>4. UserLeases(t)' \ doomed' \subseteq UserLeases(t) \ doomed
      BY <2>3 DEF UserLeases
    <2>5. IpLeases(t)' \ doomed' \subseteq IpLeases(t) \ doomed
      BY <2>3 DEF IpLeases
    <2>6. UserLeases(t) \ doomed \subseteq Streams /\ IpLeases(t) \ doomed \subseteq Streams
      BY DEF UserLeases, IpLeases, Leases
    <2>7. /\ Cardinality(UserLeases(t) \ doomed) < UserLimit
          /\ Cardinality(IpLeases(t) \ doomed) < IpLimit
      BY <2>1 DEF CountStands
    <2>8. /\ Cardinality(UserLeases(t)' \ doomed') <= Cardinality(UserLeases(t) \ doomed)
          /\ Cardinality(UserLeases(t)' \ doomed') \in Nat /\ Cardinality(UserLeases(t) \ doomed) \in Nat
      BY <2>4, <2>6, Fewer
    <2>9. /\ Cardinality(IpLeases(t)' \ doomed') <= Cardinality(IpLeases(t) \ doomed)
          /\ Cardinality(IpLeases(t)' \ doomed') \in Nat /\ Cardinality(IpLeases(t) \ doomed) \in Nat
      BY <2>5, <2>6, Fewer
    <2> QED BY <2>7, <2>8, <2>9
  <1> QED BY <1>1, <1>2

(* Adding one to a set below a limit keeps it within the limit.            *)
LEMMA OneMore ==
  ASSUME NEW S \in SUBSET Streams, NEW s \in Streams, NEW n \in Nat, Cardinality(S) < n,
         NEW T \in SUBSET (S \cup {s})
  PROVE  Cardinality(T) <= n
  <1>1. IsFiniteSet(S) /\ Cardinality(S) \in Nat
    BY Fewer
  <1>2. Cardinality(S \cup {s}) <= n
    <2>1. CASE s \in S
      <3>1. S \cup {s} = S
        BY <2>1
      <3> QED BY <1>1, <3>1
    <2>2. CASE s \notin S
      <3>1. Cardinality(S \cup {s}) = Cardinality(S) + 1
        BY <1>1, <2>2, FS_AddElement
      <3> QED BY <1>1, <3>1
    <2> QED BY <2>1, <2>2
  <1>3. S \cup {s} \in SUBSET Streams
    OBVIOUS
  <1>4. Cardinality(T) <= Cardinality(S \cup {s}) /\ Cardinality(T) \in Nat
        /\ Cardinality(S \cup {s}) \in Nat
    BY <1>3, Fewer
  <1> QED BY <1>2, <1>4

LEMMA LimitStep ==
  TypeOK /\ CountStands /\ LeasesWithinLimits /\ [Next]_vars => LeasesWithinLimits'
  <1> SUFFICES ASSUME TypeOK, CountStands, LeasesWithinLimits, [Next]_vars, NEW r \in Streams
               PROVE  /\ Cardinality(UserLeases(r)') <= UserLimit
                      /\ Cardinality(IpLeases(r)') <= IpLimit
    BY DEF LeasesWithinLimits
  <1>1. UserLeases(r) \in SUBSET Streams /\ IpLeases(r) \in SUBSET Streams
    BY DEF UserLeases, IpLeases, Leases
  <1>2. /\ Cardinality(UserLeases(r)) \in Nat /\ Cardinality(UserLeases(r)) <= UserLimit
        /\ Cardinality(IpLeases(r)) \in Nat /\ Cardinality(IpLeases(r)) <= IpLimit
    BY <1>1, Fewer DEF LeasesWithinLimits
  <1>3. ASSUME UserLeases(r)' \subseteq UserLeases(r) PROVE Cardinality(UserLeases(r)') <= UserLimit
    <2>1. Cardinality(UserLeases(r)') <= Cardinality(UserLeases(r)) /\ Cardinality(UserLeases(r)') \in Nat
      BY <1>1, <1>3, Fewer
    <2> QED BY <1>2, <2>1
  <1>4. ASSUME IpLeases(r)' \subseteq IpLeases(r) PROVE Cardinality(IpLeases(r)') <= IpLimit
    <2>1. Cardinality(IpLeases(r)') <= Cardinality(IpLeases(r)) /\ Cardinality(IpLeases(r)') \in Nat
      BY <1>1, <1>4, Fewer
    <2> QED BY <1>2, <2>1
  <1>5. ASSUME NEW s \in Streams, Admit(s)
        PROVE  /\ Cardinality(UserLeases(r)') <= UserLimit
               /\ Cardinality(IpLeases(r)') <= IpLimit
    <2>1. Leases' = (Leases \ doomed) \cup {s}
      BY <1>5 DEF Admit, Leases, TypeOK
    <2>2. /\ Cardinality(UserLeases(s) \ doomed) < UserLimit
          /\ Cardinality(IpLeases(s) \ doomed) < IpLimit
      BY <1>5 DEF Admit, CountStands
    <2>3. UserLeases(s) \ doomed \in SUBSET Streams /\ IpLeases(s) \ doomed \in SUBSET Streams
      BY DEF UserLeases, IpLeases, Leases
    <2>4. Cardinality(UserLeases(r)') <= UserLimit
      <3>1. CASE UserOf[r] = UserOf[s]
        <4>1. UserLeases(r)' \in SUBSET ((UserLeases(s) \ doomed) \cup {s})
          BY <2>1, <3>1 DEF UserLeases
        <4> QED BY <2>2, <2>3, <4>1, OneMore
      <3>2. CASE UserOf[r] # UserOf[s]
        <4>1. UserLeases(r)' \subseteq UserLeases(r)
          BY <2>1, <3>2 DEF UserLeases
        <4> QED BY <1>3, <4>1
      <3> QED BY <3>1, <3>2
    <2>5. Cardinality(IpLeases(r)') <= IpLimit
      <3>1. CASE IpOf[r] = IpOf[s]
        <4>1. IpLeases(r)' \in SUBSET ((IpLeases(s) \ doomed) \cup {s})
          BY <2>1, <3>1 DEF IpLeases
        <4> QED BY <2>2, <2>3, <4>1, OneMore
      <3>2. CASE IpOf[r] # IpOf[s]
        <4>1. IpLeases(r)' \subseteq IpLeases(r)
          BY <2>1, <3>2 DEF IpLeases
        <4> QED BY <1>4, <4>1
      <3> QED BY <3>1, <3>2
    <2> QED BY <2>4, <2>5
  <1>6. CASE \A s \in Streams : ~Admit(s)
    <2>1. Leases' \subseteq Leases
      BY <1>6, LeasesShrink
    <2>2. UserLeases(r)' \subseteq UserLeases(r) /\ IpLeases(r)' \subseteq IpLeases(r)
      BY <2>1 DEF UserLeases, IpLeases
    <2> QED BY <1>3, <1>4, <2>2
  <1> QED BY <1>5, <1>6

LEMMA LeasedStep ==
  TypeOK /\ StampsRecent /\ PurgeIsExact /\ BeatingStreamsLeased /\ [Next]_vars
    => BeatingStreamsLeased'
  <1> SUFFICES ASSUME TypeOK, StampsRecent, PurgeIsExact, BeatingStreamsLeased, [Next]_vars,
                      NEW r \in Streams, pc'[r] = "open" /\ beating'[r]
               PROVE  expires'[r] # None /\ expires'[r] > now' /\ handle'[r] = expires'[r]
    BY DEF BeatingStreamsLeased
  <1> USE DEF TypeOK, BeatingStreamsLeased
  <1>1. CASE Clock
    BY <1>1 DEF Clock, NeedsRefresh
  <1>2. CASE CleanUp
    BY <1>2 DEF CleanUp, Reclaim
  <1>3. CASE \E s \in Streams : Ask(s) \/ ObtainLock(s) \/ Purge(s) \/ Count(s)
    BY <1>3 DEF Ask, ObtainLock, Purge, Count
  <1>4. CASE \E s \in Streams : Deny(s) \/ Fail(s)
    BY <1>4 DEF Deny, Fail
  <1>5. ASSUME NEW s \in Streams, Admit(s)
        PROVE  expires'[r] # None /\ expires'[r] > now' /\ handle'[r] = expires'[r]
    <2>1. /\ pc[s] = "counted" /\ stamp[s] <= now /\ now <= stamp[s] + Wait
          /\ stamp[s] + Ttl \in Nat
      BY <1>5 DEF Admit, StampsRecent, Admitting
    <2>2. CASE r = s
      BY <1>5, <2>1, <2>2 DEF Admit
    <2>3. CASE r # s
      <3>1. pc[r] = "open" /\ beating[r] /\ expires[r] # None /\ expires[r] > now
        BY <1>5, <2>3 DEF Admit
      <3>2. r \notin doomed
        BY <2>1, <3>1 DEF PurgeIsExact, Leases
      <3> QED BY <1>5, <2>3, <3>1, <3>2 DEF Admit
    <2> QED BY <2>2, <2>3
  <1>6. ASSUME NEW s \in Streams, Refresh(s)
        PROVE  expires'[r] # None /\ expires'[r] > now' /\ handle'[r] = expires'[r]
    BY <1>6 DEF Refresh
  <1>7. CASE \E s \in Streams : HeartbeatStops(s) \/ Close(s) \/ CloseKeepingLease(s)
    BY <1>7 DEF HeartbeatStops, Close, CloseKeepingLease
  <1>8. CASE UNCHANGED vars
    BY <1>8 DEF vars
  <1> QED BY <1>1, <1>2, <1>3, <1>4, <1>5, <1>6, <1>7, <1>8 DEF Next

LEMMA InitInv == Init => AdmissionInv
  <1> SUFFICES ASSUME Init PROVE AdmissionInv
    OBVIOUS
  <1>1. Leases = {}
    BY DEF Init, Leases
  <1>2. \A s \in Streams : UserLeases(s) = {} /\ IpLeases(s) = {}
    BY <1>1 DEF UserLeases, IpLeases
  <1>3. LeasesWithinLimits
    BY <1>2, FS_EmptySet DEF LeasesWithinLimits
  <1>4. TypeOK
    BY <1>1 DEF Init, TypeOK, Places, Admitting
  <1> QED BY <1>1, <1>3, <1>4
          DEF Init, AdmissionInv, StampsRecent, Admitting, PurgeIsExact, CountStands,
              BeatingStreamsLeased

(* The model keeps to its types, and the advisory lock is held by exactly  *)
(* the admission that is past it.                                          *)
THEOREM Typing == Spec => []TypeOK
  <1>1. Init => TypeOK
    BY InitInv DEF AdmissionInv
  <1> QED BY <1>1, TypeStep, PTL DEF Spec

(* The inductive invariant, for any number of streams and any limits.      *)
THEOREM Invariance == Spec => []AdmissionInv
  <1>1. AdmissionInv /\ [Next]_vars => AdmissionInv'
    BY TypeStep, StampStep, PurgeStep, CountStep, LimitStep, LeasedStep DEF AdmissionInv
  <1> QED BY InitInv, <1>1, PTL DEF Spec

(* Racing admissions never exceed a limit.                                 *)
THEOREM LimitsHold == Spec => []LeasesWithinLimits
  <1>1. AdmissionInv => LeasesWithinLimits
    BY DEF AdmissionInv
  <1> QED BY <1>1, Invariance, PTL

(* A stream with a live heartbeat never loses its lease.                   *)
THEOREM HeartbeatKeepsLease == Spec => []BeatingStreamsLeased
  <1>1. AdmissionInv => BeatingStreamsLeased
    BY DEF AdmissionInv
  <1> QED BY <1>1, Invariance, PTL

(* So the streams with a live heartbeat are within their user's limit.     *)
THEOREM HeartbeatsWithinLimit == Spec => []BeatingStreamsWithinLimit
  <1>1. ASSUME AdmissionInv, NEW s \in Streams
        PROVE  Cardinality({ t \in OpenStreams(s) : beating[t] }) <= UserLimit
    <2>1. { t \in OpenStreams(s) : beating[t] } \subseteq UserLeases(s)
      BY <1>1 DEF AdmissionInv, BeatingStreamsLeased, OpenStreams, UserLeases, Leases
    <2>2. UserLeases(s) \subseteq Streams
      BY DEF UserLeases, Leases
    <2>3. Cardinality(UserLeases(s)) <= UserLimit
      BY <1>1 DEF AdmissionInv, LeasesWithinLimits
    <2>4. /\ Cardinality({ t \in OpenStreams(s) : beating[t] }) <= Cardinality(UserLeases(s))
          /\ Cardinality({ t \in OpenStreams(s) : beating[t] }) \in Nat
          /\ Cardinality(UserLeases(s)) \in Nat
      BY <2>1, <2>2, Fewer
    <2> QED BY <2>3, <2>4
  <1>2. AdmissionInv => BeatingStreamsWithinLimit
    BY <1>1 DEF BeatingStreamsWithinLimit
  <1> QED BY <1>2, Invariance, PTL
=============================================================================
