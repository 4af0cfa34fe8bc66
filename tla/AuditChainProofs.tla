--------------------------- MODULE AuditChainProofs ---------------------------
(***************************************************************************)
(* Theorems about AuditChain, for every set of writers, entities and       *)
(* chains.                                                                 *)
(***************************************************************************)
EXTENDS AuditChain, TLAPS

LEMMA InitType == Init => TypeOK
  BY ConstantsAssumption DEF Init, TypeOK, Places, NoWrite, NoTip

LEMMA FinishType ==
  ASSUME TypeOK, NEW w \in Writers, Finish(w)
  PROVE  /\ pc' = [pc EXCEPT ![w] = "idle"]
         /\ pc' \in [Writers -> Places]
         /\ outer' \in [Writers -> BOOLEAN]
         /\ write' \in [Writers -> [entity : Entities \cup {None}, version : Nat]]
         /\ attempt' \in [Writers -> Nat]
         /\ DOMAIN tip' = Writers
         /\ \A u \in Writers : tip'[u].position \in Nat
         /\ \A u \in Writers :
              /\ pc'[u] \in { "update", "lock", "tip", "insert", "retry" } => write'[u].entity \in Entities
              /\ pc'[u] \in { "lock", "tip", "insert", "retry" } => write'[u].version > 0
  BY DEF TypeOK, Finish, NoWrite, NoTip, Places

LEMMA DiscardType ==
  ASSUME TypeOK, NEW w \in Writers, DiscardTransaction(w)
  PROVE  /\ chainOwner' \in [Chains -> Writers \cup {None}]
         /\ DOMAIN pending' = Writers
         /\ \A u \in Writers : \A r \in pending'[u] : RowOK(r)
         /\ updates' \in [Writers -> [Entities -> Nat]]
         /\ UNCHANGED << events, version, nextval >>
  BY DEF TypeOK, DiscardTransaction, ReleaseLocks

LEMMA NextType == TypeOK /\ [Next]_vars => TypeOK'
<1> SUFFICES ASSUME TypeOK, [Next]_vars
             PROVE  TypeOK'
  OBVIOUS
<1>1. CASE UNCHANGED vars
  BY <1>1 DEF TypeOK, vars, RowOK
<1>2. ASSUME NEW w \in Writers, Begin(w)
      PROVE  TypeOK'
  BY <1>2 DEF TypeOK, Begin, txVars, Places, RowOK
<1>3. ASSUME NEW w \in Writers, NEW e \in Entities, RequestUpdate(w, e)
      PROVE  TypeOK'
  BY <1>3 DEF TypeOK, RequestUpdate, txVars, Places, RowOK
<1>4. ASSUME NEW w \in Writers, NEW e \in Entities, DetachedUpdate(w, e)
      PROVE  TypeOK'
  BY <1>4 DEF TypeOK, DetachedUpdate, txVars, Places, RowOK
<1>5. ASSUME NEW w \in Writers, Update(w)
      PROVE  TypeOK'
  <2> DEFINE e == write[w].entity
             v == version[e] + updates[w][e] + 1
  <2>1. e \in Entities
    BY <1>5 DEF TypeOK, Update
  <2>2. /\ updates[w] \in [Entities -> Nat]
        /\ v \in Nat /\ v > 0
    BY <2>1 DEF TypeOK
  <2>3. updates' \in [Writers -> [Entities -> Nat]]
    BY <1>5, <2>1, <2>2 DEF TypeOK, Update
  <2>4. write' = [ write EXCEPT ![w] = [ entity |-> e, version |-> v ] ]
    BY <1>5 DEF Update
  <2> HIDE DEF e, v
  <2>5. QED
    BY <1>5, <2>1, <2>2, <2>3, <2>4 DEF TypeOK, Update, Places, RowOK
<1>6. ASSUME NEW w \in Writers, Commit(w)
      PROVE  TypeOK'
  BY <1>6, FinishType DEF TypeOK, Commit, ReleaseLocks, RowOK
<1>7. ASSUME NEW w \in Writers, Abort(w)
      PROVE  TypeOK'
  BY <1>7, FinishType, DiscardType DEF TypeOK, Abort, RowOK
<1>8. ASSUME NEW w \in Writers, DeadlockInService(w)
      PROVE  TypeOK'
  BY <1>8, FinishType, DiscardType DEF TypeOK, DeadlockInService, RowOK
<1>9. ASSUME NEW w \in Writers, AcquireChainLock(w)
      PROVE  TypeOK'
  BY <1>9 DEF TypeOK, AcquireChainLock, txVars, Places, RowOK
<1>10. ASSUME NEW w \in Writers, ReadTip(w)
       PROVE  TypeOK'
  BY <1>10 DEF TypeOK, ReadTip, txVars, Places, RowOK, Tips, RowsIn, Visible
<1>11. ASSUME NEW w \in Writers, Insert(w)
       PROVE  TypeOK'
  BY <1>11, ConstantsAssumption DEF TypeOK, Insert, Places, RowOK, NewRow, NoTip, NoWrite
<1>12. ASSUME NEW w \in Writers, DeadlockInWriter(w)
       PROVE  TypeOK'
  BY <1>12, DiscardType DEF TypeOK, DeadlockInWriter, Places, RowOK
<1>13. ASSUME NEW w \in Writers, Retry(w)
       PROVE  TypeOK'
  BY <1>13 DEF TypeOK, Retry, txVars, Places, RowOK
<1>14. QED
  BY <1>1, <1>2, <1>3, <1>4, <1>5, <1>6, <1>7, <1>8, <1>9, <1>10, <1>11,
     <1>12, <1>13 DEF Next

(* Type correctness of the audit writer, for any number of connections.    *)
THEOREM Typing == Spec => []TypeOK
<1>1. QED
  BY InitType, NextType, PTL DEF Spec

-----------------------------------------------------------------------------
(* Facts about a single chain *)

(* Verification, tips and numbering of a chain depend on its rows only.    *)
LEMMA SameRows ==
  ASSUME NEW R, NEW S, NEW c, RowsIn(R, c) = RowsIn(S, c)
  PROVE  /\ Verifies(R, c) <=> Verifies(S, c)
         /\ Tips(R, c) = Tips(S, c)
  BY DEF Verifies, Tips

(* A row built on the tip of a verifiable chain keeps it verifiable.       *)
LEMMA AppendVerifies ==
  ASSUME NEW R, NEW c, Verifies(R, c),
         \A r \in R : r.position \in Nat \ {0},
         NEW t \in Tips(R, c), NEW s, NEW e, NEW v
  PROVE  Verifies(R \cup { NewRow(c, t, s, e, v) }, c)
<1> DEFINE n == NewRow(c, t, s, e, v)
           chain == RowsIn(R, c)
<1>1. /\ n.chain = c
      /\ n.position = t.position + 1
      /\ n.prev_hash = t.row_hash
      /\ n.row_hash = Compute(n.chain, n.position, n.prev_hash, n.sequence, n.entity, n.version)
  BY DEF NewRow
<1>2. RowsIn(R \cup {n}, c) = chain \cup {n}
  BY <1>1 DEF RowsIn
<1>3. \A r \in chain : r.position \in Nat \ {0}
  BY DEF RowsIn
<1>4. /\ t.position \in Nat
      /\ \A r \in chain : r.position <= t.position
      /\ \/ t.position = 0 /\ t.row_hash = Genesis(c)
         \/ \E q \in chain : q.position = t.position /\ q.row_hash = t.row_hash
  <2>1. CASE chain = {}
    BY <2>1 DEF Tips
  <2>2. CASE chain # {}
    <3>1. PICK q \in chain : /\ \A r \in chain : r.position <= q.position
                             /\ t = [position |-> q.position, row_hash |-> q.row_hash]
      BY <2>2 DEF Tips
    <3>2. t.position = q.position /\ t.row_hash = q.row_hash
      BY <3>1
    <3>3. QED
      BY <1>3, <3>1, <3>2
  <2>3. QED
    BY <2>1, <2>2
<1>5. /\ \A r, q \in chain : r.position = q.position => r = q
      /\ \A r \in chain :
           \/ r.position = 1 /\ r.prev_hash = Genesis(c)
           \/ \E q \in chain : q.position + 1 = r.position /\ q.row_hash = r.prev_hash
      /\ \A r \in chain :
           r.row_hash = Compute(r.chain, r.position, r.prev_hash, r.sequence,
                                r.entity, r.version)
  BY DEF Verifies
<1> HIDE DEF n, chain
<1>6. \A r \in chain : r.position # n.position
  BY <1>1, <1>3, <1>4
<1>7. \/ n.position = 1 /\ n.prev_hash = Genesis(c)
      \/ \E q \in chain : q.position + 1 = n.position /\ q.row_hash = n.prev_hash
  BY <1>1, <1>4
<1>8. /\ \A r, q \in chain \cup {n} : r.position = q.position => r = q
      /\ \A r \in chain \cup {n} :
           \/ r.position = 1 /\ r.prev_hash = Genesis(c)
           \/ \E q \in chain \cup {n} : q.position + 1 = r.position /\ q.row_hash = r.prev_hash
      /\ \A r \in chain \cup {n} :
           r.row_hash = Compute(r.chain, r.position, r.prev_hash, r.sequence,
                                r.entity, r.version)
  BY <1>1, <1>5, <1>6, <1>7
<1>9. Verifies(R \cup {n}, c)
  BY <1>2, <1>8 DEF Verifies
<1>10. QED
  BY <1>9 DEF n

(* The view of a writer after another one commits: each chain is as one of *)
(* the two saw it, because the chain lock keeps their rows apart.          *)
LEMMA MergedView ==
  ASSUME TypeOK, OwnsItsChains,
         NEW u \in Writers, NEW w \in Writers, u # w, NEW c \in Chains
  PROVE  \/ RowsIn(Visible(w) \cup pending[u], c) = RowsIn(Visible(w), c)
         \/ RowsIn(Visible(w) \cup pending[u], c) = RowsIn(Visible(u), c)
<1>1. CASE RowsIn(pending[u], c) = {}
  BY <1>1 DEF RowsIn, Visible
<1>2. CASE RowsIn(pending[u], c) # {}
  <2>1. chainOwner[c] = u
    BY <1>2 DEF OwnsItsChains, RowsIn
  <2>2. RowsIn(pending[w], c) = {}
    BY <2>1 DEF OwnsItsChains, RowsIn
  <2>3. QED
    BY <2>2 DEF RowsIn, Visible
<1>3. QED
  BY <1>1, <1>2

-----------------------------------------------------------------------------
(* The inductive invariant *)

LEMMA InitInv == Init => ChainInv
<1> SUFFICES ASSUME Init
             PROVE  ChainInv
  OBVIOUS
<1>1. /\ events = {}
      /\ \A w \in Writers : pc[w] = "idle" /\ pending[w] = {}
  BY DEF Init
<1>2. OwnsItsChains /\ TipIsCurrent
  BY <1>1 DEF OwnsItsChains, TipIsCurrent
<1>3. ViewsVerify /\ NumbersDrawnInOrder
  BY <1>1 DEF ViewsVerify, NumbersDrawnInOrder, Verifies, RowsIn, Visible
<1>4. QED
  BY <1>2, <1>3, InitType DEF ChainInv

(* A step that leaves rows, numbers and chain locks alone, and moves no    *)
(* writer past its tip read, preserves the invariant.                      *)
LEMMA QuietStep ==
  ASSUME ChainInv, TypeOK',
         UNCHANGED << events, nextval, chainOwner, pending >>,
         \A u \in Writers :
           pc'[u] \in { "tip", "insert" } =>
             pc'[u] = pc[u] /\ write'[u] = write[u] /\ tip'[u] = tip[u]
  PROVE  ChainInv'
<1>1. OwnsItsChains'
  BY DEF ChainInv, OwnsItsChains
<1>2. ViewsVerify'
  BY DEF ChainInv, ViewsVerify, Verifies, RowsIn, Visible
<1>3. TipIsCurrent'
  <2>1. ASSUME NEW u \in Writers, pc'[u] = "insert"
        PROVE  tip'[u] \in Tips(Visible(u)', ChainOf[write'[u].entity])
    <3>1. Visible(u)' = Visible(u)
      BY DEF Visible
    <3>2. QED
      BY <2>1, <3>1 DEF ChainInv, TipIsCurrent
  <2>2. QED
    BY <2>1 DEF TipIsCurrent, Tips, RowsIn
<1>4. NumbersDrawnInOrder'
  BY DEF ChainInv, NumbersDrawnInOrder, Visible
<1>5. QED
  BY <1>1, <1>2, <1>3, <1>4 DEF ChainInv

(* An aborted transaction takes its rows with it and frees its locks.      *)
LEMMA DiscardStep ==
  ASSUME ChainInv, TypeOK', NEW w \in Writers, DiscardTransaction(w),
         pc'[w] \notin { "tip", "insert" },
         \A u \in Writers \ {w} :
           pc'[u] = pc[u] /\ write'[u] = write[u] /\ tip'[u] = tip[u]
  PROVE  ChainInv'
<1>1. /\ events' = events /\ nextval' = nextval
      /\ pending'[w] = {}
      /\ \A u \in Writers \ {w} : pending'[u] = pending[u]
      /\ \A c \in Chains : \A u \in Writers \ {w} :
           chainOwner[c] = u => chainOwner'[c] = u
  BY DEF DiscardTransaction, ReleaseLocks, ChainInv, TypeOK
<1>2. /\ Visible(w)' = events
      /\ \A u \in Writers \ {w} : Visible(u)' = Visible(u)
  BY <1>1 DEF Visible
<1>3. OwnsItsChains'
  <2>1. ASSUME NEW u \in Writers, NEW r \in pending'[u]
        PROVE  chainOwner'[r.chain] = u
    <3>1. u # w /\ r \in pending[u]
      BY <1>1
    <3>2. r.chain \in Chains
      BY <3>1 DEF ChainInv, TypeOK, RowOK
    <3>3. chainOwner[r.chain] = u
      BY <3>1 DEF ChainInv, OwnsItsChains
    <3>4. QED
      BY <1>1, <3>1, <3>2, <3>3
  <2>2. ASSUME NEW u \in Writers, pc'[u] \in { "tip", "insert" }
        PROVE  chainOwner'[ChainOf[write'[u].entity]] = u
    <3>1. /\ u # w /\ write'[u] = write[u]
          /\ write[u].entity \in Entities
          /\ chainOwner[ChainOf[write[u].entity]] = u
      BY <1>1, <2>2 DEF ChainInv, OwnsItsChains, TypeOK
    <3>2. ChainOf[write[u].entity] \in Chains
      BY <3>1, ConstantsAssumption
    <3>3. QED
      BY <1>1, <3>1, <3>2
  <2>3. QED
    BY <2>1, <2>2 DEF OwnsItsChains
<1>4. ViewsVerify'
  <2>1. ASSUME NEW c \in Chains, NEW u \in Writers
        PROVE  Verifies(events, c)' /\ Verifies(Visible(u), c)'
    <3>1. Verifies(events, c) /\ Verifies(Visible(u), c)
      BY DEF ChainInv, ViewsVerify
    <3>2. events' = events /\ (Visible(u)' = Visible(u) \/ Visible(u)' = events)
      BY <1>1, <1>2
    <3>3. QED
      BY <3>1, <3>2 DEF Verifies, RowsIn
  <2>2. ASSUME NEW c \in Chains
        PROVE  Verifies(events, c)'
    BY <1>1 DEF ChainInv, ViewsVerify, Verifies, RowsIn
  <2>3. QED
    BY <2>1, <2>2 DEF ViewsVerify
<1>5. TipIsCurrent'
  <2>1. ASSUME NEW u \in Writers, pc'[u] = "insert"
        PROVE  tip'[u] \in Tips(Visible(u)', ChainOf[write'[u].entity])
    BY <1>2, <2>1 DEF ChainInv, TipIsCurrent
  <2>2. QED
    BY <2>1 DEF TipIsCurrent, Tips, RowsIn
<1>6. NumbersDrawnInOrder'
  BY <1>1, <1>2 DEF ChainInv, NumbersDrawnInOrder, Visible
<1>7. QED
  BY <1>3, <1>4, <1>5, <1>6 DEF ChainInv

LEMMA CommitStep ==
  ASSUME ChainInv, TypeOK', NEW w \in Writers, Commit(w)
  PROVE  ChainInv'
<1>1. /\ events' = Visible(w) /\ nextval' = nextval
      /\ pending'[w] = {}
      /\ pc'[w] = "idle"
      /\ \A u \in Writers \ {w} : /\ pending'[u] = pending[u]
                                  /\ pc'[u] = pc[u]
                                  /\ write'[u] = write[u]
                                  /\ tip'[u] = tip[u]
      /\ \A c \in Chains : \A u \in Writers \ {w} :
           chainOwner[c] = u => chainOwner'[c] = u
  BY DEF Commit, Finish, ReleaseLocks, ChainInv, TypeOK, Visible
<1>2. /\ Visible(w)' = Visible(w)
      /\ \A u \in Writers \ {w} : Visible(u)' = Visible(w) \cup pending[u]
  BY <1>1 DEF Visible
<1>3. OwnsItsChains'
  <2>1. ASSUME NEW u \in Writers, NEW r \in pending'[u]
        PROVE  chainOwner'[r.chain] = u
    <3>1. u # w /\ r \in pending[u]
      BY <1>1
    <3>2. r.chain \in Chains
      BY <3>1 DEF ChainInv, TypeOK, RowOK
    <3>3. chainOwner[r.chain] = u
      BY <3>1 DEF ChainInv, OwnsItsChains
    <3>4. QED
      BY <1>1, <3>1, <3>2, <3>3
  <2>2. ASSUME NEW u \in Writers, pc'[u] \in { "tip", "insert" }
        PROVE  chainOwner'[ChainOf[write'[u].entity]] = u
    <3>1. /\ u # w /\ write'[u] = write[u]
          /\ write[u].entity \in Entities
          /\ chainOwner[ChainOf[write[u].entity]] = u
      BY <1>1, <2>2 DEF ChainInv, OwnsItsChains, TypeOK
    <3>2. ChainOf[write[u].entity] \in Chains
      BY <3>1, ConstantsAssumption
    <3>3. QED
      BY <1>1, <3>1, <3>2
  <2>3. QED
    BY <2>1, <2>2 DEF OwnsItsChains
<1>4. \A u \in Writers, c \in Chains :
        \/ RowsIn(Visible(u)', c) = RowsIn(Visible(w), c)
        \/ RowsIn(Visible(u)', c) = RowsIn(Visible(u), c)
  BY <1>2, MergedView DEF ChainInv
<1>5. ViewsVerify'
  <2>1. ASSUME NEW c \in Chains
        PROVE  Verifies(events, c)'
    <3>1. Verifies(Visible(w), c)
      BY DEF ChainInv, ViewsVerify
    <3>2. QED
      BY <1>1, <3>1 DEF Verifies, RowsIn
  <2>2. ASSUME NEW c \in Chains, NEW u \in Writers
        PROVE  Verifies(Visible(u), c)'
    <3>1. Verifies(Visible(u), c) /\ Verifies(Visible(w), c)
      BY DEF ChainInv, ViewsVerify
    <3>2. Verifies(Visible(u)', c)
      BY <1>4, <3>1, SameRows
    <3>3. QED
      BY <3>2 DEF Verifies, RowsIn
  <2>3. QED
    BY <2>1, <2>2 DEF ViewsVerify
<1>6. TipIsCurrent'
  <2>1. ASSUME NEW u \in Writers, pc'[u] = "insert"
        PROVE  tip'[u] \in Tips(Visible(u)', ChainOf[write'[u].entity])
    <3> DEFINE c == ChainOf[write[u].entity]
    <3>1. u # w /\ pc[u] = "insert" /\ tip'[u] = tip[u] /\ write'[u] = write[u]
      BY <1>1, <2>1
    <3>2. tip[u] \in Tips(Visible(u), c) /\ chainOwner[c] = u
      BY <3>1 DEF ChainInv, TipIsCurrent, OwnsItsChains
    <3>3. RowsIn(pending[w], c) = {}
      BY <3>1, <3>2 DEF ChainInv, OwnsItsChains, RowsIn
    <3>4. RowsIn(Visible(u)', c) = RowsIn(Visible(u), c)
      BY <1>2, <3>1, <3>3 DEF RowsIn, Visible
    <3>5. Tips(Visible(u)', c) = Tips(Visible(u), c)
      BY <3>4, SameRows
    <3>6. QED
      BY <3>1, <3>2, <3>5
  <2>2. QED
    BY <2>1 DEF TipIsCurrent, Tips, RowsIn
<1>7. NumbersDrawnInOrder'
  <2>1. ASSUME NEW u \in Writers, NEW r \in Visible(u)'
        PROVE  r.sequence < nextval' /\ r.chain \in Chains
    <3>1. r \in Visible(u) \/ r \in Visible(w)
      BY <1>2 DEF Visible
    <3>2. QED
      BY <1>1, <3>1 DEF ChainInv, NumbersDrawnInOrder, TypeOK, RowOK, Visible
  <2>2. ASSUME NEW u \in Writers, NEW r \in Visible(u)', NEW q \in Visible(u)',
               r.chain = q.chain, r.position < q.position
        PROVE  r.sequence < q.sequence
    <3> DEFINE c == r.chain
    <3>1. c \in Chains
      BY <2>1
    <3>2. r \in RowsIn(Visible(u)', c) /\ q \in RowsIn(Visible(u)', c)
      BY <2>2 DEF RowsIn
    <3>3. \/ r \in Visible(w) /\ q \in Visible(w)
          \/ r \in Visible(u) /\ q \in Visible(u)
      BY <1>4, <3>1, <3>2 DEF RowsIn
    <3>4. QED
      BY <2>2, <3>3 DEF ChainInv, NumbersDrawnInOrder
  <2>3. QED
    BY <2>1, <2>2 DEF NumbersDrawnInOrder
<1>8. QED
  BY <1>3, <1>5, <1>6, <1>7 DEF ChainInv

(* The lock is granted only when no other writer owns the chain.           *)
LEMMA AcquireStep ==
  ASSUME ChainInv, TypeOK', NEW w \in Writers, AcquireChainLock(w)
  PROVE  ChainInv'
<1> DEFINE c == ChainOf[write[w].entity]
<1>1. /\ UNCHANGED << events, nextval, pending, write, tip >>
      /\ pc'[w] = "tip"
      /\ \A u \in Writers \ {w} : pc'[u] = pc[u]
      /\ c \in Chains
      /\ chainOwner[c] \in {None, w}
      /\ chainOwner'[c] = w
      /\ \A d \in Chains \ {c} : chainOwner'[d] = chainOwner[d]
  BY ConstantsAssumption DEF AcquireChainLock, ChainFree, txVars, ChainInv, TypeOK
<1>2. \A u \in Writers, d \in Chains : chainOwner[d] = u => chainOwner'[d] = u
  BY <1>1, ConstantsAssumption
<1>3. \A u \in Writers : Visible(u)' = Visible(u)
  BY <1>1 DEF Visible
<1>4. OwnsItsChains'
  <2>1. ASSUME NEW u \in Writers, NEW r \in pending[u]
        PROVE  chainOwner'[r.chain] = u
    BY <1>2 DEF ChainInv, OwnsItsChains, TypeOK, RowOK
  <2>2. ASSUME NEW u \in Writers, pc'[u] \in { "tip", "insert" }
        PROVE  chainOwner'[ChainOf[write[u].entity]] = u
    <3>1. CASE u = w
      BY <1>1, <3>1
    <3>2. CASE u # w
      BY <1>1, <1>2, <2>2, <3>2, ConstantsAssumption DEF ChainInv, OwnsItsChains, TypeOK
    <3>3. QED
      BY <3>1, <3>2
  <2>3. QED
    BY <1>1, <2>1, <2>2 DEF OwnsItsChains
<1>5. ViewsVerify'
  BY <1>1 DEF ChainInv, ViewsVerify, Verifies, RowsIn, Visible
<1>6. TipIsCurrent'
  <2>1. ASSUME NEW u \in Writers, pc'[u] = "insert"
        PROVE  tip'[u] \in Tips(Visible(u)', ChainOf[write'[u].entity])
    BY <1>1, <1>3, <2>1 DEF ChainInv, TipIsCurrent
  <2>2. QED
    BY <2>1 DEF TipIsCurrent, Tips, RowsIn
<1>7. NumbersDrawnInOrder'
  BY <1>1 DEF ChainInv, NumbersDrawnInOrder, Visible
<1>8. QED
  BY <1>4, <1>5, <1>6, <1>7 DEF ChainInv

LEMMA ReadTipStep ==
  ASSUME ChainInv, TypeOK', NEW w \in Writers, ReadTip(w)
  PROVE  ChainInv'
<1>1. /\ UNCHANGED << events, nextval, pending, write, chainOwner >>
      /\ pc[w] = "tip"
      /\ tip'[w] \in Tips(Visible(w), ChainOf[write[w].entity])
      /\ \A u \in Writers \ {w} : pc'[u] = pc[u] /\ tip'[u] = tip[u]
  BY DEF ReadTip, txVars, ChainInv, TypeOK
<1>2. \A u \in Writers : Visible(u)' = Visible(u)
  BY <1>1 DEF Visible
<1>3. OwnsItsChains'
  BY <1>1 DEF ChainInv, OwnsItsChains
<1>4. ViewsVerify'
  BY <1>1 DEF ChainInv, ViewsVerify, Verifies, RowsIn, Visible
<1>5. TipIsCurrent'
  <2>1. ASSUME NEW u \in Writers, pc'[u] = "insert"
        PROVE  tip'[u] \in Tips(Visible(u)', ChainOf[write'[u].entity])
    BY <1>1, <1>2, <2>1 DEF ChainInv, TipIsCurrent
  <2>2. QED
    BY <2>1 DEF TipIsCurrent, Tips, RowsIn
<1>6. NumbersDrawnInOrder'
  BY <1>1 DEF ChainInv, NumbersDrawnInOrder, Visible
<1>7. QED
  BY <1>3, <1>4, <1>5, <1>6 DEF ChainInv

LEMMA InsertStep ==
  ASSUME ChainInv, TypeOK', NEW w \in Writers, Insert(w)
  PROVE  ChainInv'
<1> DEFINE c == ChainOf[write[w].entity]
           n == NewRow(c, tip[w], nextval, write[w].entity, write[w].version)
<1>1. /\ UNCHANGED << events, chainOwner >>
      /\ nextval' = nextval + 1
      /\ pc[w] = "insert" /\ pc'[w] = "body"
      /\ pending'[w] = pending[w] \cup {n}
      /\ \A u \in Writers \ {w} : /\ pc'[u] = pc[u]
                                  /\ tip'[u] = tip[u]
                                  /\ write'[u] = write[u]
                                  /\ pending'[u] = pending[u]
  BY DEF Insert, ChainInv, TypeOK
<1>2. c \in Chains /\ n.chain = c /\ n.sequence = nextval
      /\ n.position = tip[w].position + 1 /\ chainOwner[c] = w
  BY <1>1, ConstantsAssumption DEF ChainInv, OwnsItsChains, TypeOK, NewRow
<1>3. tip[w] \in Tips(Visible(w), c)
  BY <1>1 DEF ChainInv, TipIsCurrent
<1>4. \A r \in Visible(w) : r.position \in Nat \ {0} /\ r.sequence \in Nat /\ r.chain \in Chains
  BY DEF ChainInv, TypeOK, RowOK, Visible
<1>5. Verifies(Visible(w), c)
  BY <1>2 DEF ChainInv, ViewsVerify
<1>6. Verifies(Visible(w) \cup {n}, c)
  BY <1>3, <1>4, <1>5, AppendVerifies
<1> HIDE DEF n, c
<1>7. /\ Visible(w)' = Visible(w) \cup {n}
      /\ \A u \in Writers \ {w} : Visible(u)' = Visible(u)
  BY <1>1 DEF Visible
<1>8. OwnsItsChains'
  BY <1>1, <1>2 DEF ChainInv, OwnsItsChains
<1>9. ViewsVerify'
  <2>1. ASSUME NEW d \in Chains
        PROVE  Verifies(events, d)'
    BY <1>1 DEF ChainInv, ViewsVerify, Verifies, RowsIn
  <2>2. ASSUME NEW d \in Chains, NEW u \in Writers
        PROVE  Verifies(Visible(u), d)'
    <3>1. Verifies(Visible(u)', d)
      <4>1. CASE u # w
        BY <1>7, <4>1 DEF ChainInv, ViewsVerify
      <4>2. CASE u = w /\ d = c
        BY <1>6, <1>7, <4>2
      <4>3. CASE u = w /\ d # c
        <5>1. RowsIn(Visible(u)', d) = RowsIn(Visible(u), d)
          BY <1>2, <1>7, <4>3 DEF RowsIn
        <5>2. QED
          BY <5>1, SameRows DEF ChainInv, ViewsVerify
      <4>4. QED
        BY <4>1, <4>2, <4>3
    <3>2. QED
      BY <3>1 DEF Verifies, RowsIn
  <2>3. QED
    BY <2>1, <2>2 DEF ViewsVerify
<1>10. TipIsCurrent'
  <2>1. ASSUME NEW u \in Writers, pc'[u] = "insert"
        PROVE  tip'[u] \in Tips(Visible(u)', ChainOf[write'[u].entity])
    BY <1>1, <1>7, <2>1 DEF ChainInv, TipIsCurrent
  <2>2. QED
    BY <2>1 DEF TipIsCurrent, Tips, RowsIn
<1>11. NumbersDrawnInOrder'
  <2>1. \A r \in Visible(w) : r.chain = c => r.position < n.position
    <3>1. \A r \in RowsIn(Visible(w), c) : r.position <= tip[w].position
      BY <1>3, <1>4 DEF Tips, RowsIn
    <3>2. tip[w].position \in Nat
      BY DEF ChainInv, TypeOK
    <3>3. QED
      BY <1>2, <1>4, <3>1, <3>2 DEF RowsIn
  <2>2. \A r \in Visible(w) : r.sequence < nextval
    BY DEF ChainInv, NumbersDrawnInOrder
  <2>3. nextval \in Nat
    BY DEF ChainInv, TypeOK
  <2>4. tip[w].position \in Nat
    BY DEF ChainInv, TypeOK
  <2>5. ASSUME NEW u \in Writers
        PROVE  /\ \A r \in Visible(u)' : r.sequence < nextval'
               /\ \A r, q \in Visible(u)' :
                    (r.chain = q.chain /\ r.position < q.position) => r.sequence < q.sequence
    <3>1. /\ \A r \in Visible(u) : r.sequence < nextval /\ r.sequence \in Nat
                                  /\ r.position \in Nat
          /\ \A r, q \in Visible(u) :
               (r.chain = q.chain /\ r.position < q.position) => r.sequence < q.sequence
      BY DEF ChainInv, NumbersDrawnInOrder, TypeOK, RowOK, Visible
    <3>2. CASE u # w
      BY <1>1, <1>7, <2>3, <3>1, <3>2
    <3>3. CASE u = w
      BY <1>1, <1>2, <1>7, <2>1, <2>2, <2>3, <2>4, <3>1, <3>3
    <3>4. QED
      BY <3>2, <3>3
  <2>6. QED
    BY <2>5 DEF NumbersDrawnInOrder, Visible
<1>12. QED
  BY <1>8, <1>9, <1>10, <1>11 DEF ChainInv

LEMMA NextInv == ChainInv /\ [Next]_vars => ChainInv'
<1> SUFFICES ASSUME ChainInv, [Next]_vars
             PROVE  ChainInv'
  OBVIOUS
<1>0. TypeOK /\ TypeOK'
  BY NextType DEF ChainInv
<1>1. CASE UNCHANGED vars
  BY <1>0, <1>1, QuietStep DEF vars
<1>2. ASSUME NEW w \in Writers, Begin(w)
      PROVE  ChainInv'
  BY <1>0, <1>2, QuietStep DEF Begin, txVars, TypeOK
<1>3. ASSUME NEW w \in Writers, NEW e \in Entities, RequestUpdate(w, e)
      PROVE  ChainInv'
  BY <1>0, <1>3, QuietStep DEF RequestUpdate, txVars, TypeOK
<1>4. ASSUME NEW w \in Writers, NEW e \in Entities, DetachedUpdate(w, e)
      PROVE  ChainInv'
  BY <1>0, <1>4, QuietStep DEF DetachedUpdate, txVars, TypeOK
<1>5. ASSUME NEW w \in Writers, Update(w)
      PROVE  ChainInv'
  BY <1>0, <1>5, QuietStep DEF Update, TypeOK
<1>6. ASSUME NEW w \in Writers, Commit(w)
      PROVE  ChainInv'
  BY <1>0, <1>6, CommitStep
<1>7. ASSUME NEW w \in Writers, Abort(w)
      PROVE  ChainInv'
  BY <1>0, <1>7, DiscardStep DEF Abort, Finish, TypeOK
<1>8. ASSUME NEW w \in Writers, DeadlockInService(w)
      PROVE  ChainInv'
  BY <1>0, <1>8, DiscardStep DEF DeadlockInService, Finish, TypeOK
<1>9. ASSUME NEW w \in Writers, AcquireChainLock(w)
      PROVE  ChainInv'
  BY <1>0, <1>9, AcquireStep
<1>10. ASSUME NEW w \in Writers, ReadTip(w)
       PROVE  ChainInv'
  BY <1>0, <1>10, ReadTipStep
<1>11. ASSUME NEW w \in Writers, Insert(w)
       PROVE  ChainInv'
  BY <1>0, <1>11, InsertStep
<1>12. ASSUME NEW w \in Writers, DeadlockInWriter(w)
       PROVE  ChainInv'
  BY <1>0, <1>12, DiscardStep DEF DeadlockInWriter, TypeOK
<1>13. ASSUME NEW w \in Writers, Retry(w)
       PROVE  ChainInv'
  BY <1>0, <1>13, QuietStep DEF Retry, txVars, TypeOK
<1>14. QED
  BY <1>1, <1>2, <1>3, <1>4, <1>5, <1>6, <1>7, <1>8, <1>9, <1>10, <1>11,
     <1>12, <1>13 DEF Next

-----------------------------------------------------------------------------
(* Theorems *)

(* The advisory lock protocol of EventWriter keeps its invariant in every  *)
(* interleaving of transactions, aborts, deadlocks and retries.            *)
THEOREM Invariance == Spec => []ChainInv
<1>1. QED
  BY InitInv, NextInv, PTL DEF Spec

(* The chain verifier accepts every chain at every moment.                 *)
THEOREM ChainAlwaysVerifies == Spec => []ChainIntact
<1>1. ChainInv => ChainIntact
  BY DEF ChainInv, ViewsVerify, ChainIntact
<1>2. QED
  BY <1>1, Invariance, PTL

(* No two rows, committed or in flight, ever claim the same position: the  *)
(* unique index on (organization_id, chain_position) is never violated.    *)
THEOREM NoPositionConflict == Spec => []PositionsUnique
<1>1. ASSUME ChainInv
      PROVE  PositionsUnique
  <2> DEFINE rows == events \cup UNION { pending[w] : w \in Writers }
  <2>1. SUFFICES ASSUME NEW r \in rows, NEW q \in rows,
                        r.chain = q.chain, r.position = q.position
                 PROVE  r = q
    BY DEF PositionsUnique
  <2>2. r.chain \in Chains
    BY <1>1 DEF ChainInv, TypeOK, RowOK
  <2>3. CASE r \in events /\ q \in events
    BY <1>1, <2>1, <2>2, <2>3 DEF ChainInv, ViewsVerify, Verifies, RowsIn
  <2>4. CASE \E w \in Writers : r \in Visible(w) /\ q \in Visible(w)
    BY <1>1, <2>1, <2>2, <2>4 DEF ChainInv, ViewsVerify, Verifies, RowsIn
  <2>5. CASE \E w, u \in Writers : r \in pending[w] /\ q \in pending[u]
    <3>1. PICK w \in Writers, u \in Writers : r \in pending[w] /\ q \in pending[u]
      BY <2>5
    <3>2. w = u
      BY <1>1, <2>1, <3>1 DEF ChainInv, OwnsItsChains
    <3>3. QED
      BY <2>4, <3>1, <3>2 DEF Visible
  <2>6. QED
    BY <2>3, <2>4, <2>5 DEF Visible
<1>2. QED
  BY <1>1, Invariance, PTL

(* Sequence numbers never contradict the order of the chain.               *)
THEOREM SequenceAlwaysFollowsChain == Spec => []SequenceFollowsChain
<1>1. ASSUME ChainInv
      PROVE  SequenceFollowsChain
  BY <1>1, ConstantsAssumption DEF ChainInv, NumbersDrawnInOrder, SequenceFollowsChain, Visible
<1>2. QED
  BY <1>1, Invariance, PTL

-----------------------------------------------------------------------------
(* Histories of entities *)

LEMMA SameHistory ==
  ASSUME NEW R, NEW S, NEW e, NEW n, RowsFor(R, e) = RowsFor(S, e)
  PROVE  HistoryUpTo(R, e, n) <=> HistoryUpTo(S, e, n)
  BY DEF HistoryUpTo

(* A transaction that has not updated an entity sees its committed rows.   *)
LEMMA UntouchedView ==
  ASSUME TypeOK, HistoryInv, NEW w \in Writers, NEW e \in Entities \ Detached,
         updates[w][e] = 0
  PROVE  RowsFor(Visible(w), e) = RowsFor(events, e)
<1>1. Audited(w, e) = version[e]
  BY DEF HistoryInv, VersionIsCurrent, Audited, TypeOK
<1>2. /\ HistoryUpTo(events, e, version[e])
      /\ HistoryUpTo(Visible(w), e, version[e])
  BY <1>1 DEF HistoryInv, ViewsAreHistories
<1>3. RowsFor(events, e) \subseteq RowsFor(Visible(w), e)
  BY DEF RowsFor, Visible
<1>4. ASSUME NEW r \in RowsFor(Visible(w), e)
      PROVE  r \in RowsFor(events, e)
  <2>1. r.version \in { q.version : q \in RowsFor(events, e) }
    BY <1>2 DEF HistoryUpTo
  <2>2. PICK q \in RowsFor(events, e) : q.version = r.version
    BY <2>1
  <2>3. QED
    BY <1>2, <1>3, <2>2 DEF HistoryUpTo
<1>5. QED
  BY <1>3, <1>4

LEMMA InitHistory == Init => HistoryInv
<1> SUFFICES ASSUME Init
             PROVE  HistoryInv
  OBVIOUS
<1>1. /\ events = {}
      /\ version = [ e \in Entities |-> 0 ]
      /\ \A w \in Writers : /\ pc[w] = "idle" /\ pending[w] = {}
                            /\ \A e \in Entities : updates[w][e] = 0
  BY DEF Init
<1>2. RowLocksHold /\ CallersKnown /\ VersionIsCurrent /\ PendingIsAhead
  BY <1>1 DEF RowLocksHold, CallersKnown, VersionIsCurrent, PendingIsAhead, Auditing
<1>3. ViewsAreHistories
  BY <1>1 DEF ViewsAreHistories, HistoryUpTo, RowsFor, Visible, Audited, Auditing
<1>4. QED
  BY <1>2, <1>3 DEF HistoryInv

(* A step that leaves rows and updates alone, and begins or ends no audit  *)
(* of an entity that is audited inside its transaction.                    *)
LEMMA QuietHistory ==
  ASSUME TypeOK, TypeOK', HistoryInv, CallersKnown',
         UNCHANGED << events, pending, updates >>,
         \A e \in Entities \ Detached : version'[e] = version[e],
         \A u \in Writers :
           \/ /\ pc'[u] \in Auditing <=> pc[u] \in Auditing
              /\ write'[u] = write[u]
           \/ /\ pc[u] \in Auditing => write[u].entity \in Detached
              /\ pc'[u] \in Auditing => write'[u].entity \in Detached
  PROVE  HistoryInv'
<1>1. RowLocksHold' /\ PendingIsAhead'
  BY DEF HistoryInv, RowLocksHold, PendingIsAhead
<1>2. VersionIsCurrent'
  BY DEF HistoryInv, VersionIsCurrent, TypeOK, Auditing
<1>3. ViewsAreHistories'
  <2>1. ASSUME NEW e \in Entities \ Detached, NEW w \in Writers
        PROVE  HistoryUpTo(Visible(w), e, Audited(w, e))'
    <3>1. Visible(w)' = Visible(w)
      BY DEF Visible
    <3>2. Audited(w, e)' = Audited(w, e)
      BY DEF Audited
    <3>3. HistoryUpTo(Visible(w), e, Audited(w, e))
      BY DEF HistoryInv, ViewsAreHistories
    <3>4. QED
      BY <3>1, <3>2, <3>3 DEF HistoryUpTo, RowsFor
  <2>2. ASSUME NEW e \in Entities \ Detached
        PROVE  HistoryUpTo(events, e, version[e])'
    BY DEF HistoryInv, ViewsAreHistories, HistoryUpTo, RowsFor
  <2>3. QED
    BY <2>1, <2>2 DEF ViewsAreHistories
<1>4. QED
  BY <1>1, <1>2, <1>3 DEF HistoryInv

(* The UPDATE runs when nobody else has updated the row: its version is    *)
(* the next one, and still to be audited.                                  *)
LEMMA UpdateHistory ==
  ASSUME TypeOK, TypeOK', HistoryInv, NEW w \in Writers, Update(w)
  PROVE  HistoryInv'
<1> DEFINE e == write[w].entity
<1>1. /\ UNCHANGED << events, version, pending, outer >>
      /\ pc[w] = "update" /\ pc'[w] = "lock"
      /\ e \in Entities
      /\ \A u \in Writers \ {w} : /\ updates[u][e] = 0
                                  /\ updates'[u] = updates[u]
                                  /\ pc'[u] = pc[u] /\ write'[u] = write[u]
      /\ write'[w] = [ entity |-> e, version |-> version[e] + updates[w][e] + 1 ]
      /\ updates'[w] = [ updates[w] EXCEPT ![e] = @ + 1 ]
  BY DEF Update, RowFree, TypeOK
<1>2. /\ write'[w].entity = e
      /\ write'[w].version = version[e] + updates[w][e] + 1
      /\ updates'[w][e] = updates[w][e] + 1
      /\ \A d \in Entities \ {e} : updates'[w][d] = updates[w][d]
      /\ updates[w][e] \in Nat /\ version[e] \in Nat
  BY <1>1 DEF TypeOK
<1> HIDE DEF e
<1>3. RowLocksHold'
  <2>1. ASSUME NEW u \in Writers, NEW v \in Writers, NEW d \in Entities,
               updates'[u][d] > 0, updates'[v][d] > 0
        PROVE  u = v
    <3>1. CASE d = e
      BY <1>1, <2>1, <3>1
    <3>2. CASE d # e
      <4>1. \A x \in Writers : updates'[x][d] = updates[x][d]
        <5>1. ASSUME NEW x \in Writers, x = w PROVE updates'[x][d] = updates[x][d]
          BY <1>2, <3>2, <5>1
        <5>2. ASSUME NEW x \in Writers, x # w PROVE updates'[x][d] = updates[x][d]
          <6>1. updates'[x] = updates[x]
            BY <1>1, <5>2
          <6> QED
            BY <6>1
        <5> QED
          BY <5>1, <5>2
      <4>2. updates[u][d] > 0 /\ updates[v][d] > 0
        BY <2>1, <4>1
      <4> QED
        BY <4>2 DEF HistoryInv, RowLocksHold
    <3>3. QED
      BY <3>1, <3>2
  <2>2. QED
    BY <2>1 DEF RowLocksHold
<1>4. CallersKnown'
  <2>1. ASSUME NEW u \in Writers, u # w
        PROVE  /\ pc'[u] \in Auditing \cup { "update", "retry" } =>
                    (outer'[u] <=> write'[u].entity \notin Detached)
               /\ pc'[u] \in { "idle", "retry", "failed" } =>
                    pending'[u] = {} /\ \A d \in Entities : updates'[u][d] = 0
    BY <1>1, <2>1 DEF HistoryInv, CallersKnown
  <2>2. /\ outer'[w] <=> write'[w].entity \notin Detached
        /\ pc'[w] = "lock"
    BY <1>1, <1>2 DEF HistoryInv, CallersKnown, e
  <2>3. QED
    BY <2>1, <2>2 DEF CallersKnown
<1>5. VersionIsCurrent'
  <2>1. ASSUME NEW u \in Writers, pc'[u] \in Auditing, write'[u].entity \notin Detached
        PROVE  /\ updates'[u][write'[u].entity] > 0
               /\ write'[u].version = version'[write'[u].entity] + updates'[u][write'[u].entity]
    <3>1. CASE u = w
      BY <1>1, <1>2, <3>1
    <3>2. CASE u # w
      BY <1>1, <2>1, <3>2 DEF HistoryInv, VersionIsCurrent
    <3>3. QED
      BY <3>1, <3>2
  <2>2. QED
    BY <2>1 DEF VersionIsCurrent
<1>6. ViewsAreHistories'
  <2>1. ASSUME NEW d \in Entities \ Detached, NEW u \in Writers
        PROVE  HistoryUpTo(Visible(u), d, Audited(u, d))'
    <3>1. Visible(u)' = Visible(u)
      BY <1>1 DEF Visible
    <3>2. Audited(u, d)' = Audited(u, d)
      <4>1. CASE u # w
        BY <1>1, <4>1 DEF Audited
      <4>2. CASE u = w /\ d = e
        BY <1>1, <1>2, <4>2 DEF Audited, Auditing
      <4>3. CASE u = w /\ d # e
        BY <1>1, <1>2, <4>3 DEF Audited, Auditing
      <4>4. QED
        BY <4>1, <4>2, <4>3
    <3>3. HistoryUpTo(Visible(u), d, Audited(u, d))
      BY DEF HistoryInv, ViewsAreHistories
    <3>4. QED
      BY <3>1, <3>2, <3>3 DEF HistoryUpTo, RowsFor
  <2>2. ASSUME NEW d \in Entities \ Detached
        PROVE  HistoryUpTo(events, d, version[d])'
    BY <1>1 DEF HistoryInv, ViewsAreHistories, HistoryUpTo, RowsFor
  <2>3. QED
    BY <2>1, <2>2 DEF ViewsAreHistories
<1>7. PendingIsAhead'
  BY <1>1 DEF HistoryInv, PendingIsAhead
<1>8. QED
  BY <1>3, <1>4, <1>5, <1>6, <1>7 DEF HistoryInv

(* An aborted transaction sees the committed rows again.                   *)
LEMMA DiscardHistory ==
  ASSUME TypeOK, TypeOK', HistoryInv, NEW w \in Writers, DiscardTransaction(w),
         pc'[w] \in { "idle", "retry", "failed" },
         pc'[w] = "retry" => pc[w] = "lock" /\ outer'[w] = outer[w] /\ write'[w] = write[w],
         \A u \in Writers \ {w} :
           pc'[u] = pc[u] /\ write'[u] = write[u] /\ outer'[u] = outer[u]
  PROVE  HistoryInv'
<1>1. /\ UNCHANGED << events, version >>
      /\ pending'[w] = {} /\ \A e \in Entities : updates'[w][e] = 0
      /\ \A u \in Writers \ {w} : pending'[u] = pending[u] /\ updates'[u] = updates[u]
  BY DEF DiscardTransaction, TypeOK
<1>2. RowLocksHold'
  <2>1. ASSUME NEW u \in Writers, NEW v \in Writers, NEW e \in Entities,
               updates'[u][e] > 0, updates'[v][e] > 0
        PROVE  u = v
    <3>1. u # w /\ v # w
      BY <1>1, <2>1
    <3>2. updates[u][e] > 0 /\ updates[v][e] > 0
      BY <1>1, <2>1, <3>1
    <3>3. QED
      BY <3>2 DEF HistoryInv, RowLocksHold
  <2>2. QED
    BY <2>1 DEF RowLocksHold
<1>3. CallersKnown'
  <2>1. ASSUME NEW u \in Writers
        PROVE  /\ pc'[u] \in Auditing \cup { "update", "retry" } =>
                    (outer'[u] <=> write'[u].entity \notin Detached)
               /\ pc'[u] \in { "idle", "retry", "failed" } =>
                    pending'[u] = {} /\ \A e \in Entities : updates'[u][e] = 0
    <3>1. CASE u = w
      BY <1>1, <3>1 DEF HistoryInv, CallersKnown, Auditing
    <3>2. CASE u # w
      BY <1>1, <3>2 DEF HistoryInv, CallersKnown
    <3>3. QED
      BY <3>1, <3>2
  <2>2. QED
    BY <2>1 DEF CallersKnown
<1>4. VersionIsCurrent'
  BY <1>1 DEF HistoryInv, VersionIsCurrent, Auditing
<1>5. ViewsAreHistories'
  <2>1. ASSUME NEW e \in Entities \ Detached
        PROVE  HistoryUpTo(events, e, version[e])'
    BY <1>1 DEF HistoryInv, ViewsAreHistories, HistoryUpTo, RowsFor
  <2>2. ASSUME NEW e \in Entities \ Detached, NEW u \in Writers
        PROVE  HistoryUpTo(Visible(u), e, Audited(u, e))'
    <3>1. CASE u = w
      <4>1. Visible(u)' = events'
        BY <1>1, <3>1 DEF Visible
      <4>2. Audited(u, e)' = version'[e]
        BY <1>1, <3>1 DEF Audited, Auditing, TypeOK
      <4>3. QED
        BY <2>1, <4>1, <4>2 DEF HistoryUpTo, RowsFor
    <3>2. CASE u # w
      <4>1. Visible(u)' = Visible(u)
        BY <1>1, <3>2 DEF Visible
      <4>2. Audited(u, e)' = Audited(u, e)
        BY <1>1, <3>2 DEF Audited
      <4>3. HistoryUpTo(Visible(u), e, Audited(u, e))
        BY DEF HistoryInv, ViewsAreHistories
      <4>4. QED
        BY <4>1, <4>2, <4>3 DEF HistoryUpTo, RowsFor
    <3>3. QED
      BY <3>1, <3>2
  <2>3. QED
    BY <2>1, <2>2 DEF ViewsAreHistories
<1>6. PendingIsAhead'
  BY <1>1 DEF HistoryInv, PendingIsAhead
<1>7. QED
  BY <1>2, <1>3, <1>4, <1>5, <1>6 DEF HistoryInv

(* The tip that was read is still the highest row of the chain in view.    *)
LEMMA TipIsHighest ==
  ASSUME ChainInv, NEW w \in Writers, pc[w] = "insert"
  PROVE  /\ tip[w].position \in Nat
         /\ \A r \in Visible(w) :
              r.chain = ChainOf[write[w].entity] => r.position <= tip[w].position
<1> DEFINE c == ChainOf[write[w].entity]
<1>1. tip[w].position \in Nat /\ tip[w] \in Tips(Visible(w), c)
  BY DEF ChainInv, TypeOK, TipIsCurrent
<1>2. \A r \in Visible(w) : r.position \in Nat
  BY DEF ChainInv, TypeOK, RowOK, Visible
<1>3. \A r \in RowsIn(Visible(w), c) : r.position <= tip[w].position
  BY <1>1, <1>2 DEF Tips, RowsIn
<1>4. QED
  BY <1>1, <1>3 DEF RowsIn

LEMMA AppendHistory ==
  ASSUME NEW R, NEW e, NEW k \in Nat, HistoryUpTo(R, e, k),
         \A r \in R : r.version \in Nat /\ r.sequence \in Nat,
         NEW n, n.entity = e, n.version = k + 1, n.sequence \in Nat,
         \A r \in R : r.sequence < n.sequence
  PROVE  HistoryUpTo(R \cup { n }, e, k + 1)
<1> DEFINE S == RowsFor(R, e)
<1>1. RowsFor(R \cup { n }, e) = S \cup { n }
  BY DEF RowsFor
<1>2. /\ \A r \in S : /\ r.version \in Nat /\ r.sequence \in Nat
                      /\ r.sequence < n.sequence
      /\ { r.version : r \in S } = 1..k
      /\ \A r, q \in S : /\ r.version = q.version => r = q
                         /\ r.version < q.version => r.sequence < q.sequence
  BY DEF RowsFor, HistoryUpTo
<1> HIDE DEF S
<1>3. \A r \in S : r.version <= k
  BY <1>2
<1>4. { r.version : r \in S \cup { n } } = 1..(k + 1)
  <2>1. { r.version : r \in S \cup { n } } = { r.version : r \in S } \cup { n.version }
    OBVIOUS
  <2>2. QED
    BY <1>2, <2>1
<1>5. \A r, q \in S \cup { n } : /\ r.version = q.version => r = q
                                 /\ r.version < q.version => r.sequence < q.sequence
  BY <1>2, <1>3
<1>6. QED
  BY <1>1, <1>4, <1>5 DEF HistoryUpTo

(* The event written is that of the version after the last one audited.    *)
LEMMA InsertHistory ==
  ASSUME ChainInv, TypeOK', HistoryInv, NEW w \in Writers, Insert(w)
  PROVE  HistoryInv'
<1> DEFINE e == write[w].entity
           n == NewRow(ChainOf[e], tip[w], nextval, e, write[w].version)
<1>0. TypeOK
  BY DEF ChainInv
<1>1. /\ UNCHANGED << events, version, updates, outer >>
      /\ pc[w] = "insert" /\ pc'[w] = "body"
      /\ e \in Entities
      /\ pending'[w] = pending[w] \cup { n }
      /\ \A u \in Writers \ {w} : /\ pending'[u] = pending[u]
                                  /\ pc'[u] = pc[u] /\ write'[u] = write[u]
  BY <1>0 DEF Insert, TypeOK
<1>2. /\ n.chain = ChainOf[e] /\ n.position = tip[w].position + 1
      /\ n.sequence = nextval /\ n.entity = e /\ n.version = write[w].version
  BY DEF NewRow
<1>3. nextval \in Nat /\ \A r \in Visible(w) : r.sequence < nextval
  BY DEF ChainInv, NumbersDrawnInOrder, TypeOK
<1>4. \A r \in Visible(w) : r.version \in Nat /\ r.sequence \in Nat /\ r.position \in Nat
  BY <1>0 DEF TypeOK, RowOK, Visible
<1>5. /\ tip[w].position \in Nat
      /\ \A r \in Visible(w) : r.chain = ChainOf[e] => r.position <= tip[w].position
  BY <1>1, TipIsHighest
<1> HIDE DEF n, e
<1>6. /\ Visible(w)' = Visible(w) \cup { n }
      /\ \A u \in Writers \ {w} : Visible(u)' = Visible(u)
  BY <1>1 DEF Visible
<1>7. RowLocksHold'
  BY <1>1 DEF HistoryInv, RowLocksHold
<1>8. CallersKnown'
  BY <1>1 DEF HistoryInv, CallersKnown, Auditing
<1>9. VersionIsCurrent'
  BY <1>1 DEF HistoryInv, VersionIsCurrent, Auditing
<1>10. ViewsAreHistories'
  <2>1. ASSUME NEW d \in Entities \ Detached
        PROVE  HistoryUpTo(events, d, version[d])'
    BY <1>1 DEF HistoryInv, ViewsAreHistories, HistoryUpTo, RowsFor
  <2>2. ASSUME NEW d \in Entities \ Detached, NEW u \in Writers
        PROVE  HistoryUpTo(Visible(u), d, Audited(u, d))'
    <3>1. HistoryUpTo(Visible(u), d, Audited(u, d))
      BY DEF HistoryInv, ViewsAreHistories
    <3>2. CASE u # w
      <4>1. Visible(u)' = Visible(u) /\ Audited(u, d)' = Audited(u, d)
        BY <1>1, <1>6, <3>2 DEF Audited
      <4>2. QED
        BY <3>1, <4>1 DEF HistoryUpTo, RowsFor
    <3>3. CASE u = w /\ d # e
      <4>1. RowsFor(Visible(u)', d) = RowsFor(Visible(u), d)
        BY <1>2, <1>6, <3>3 DEF RowsFor
      <4>2. Audited(u, d)' = Audited(u, d)
        BY <1>1, <3>3 DEF Audited, Auditing, e
      <4>3. HistoryUpTo(Visible(u)', d, Audited(u, d)')
        BY <3>1, <4>1, <4>2, SameHistory
      <4>4. QED
        BY <4>3 DEF HistoryUpTo, RowsFor
    <3>4. CASE u = w /\ d = e
      <4> DEFINE k == Audited(u, d)
      <4>1. /\ write[w].version = version[d] + updates[w][d] /\ updates[w][d] > 0
            /\ version[d] \in Nat /\ updates[w][d] \in Nat
        BY <1>0, <1>1, <3>4 DEF HistoryInv, VersionIsCurrent, Auditing, TypeOK, e
      <4>2. k \in Nat /\ n.version = k + 1 /\ Audited(u, d)' = k + 1
        BY <1>1, <1>2, <3>4, <4>1 DEF Audited, Auditing, e
      <4> HIDE DEF k
      <4>3. HistoryUpTo(Visible(u), d, k)
        BY <3>1 DEF k
      <4>4. HistoryUpTo(Visible(w) \cup { n }, d, k + 1)
        BY <1>2, <1>3, <1>4, <3>4, <4>2, <4>3, AppendHistory
      <4>5. QED
        BY <1>6, <3>4, <4>2, <4>4 DEF HistoryUpTo, RowsFor
    <3>5. QED
      BY <3>2, <3>3, <3>4
  <2>3. QED
    BY <2>1, <2>2 DEF ViewsAreHistories
<1>11. PendingIsAhead'
  <2>1. ASSUME NEW u \in Writers, NEW r \in pending'[u], NEW q \in events, r.chain = q.chain
        PROVE  q.position < r.position
    <3>1. CASE r \in pending[u]
      BY <2>1, <3>1 DEF HistoryInv, PendingIsAhead
    <3>2. CASE r \notin pending[u]
      <4>1. r = n /\ q \in Visible(w)
        BY <1>1, <2>1, <3>2 DEF Visible
      <4>2. QED
        BY <1>2, <1>4, <1>5, <2>1, <4>1
    <3>3. QED
      BY <3>1, <3>2
  <2>2. QED
    BY <1>1, <2>1 DEF PendingIsAhead
<1>12. QED
  BY <1>7, <1>8, <1>9, <1>10, <1>11 DEF HistoryInv

(* The rows and updates of a committed transaction become everybody's: of  *)
(* an entity either it or the onlooker has rows in flight.                 *)
LEMMA CommitHistory ==
  ASSUME ChainInv, TypeOK', HistoryInv, NEW w \in Writers, Commit(w)
  PROVE  HistoryInv'
<1>0. TypeOK
  BY DEF ChainInv
<1>1. /\ events' = Visible(w)
      /\ pc[w] = "body" /\ pc'[w] = "idle"
      /\ pending'[w] = {} /\ \A e \in Entities : updates'[w][e] = 0
      /\ \A e \in Entities : version'[e] = version[e] + updates[w][e]
      /\ \A u \in Writers \ {w} : /\ pending'[u] = pending[u] /\ updates'[u] = updates[u]
                                  /\ pc'[u] = pc[u] /\ write'[u] = write[u]
                                  /\ outer'[u] = outer[u]
  BY <1>0 DEF Commit, Finish, Visible, TypeOK
<1>2. \A u \in Writers, e \in Entities : updates[u][e] \in Nat /\ version[e] \in Nat
  BY <1>0 DEF TypeOK
<1>3. \A u \in Writers \ {w}, e \in Entities : updates[w][e] = 0 \/ updates[u][e] = 0
  BY <1>2 DEF HistoryInv, RowLocksHold
<1>4. RowLocksHold'
  <2>1. ASSUME NEW u \in Writers, NEW v \in Writers, NEW e \in Entities,
               updates'[u][e] > 0, updates'[v][e] > 0
        PROVE  u = v
    <3>1. u # w /\ v # w
      BY <1>1, <2>1
    <3>2. QED
      BY <1>1, <2>1, <3>1 DEF HistoryInv, RowLocksHold
  <2>2. QED
    BY <2>1 DEF RowLocksHold
<1>5. CallersKnown'
  BY <1>1 DEF HistoryInv, CallersKnown, Auditing
<1>6. VersionIsCurrent'
  <2>1. ASSUME NEW u \in Writers, pc'[u] \in Auditing, write'[u].entity \notin Detached
        PROVE  /\ updates'[u][write'[u].entity] > 0
               /\ write'[u].version = version'[write'[u].entity] + updates'[u][write'[u].entity]
    <3> DEFINE e == write[u].entity
    <3>1. u # w /\ pc[u] \in Auditing /\ write'[u] = write[u] /\ updates'[u] = updates[u]
      BY <1>1, <2>1 DEF Auditing
    <3>2. e \in Entities /\ e \notin Detached
      BY <1>0, <2>1, <3>1 DEF TypeOK, Auditing
    <3>3. updates[u][e] > 0 /\ write[u].version = version[e] + updates[u][e]
      BY <3>1, <3>2 DEF HistoryInv, VersionIsCurrent
    <3>4. updates[w][e] = 0
      BY <1>3, <3>1, <3>2, <3>3
    <3>5. version'[e] = version[e]
      BY <1>1, <1>2, <3>2, <3>4
    <3>6. QED
      BY <3>1, <3>3, <3>5
  <2>2. QED
    BY <2>1 DEF VersionIsCurrent
<1>7. ViewsAreHistories'
  <2>1. ASSUME NEW e \in Entities \ Detached
        PROVE  HistoryUpTo(Visible(w), e, version'[e])
    <3>1. Audited(w, e) = version'[e]
      BY <1>1 DEF Audited, Auditing
    <3>2. QED
      BY <3>1 DEF HistoryInv, ViewsAreHistories
  <2>2. ASSUME NEW e \in Entities \ Detached
        PROVE  HistoryUpTo(events, e, version[e])'
    BY <1>1, <2>1 DEF HistoryUpTo, RowsFor
  <2>3. ASSUME NEW e \in Entities \ Detached, NEW u \in Writers
        PROVE  HistoryUpTo(Visible(u), e, Audited(u, e))'
    <3>1. CASE u = w
      <4>1. Visible(u)' = events' /\ Audited(u, e)' = version'[e]
        BY <1>1, <1>2, <3>1 DEF Visible, Audited, Auditing
      <4>2. QED
        BY <2>2, <4>1 DEF HistoryUpTo, RowsFor
    <3>2. CASE u # w /\ updates[w][e] = 0
      <4>1. RowsFor(Visible(u)', e) = RowsFor(Visible(u), e)
        <5>1. RowsFor(Visible(w), e) = RowsFor(events, e)
          BY <1>0, <3>2, UntouchedView
        <5>2. RowsFor(Visible(u)', e) = RowsFor(Visible(w), e) \cup RowsFor(pending[u], e)
          BY <1>1, <3>2 DEF Visible, RowsFor
        <5>3. RowsFor(Visible(u), e) = RowsFor(events, e) \cup RowsFor(pending[u], e)
          BY DEF Visible, RowsFor
        <5>4. QED
          BY <5>1, <5>2, <5>3
      <4>2. version'[e] = version[e]
        BY <1>1, <1>2, <3>2
      <4>3. Audited(u, e)' = Audited(u, e)
        BY <1>1, <3>2, <4>2 DEF Audited
      <4>4. HistoryUpTo(Visible(u)', e, Audited(u, e))
        BY <4>1, SameHistory DEF HistoryInv, ViewsAreHistories
      <4>5. QED
        BY <4>3, <4>4 DEF HistoryUpTo, RowsFor
    <3>3. CASE u # w /\ updates[u][e] = 0
      <4>1. RowsFor(Visible(u)', e) = RowsFor(Visible(w), e)
        <5>1. RowsFor(Visible(u), e) = RowsFor(events, e)
          BY <1>0, <3>3, UntouchedView
        <5>2. RowsFor(Visible(u)', e) = RowsFor(Visible(w), e) \cup RowsFor(pending[u], e)
          BY <1>1, <3>3 DEF Visible, RowsFor
        <5>3. RowsFor(pending[u], e) \subseteq RowsFor(Visible(w), e)
          BY <5>1 DEF Visible, RowsFor
        <5>4. QED
          BY <5>2, <5>3
      <4>2. Audited(u, e)' = version'[e]
        <5>1. ~ (pc[u] \in Auditing /\ write[u].entity = e)
          BY <3>3 DEF HistoryInv, VersionIsCurrent
        <5>2. QED
          BY <1>1, <1>2, <3>3, <5>1 DEF Audited
      <4>3. HistoryUpTo(Visible(u)', e, version'[e])
        BY <2>1, <4>1, SameHistory
      <4>4. QED
        BY <4>2, <4>3 DEF HistoryUpTo, RowsFor
    <3>4. QED
      BY <1>3, <3>1, <3>2, <3>3
  <2>4. QED
    BY <2>2, <2>3 DEF ViewsAreHistories
<1>8. PendingIsAhead'
  <2>1. ASSUME NEW u \in Writers, NEW r \in pending'[u], NEW q \in Visible(w),
               r.chain = q.chain
        PROVE  q.position < r.position
    <3>1. u # w /\ r \in pending[u]
      BY <1>1
    <3>2. q \notin pending[w]
      BY <2>1, <3>1 DEF ChainInv, OwnsItsChains
    <3>3. QED
      BY <2>1, <3>1, <3>2 DEF HistoryInv, PendingIsAhead, Visible
  <2>2. QED
    BY <1>1, <2>1 DEF PendingIsAhead
<1>9. QED
  BY <1>4, <1>5, <1>6, <1>7, <1>8 DEF HistoryInv

LEMMA NextHistory == ChainInv /\ HistoryInv /\ [Next]_vars => HistoryInv'
<1> SUFFICES ASSUME ChainInv, HistoryInv, [Next]_vars
             PROVE  HistoryInv'
  OBVIOUS
<1>0. TypeOK /\ TypeOK' /\ CallersKnown
  BY NextType DEF ChainInv, HistoryInv
<1>1. CASE UNCHANGED vars
  <2>1. CallersKnown'
    BY <1>0, <1>1 DEF CallersKnown, vars, Auditing
  <2>2. QED
    BY <1>0, <1>1, <2>1, QuietHistory DEF vars
<1>2. ASSUME NEW w \in Writers, Begin(w)
      PROVE  HistoryInv'
  <2>1. CallersKnown'
    BY <1>0, <1>2 DEF CallersKnown, Begin, txVars, TypeOK, Auditing
  <2>2. QED
    BY <1>0, <1>2, <2>1, QuietHistory DEF Begin, txVars, TypeOK, Auditing
<1>3. ASSUME NEW w \in Writers, NEW e \in Entities, RequestUpdate(w, e)
      PROVE  HistoryInv'
  <2>1. CallersKnown'
    BY <1>0, <1>3 DEF CallersKnown, RequestUpdate, txVars, TypeOK, Auditing
  <2>2. \A u \in Writers : u # w => pc'[u] = pc[u] /\ write'[u] = write[u]
    BY <1>0, <1>3 DEF RequestUpdate, TypeOK
  <2>3. pc[w] \notin Auditing /\ pc'[w] \notin Auditing
    BY <1>0, <1>3 DEF RequestUpdate, TypeOK, Auditing
  <2>4. UNCHANGED << events, version, pending, updates >>
    BY <1>3 DEF RequestUpdate, txVars
  <2>5. QED
    BY <1>0, <2>1, <2>2, <2>3, <2>4, QuietHistory
<1>4. ASSUME NEW w \in Writers, NEW e \in Entities, DetachedUpdate(w, e)
      PROVE  HistoryInv'
  <2>1. CallersKnown'
    BY <1>0, <1>4 DEF CallersKnown, DetachedUpdate, txVars, TypeOK, Auditing
  <2>2. \A u \in Writers : u # w => pc'[u] = pc[u] /\ write'[u] = write[u]
    BY <1>0, <1>4 DEF DetachedUpdate, TypeOK
  <2>3. pc[w] \notin Auditing /\ write'[w].entity \in Detached
    BY <1>0, <1>4 DEF DetachedUpdate, TypeOK, Auditing
  <2>4. /\ UNCHANGED << events, pending, updates >>
        /\ \A d \in Entities \ Detached : version'[d] = version[d]
    BY <1>0, <1>4 DEF DetachedUpdate, txVars, TypeOK
  <2>5. QED
    BY <1>0, <2>1, <2>2, <2>3, <2>4, QuietHistory
<1>5. ASSUME NEW w \in Writers, Update(w)
      PROVE  HistoryInv'
  BY <1>0, <1>5, UpdateHistory
<1>6. ASSUME NEW w \in Writers, Commit(w)
      PROVE  HistoryInv'
  BY <1>0, <1>6, CommitHistory
<1>7. ASSUME NEW w \in Writers, Abort(w)
      PROVE  HistoryInv'
  BY <1>0, <1>7, DiscardHistory DEF Abort, Finish, TypeOK
<1>8. ASSUME NEW w \in Writers, DeadlockInService(w)
      PROVE  HistoryInv'
  BY <1>0, <1>8, DiscardHistory DEF DeadlockInService, Finish, TypeOK
<1>9. ASSUME NEW w \in Writers, AcquireChainLock(w)
      PROVE  HistoryInv'
  <2>1. CallersKnown'
    BY <1>0, <1>9 DEF CallersKnown, AcquireChainLock, txVars, TypeOK, Auditing
  <2>2. QED
    BY <1>0, <1>9, <2>1, QuietHistory DEF AcquireChainLock, txVars, TypeOK, Auditing
<1>10. ASSUME NEW w \in Writers, ReadTip(w)
       PROVE  HistoryInv'
  <2>1. CallersKnown'
    BY <1>0, <1>10 DEF CallersKnown, ReadTip, txVars, TypeOK, Auditing
  <2>2. QED
    BY <1>0, <1>10, <2>1, QuietHistory DEF ReadTip, txVars, TypeOK, Auditing
<1>11. ASSUME NEW w \in Writers, Insert(w)
       PROVE  HistoryInv'
  BY <1>0, <1>11, InsertHistory
<1>12. ASSUME NEW w \in Writers, DeadlockInWriter(w)
       PROVE  HistoryInv'
  BY <1>0, <1>12, DiscardHistory DEF DeadlockInWriter, TypeOK
<1>13. ASSUME NEW w \in Writers, Retry(w)
       PROVE  HistoryInv'
  <2>1. CallersKnown'
    BY <1>0, <1>13 DEF CallersKnown, Retry, txVars, TypeOK, Auditing
  <2>2. /\ UNCHANGED << events, version, pending, updates, write >>
        /\ pc[w] \notin Auditing
        /\ pc'[w] \in Auditing => write[w].entity \in Detached
        /\ \A u \in Writers : u # w => pc'[u] = pc[u]
    BY <1>0, <1>13 DEF CallersKnown, Retry, txVars, TypeOK, Auditing
  <2>3. QED
    BY <1>0, <2>1, <2>2, QuietHistory
<1>14. QED
  BY <1>1, <1>2, <1>3, <1>4, <1>5, <1>6, <1>7, <1>8, <1>9, <1>10, <1>11,
     <1>12, <1>13 DEF Next

(* Row locks keep every transaction's view of an entity's events complete, *)
(* in every interleaving of transactions, aborts, deadlocks and retries.   *)
THEOREM Histories == Spec => []HistoryInv
<1>1. QED
  BY InitHistory, NextHistory, Invariance, PTL DEF Spec

(* The events of an entity that is audited inside its service's            *)
(* transaction are its committed mutations, each once and in order, at     *)
(* every moment.                                                           *)
THEOREM EventsMatchData == Spec => []AuditMatchesData
<1>1. HistoryInv => AuditMatchesData
  BY DEF HistoryInv, ViewsAreHistories, HistoryUpTo, AuditMatchesData, HistoryOf
<1>2. QED
  BY <1>1, Histories, PTL

-----------------------------------------------------------------------------
(* The refinement *)

EntryOf(r) ==
  [ chain |-> r.chain, position |-> r.position, entity |-> r.entity, version |-> r.version ]

LEMMA EntriesAreRows ==
  /\ Entries = { EntryOf(r) : r \in events }
  /\ Entries' = { EntryOf(r) : r \in events' }
  BY DEF Entries, EntryOf

(* A COMMIT is the abstract step: it appends the rows in flight, each      *)
(* beyond the committed chain and of a version beyond the committed one.   *)
LEMMA CommitAppends ==
  ASSUME Detached = {}, ChainInv, HistoryInv, NEW w \in Writers, Commit(w)
  PROVE  Log!Append
<1>0. TypeOK
  BY DEF ChainInv
<1>1. /\ events' = events \cup pending[w]
      /\ \A e \in Entities : version'[e] = version[e] + updates[w][e]
      /\ \A e \in Entities : version[e] \in Nat /\ updates[w][e] \in Nat
      /\ pc[w] = "body"
  BY <1>0 DEF Commit, TypeOK
<1> DEFINE New == pending[w] \ events
<1>2. ASSUME NEW r \in Visible(w)
      PROVE  /\ r.entity \in Entities /\ r.chain \in Chains /\ r.chain = ChainOf[r.entity]
             /\ r.position \in Nat \ {0} /\ r.version \in Nat /\ r.sequence \in Nat
  BY <1>0 DEF TypeOK, RowOK, Visible
<1>3. ASSUME NEW e \in Entities
      PROVE  /\ HistoryUpTo(events, e, version[e])
             /\ HistoryUpTo(Visible(w), e, version'[e])
  <2>1. Audited(w, e) = version'[e]
    BY <1>1 DEF Audited, Auditing
  <2>2. QED
    BY <2>1 DEF HistoryInv, ViewsAreHistories
<1>4. ASSUME NEW r \in New
      PROVE  /\ version[r.entity] < r.version /\ r.version <= version'[r.entity]
             /\ \A q \in events : q.chain = r.chain => q.position < r.position
  <2> DEFINE e == r.entity
  <2>1. r \in Visible(w) /\ e \in Entities /\ r.version \in Nat
    BY <1>2 DEF Visible
  <2>2. r.version \in 1..version'[e]
    BY <1>3, <2>1 DEF HistoryUpTo, RowsFor
  <2>3. ~ (r.version <= version[e])
    <3>1. SUFFICES ASSUME r.version <= version[e]
                   PROVE  FALSE
      OBVIOUS
    <3>2. r.version \in { q.version : q \in RowsFor(events, e) }
      BY <1>1, <1>3, <2>1, <2>2, <3>1 DEF HistoryUpTo
    <3>3. PICK q \in RowsFor(events, e) : q.version = r.version
      BY <3>2
    <3>4. q = r
      BY <1>3, <2>1, <3>3 DEF HistoryUpTo, RowsFor, Visible
    <3>5. QED
      BY <3>3, <3>4 DEF RowsFor
  <2>4. \A q \in events : q.chain = r.chain => q.position < r.position
    BY DEF HistoryInv, PendingIsAhead
  <2>5. QED
    BY <1>1, <2>1, <2>2, <2>3, <2>4
<1>5. ASSUME NEW r \in New, NEW q \in New
      PROVE  /\ r.chain = q.chain /\ r.position = q.position => r = q
             /\ r.entity = q.entity =>
                  (r.version < q.version <=> r.position < q.position)
  <2>1. r \in Visible(w) /\ q \in Visible(w)
    BY DEF Visible
  <2>2. ASSUME r.chain = q.chain, r.position = q.position
        PROVE  r = q
    BY <1>2, <2>1, <2>2 DEF ChainInv, ViewsVerify, Verifies, RowsIn
  <2>3. ASSUME r.entity = q.entity
        PROVE  r.version < q.version <=> r.position < q.position
    <3>1. /\ r.chain = q.chain
          /\ r.position \in Nat /\ q.position \in Nat
          /\ r.version \in Nat /\ q.version \in Nat
          /\ r.sequence \in Nat /\ q.sequence \in Nat
      BY <1>2, <2>1, <2>3
    <3>2. /\ r.position < q.position => r.sequence < q.sequence
          /\ q.position < r.position => q.sequence < r.sequence
      BY <2>1, <3>1 DEF ChainInv, NumbersDrawnInOrder
    <3>3. /\ r.version = q.version => r = q
          /\ r.version < q.version => r.sequence < q.sequence
          /\ q.version < r.version => q.sequence < r.sequence
      BY <1>2, <1>3, <2>1, <2>3 DEF HistoryUpTo, RowsFor
    <3>4. r.position = q.position => r = q
      BY <2>2, <3>1
    <3>5. QED
      BY <3>1, <3>2, <3>3, <3>4
  <2>4. QED
    BY <2>2, <2>3
<1>6. Entries = { EntryOf(r) : r \in events } /\ Entries' = { EntryOf(r) : r \in events \cup New }
  BY <1>1, EntriesAreRows
<1>7. \A r : /\ EntryOf(r).chain = r.chain /\ EntryOf(r).position = r.position
             /\ EntryOf(r).entity = r.entity /\ EntryOf(r).version = r.version
  BY DEF EntryOf
<1>8. \A r \in New : EntryOf(r) \notin Entries
  <2>1. SUFFICES ASSUME NEW r \in New, NEW q \in events, EntryOf(r) = EntryOf(q)
                 PROVE  FALSE
    BY <1>6
  <2>2. q.chain = r.chain /\ q.position = r.position
    BY <1>7, <2>1
  <2>3. r.position \in Nat
    BY <1>2 DEF Visible
  <2>4. QED
    BY <1>4, <2>2, <2>3
<1>9. Log!Fresh = { EntryOf(r) : r \in New }
  BY <1>6, <1>8 DEF Log!Fresh
<1>10. Entries \subseteq Entries'
  BY <1>6
<1>11. ASSUME NEW x \in Log!Fresh
       PROVE  /\ x.entity \in Entities
              /\ x.chain = ChainOf[x.entity]
              /\ x.position > 0
              /\ version[x.entity] < x.version /\ x.version <= version'[x.entity]
              /\ \A y \in Entries : y.chain = x.chain => y.position < x.position
              /\ x.position > 1 =>
                   \E y \in Entries' : y.chain = x.chain /\ y.position + 1 = x.position
  <2>1. PICK r \in New : x = EntryOf(r)
    BY <1>9
  <2>2. r \in Visible(w)
    BY DEF Visible
  <2>3. x.position > 1 => \E y \in Entries' : y.chain = x.chain /\ y.position + 1 = x.position
    <3>1. ASSUME r.position > 1
          PROVE  \E q \in Visible(w) : q.chain = r.chain /\ q.position + 1 = r.position
      <4>1. r \in RowsIn(Visible(w), r.chain) /\ r.chain \in Chains /\ r.position # 1
        BY <1>2, <2>2, <3>1 DEF RowsIn
      <4>2. Verifies(Visible(w), r.chain)
        BY <4>1 DEF ChainInv, ViewsVerify
      <4>3. \E q \in RowsIn(Visible(w), r.chain) : q.position + 1 = r.position
        BY <4>1, <4>2 DEF Verifies
      <4>4. QED
        BY <4>3 DEF RowsIn
    <3>2. \A q \in Visible(w) : EntryOf(q) \in Entries'
      BY <1>6 DEF Visible
    <3>3. QED
      BY <1>7, <2>1, <3>1, <3>2
  <2>4. \A y \in Entries : y.chain = x.chain => y.position < x.position
    BY <1>4, <1>6, <1>7, <2>1
  <2>5. /\ x.entity = r.entity /\ x.chain = r.chain
        /\ x.position = r.position /\ x.version = r.version
    BY <1>7, <2>1
  <2>6. QED
    BY <1>2, <1>4, <2>2, <2>3, <2>4, <2>5
<1>12. ASSUME NEW x \in Log!Fresh, NEW y \in Log!Fresh
       PROVE  /\ x.chain = y.chain /\ x.position = y.position => x = y
              /\ x.entity = y.entity =>
                   (x.version < y.version <=> x.position < y.position)
  <2>1. PICK r \in New, q \in New : x = EntryOf(r) /\ y = EntryOf(q)
    BY <1>9
  <2>2. QED
    BY <1>5, <1>7, <2>1
<1>13. ASSUME NEW e \in Entities
       PROVE  /\ version[e] <= version'[e]
              /\ \A v \in (version[e] + 1)..version'[e] :
                   \E x \in Log!Fresh : x.entity = e /\ x.version = v
  <2>1. version[e] <= version'[e]
    BY <1>1
  <2>2. ASSUME NEW v \in (version[e] + 1)..version'[e]
        PROVE  \E x \in Log!Fresh : x.entity = e /\ x.version = v
    <3>1. v \in 1..version'[e] /\ v > version[e]
      BY <1>1, <2>2
    <3>2. PICK r \in RowsFor(Visible(w), e) : r.version = v
      BY <1>3, <3>1 DEF HistoryUpTo
    <3>3. r \notin events
      <4>1. ASSUME r \in events
            PROVE  v \in 1..version[e]
        BY <1>3, <3>2, <4>1 DEF HistoryUpTo, RowsFor
      <4>2. QED
        BY <1>1, <3>1, <4>1
    <3>4. r \in New /\ r.entity = e
      BY <3>2, <3>3 DEF RowsFor, Visible
    <3>5. EntryOf(r) \in Log!Fresh
      BY <1>9, <3>4
    <3>6. QED
      BY <1>7, <3>2, <3>4, <3>5
  <2>3. QED
    BY <2>1, <2>2
<1>14. QED
  BY <1>10, <1>11, <1>12, <1>13 DEF Log!Append

(* Every other step leaves committed rows and versions as they are.        *)
LEMMA StepRefines ==
  ASSUME Detached = {}, ChainInv, HistoryInv, [Next]_vars
  PROVE  [Log!Append]_(Log!vars)
<1>1. \/ UNCHANGED << events, version >>
      \/ \E w \in Writers : Commit(w)
  <2>1. ASSUME NEW w \in Writers, Abort(w) \/ DeadlockInService(w) \/ DeadlockInWriter(w)
        PROVE  UNCHANGED << events, version >>
    BY <2>1 DEF Abort, DeadlockInService, DeadlockInWriter, DiscardTransaction
  <2>2. ASSUME NEW w \in Writers, Begin(w) \/ AcquireChainLock(w) \/ ReadTip(w) \/ Retry(w)
        PROVE  UNCHANGED << events, version >>
    BY <2>2 DEF Begin, AcquireChainLock, ReadTip, Retry
  <2>3. ASSUME NEW w \in Writers, Update(w) \/ Insert(w)
        PROVE  UNCHANGED << events, version >>
    BY <2>3 DEF Update, Insert
  <2>4. ASSUME NEW w \in Writers, NEW e \in Entities, RequestUpdate(w, e) \/ DetachedUpdate(w, e)
        PROVE  UNCHANGED << events, version >>
    BY <2>4 DEF RequestUpdate, DetachedUpdate
  <2>5. QED
    BY <2>1, <2>2, <2>3, <2>4 DEF Next, vars
<1>2. CASE UNCHANGED << events, version >>
  BY <1>2 DEF Log!vars, Entries
<1>3. ASSUME NEW w \in Writers, Commit(w)
      PROVE  [Log!Append]_(Log!vars)
  BY <1>3, CommitAppends
<1>4. QED
  BY <1>1, <1>2, <1>3

(* When every service audits inside its own transaction, as all but the    *)
(* MFA enrolment do, concurrent, failing, retrying transactions implement  *)
(* the atomic append-only log.                                             *)
THEOREM Refinement ==
  ASSUME Detached = {}
  PROVE  Spec => ImplementsLog
<1>1. Init => Log!Init
  BY DEF Init, Log!Init, Entries
<1>2. ChainInv /\ HistoryInv /\ [Next]_vars => [Log!Append]_(Log!vars)
  BY StepRefines
<1>3. QED
  BY <1>1, <1>2, Invariance, Histories, PTL DEF Spec, ImplementsLog, Log!Spec
=============================================================================
