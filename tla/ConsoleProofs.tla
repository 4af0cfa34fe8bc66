----------------------------- MODULE ConsoleProofs -----------------------------
(***************************************************************************)
(* Theorems about what the console's pages share.  Of ConsoleCache, for    *)
(* every set of pages, queries and writes, any positions and any number of *)
(* faults: an answer of the cache is of the position on show and as recent *)
(* as what the console has been told.  Of ConsoleSession, for any slots,   *)
(* sessions and bounds: who was signed out stays out.                      *)
(***************************************************************************)
EXTENDS ConsoleCache, ConsoleSession, TLAPS

Keys    == Watched \X Modes
Fetches == [ status : { "idle", "sent", "back" }, of : Modes, got : Nat ]
Entries == [ data : Nat, of : Modes, invalid : BOOLEAN, fetch : Fetches ]
Writes  == [ status : { "paused", "sent", "applied" }, op : Ops,
             mounted : BOOLEAN, replaying : BOOLEAN, at : [ Watched -> Nat ] ]

Typed ==
  /\ page \in Pages /\ asOf \in Modes /\ playing \in BOOLEAN
  /\ (playing => asOf # Live)
  /\ online \in BOOLEAN /\ stream \in BOOLEAN /\ (stream => online /\ asOf = Live)
  /\ ver \in [ Watched -> Nat ] /\ told \in [ Watched -> Nat ]
  /\ mutation \in Writes \cup { NoWrite }
  /\ writes \in 0..MaxWrites /\ faults \in 0..MaxFaults

(* What an entry holds, and what it fetches, is of the position its key    *)
(* holds, and no newer than the server ("most"); what an entry of today    *)
(* holds unflagged, and an answer on its way to it, is as recent as what   *)
(* the console was told ("least").                                         *)
Fits(k, c, least, most) ==
  /\ c \in Entries
  /\ c.data # NoData => c.of = KeyOf(k[1], k[2])
  /\ ~IsIdle(c) => c.fetch.of = KeyOf(k[1], k[2])
  /\ c.data <= most /\ c.fetch.got <= most
  /\ k[2] = Live /\ c.data # NoData /\ ~c.invalid => least <= c.data
  /\ k[2] = Live /\ c.fetch.status = "back" => least <= c.fetch.got
EntriesFit ==
  /\ cache = [ k \in Keys |-> cache[k] ]
  /\ \A k \in Keys : Fits(k, cache[k], told[k[1]], ver[k[1]])

(* News is of what the server has done.                                    *)
Known(at, now) == at \in [ Watched -> Nat ] /\ \A r \in Watched : at[r] <= now[r]
NewsIsKnown ==
  /\ mutation # NoWrite => Known(mutation.at, ver)
  /\ \A e \in events : Known(e.at, ver)
  /\ \A q \in Watched : told[q] <= ver[q]

(* Every version is a write's; the operator's own may still be to come.    *)
Coming == IF mutation.status \in { "paused", "sent" } THEN 1 ELSE 0
Counted == \A r \in Watched : 1 <= ver[r] /\ ver[r] + Coming <= writes + 1

(* The inductive invariant of the cache.                                   *)
CacheInv == Typed /\ EntriesFit /\ NewsIsKnown /\ Counted

-----------------------------------------------------------------------------
(* The same keys for every operation.                                      *)
LEMMA AllOf ==
  ASSUME NEW ops, NEW keys
  PROVE  DOMAIN All(ops, keys) = ops /\ \A x \in ops : All(ops, keys)[x] = keys
BY DEF All

(* What a merged table has for an entry is what one of the tables has.     *)
LEMMA Merging ==
  ASSUME NEW tables, NEW x
  PROVE  /\ x \in DOMAIN Merged(tables) <=> \E f \in tables : x \in DOMAIN f
         /\ x \in DOMAIN Merged(tables) =>
              \E f \in tables : x \in DOMAIN f /\ Merged(tables)[x] = f[x]
BY DEF Merged

(* Every mutation's onSuccess invalidates the resource its call addresses  *)
(* (the hooks against the API modules, one by one).                        *)
LEMMA AddressedIsInvalidated ==
  \A op \in DOMAIN Addressed : op \in DOMAIN Invalidates
                             /\ Addressed[op] \subseteq Invalidates[op]
<1> DEFINE W == { TaskApi, IncidentApi, IncidentThreadApi, SiteApi, AssetApi, AreaApi,
                  ChokepointApi, RuleApi, DoctrineApi, AlertApi, RecommendationApi,
                  AdminApi }
           I == { TaskMutations, IncidentMutations, IncidentThreadMutations,
                  SiteMutations, AssetMutations, AreaMutations, ChokepointMutations,
                  RuleMutations, DoctrineMutations, AlertMutations,
                  RecommendationMutations, UserMutations, OrganizationMutations,
                  SessionMutations, InjectMutation }
<1>1. Addressed = Merged(W) /\ Invalidates = Merged(I)
  BY DEF Addressed, Invalidates
<1>2. ASSUME NEW f \in W, NEW op \in DOMAIN f PROVE \E g \in I : op \in DOMAIN g
  BY <1>2, AllOf DEF TaskApi, IncidentApi, IncidentThreadApi, SiteApi, AssetApi, AreaApi,
    ChokepointApi, RuleApi, DoctrineApi, AlertApi, RecommendationApi, AdminApi,
    TaskMutations, IncidentMutations, IncidentThreadMutations,
    SiteMutations, AssetMutations, AreaMutations, ChokepointMutations,
    RuleMutations, DoctrineMutations, AlertMutations,
    RecommendationMutations, UserMutations, OrganizationMutations,
    SessionMutations, InjectMutation
<1>3. ASSUME NEW f \in W, NEW g \in I, NEW op \in DOMAIN f, op \in DOMAIN g
      PROVE  f[op] \subseteq g[op]
  BY <1>3, AllOf DEF TaskApi, IncidentApi, IncidentThreadApi, SiteApi, AssetApi, AreaApi,
    ChokepointApi, RuleApi, DoctrineApi, AlertApi, RecommendationApi, AdminApi,
    TaskMutations, IncidentMutations, IncidentThreadMutations,
    SiteMutations, AssetMutations, AreaMutations, ChokepointMutations,
    RuleMutations, DoctrineMutations, AlertMutations,
    RecommendationMutations, UserMutations, OrganizationMutations,
    SessionMutations, InjectMutation
<1> HIDE DEF W, I
<1> QED
  BY <1>1, <1>2, <1>3, Merging

-----------------------------------------------------------------------------
(* Live is a position, and a page shows a query at the key of its request. *)
LEMMA KeyFacts ==
  ASSUME NEW p, NEW t \in Modes, NEW k \in ActiveAt(p, t)
  PROVE  /\ Live \in Modes /\ AsOf(k[1], t) \in Modes
         /\ k \in Keys /\ k[2] = AsOf(k[1], t) /\ KeyOf(k[1], k[2]) = AsOf(k[1], t)
BY CacheAssumption DEF CacheAssumption, ActiveAt, Keys, KeyOf, AsOf, Modes, Live

(* A request is for the position its key holds, and no answer to it is     *)
(* there yet unless that position is past.                                 *)
LEMMA FetchFits ==
  ASSUME NEW p, NEW t \in Modes, NEW k \in ActiveAt(p, t), NEW c,
         NEW least \in Nat, NEW most \in Nat, most >= 1, online \in BOOLEAN,
         Fits(k, c, least, most)
  PROVE  /\ Fits(k, [ c EXCEPT !.fetch = RequestFor(k[1], t) ], least, most)
         /\ \A more \in Nat :
              Fits(k, [ c EXCEPT !.invalid = TRUE, !.fetch = RequestFor(k[1], t) ],
                   more, most)
<1>1. /\ RequestFor(k[1], t) \in Fetches /\ RequestFor(k[1], t).status # "idle"
      /\ RequestFor(k[1], t).of = KeyOf(k[1], k[2]) /\ RequestFor(k[1], t).got <= 1
      /\ k[2] = Live => RequestFor(k[1], t).status = "sent"
  BY KeyFacts DEF RequestFor, Fetches, NoData
<1> DEFINE r == RequestFor(k[1], t)
<1>2. r.got \in Nat /\ r.got <= most /\ (r.status # "back" \/ k[2] # Live)
  BY <1>1 DEF Fetches
<1>3. r.got <= most
  BY <1>1 DEF Fetches
<1> HIDE DEF r
<1>4. ASSUME NEW d, d = [ c EXCEPT !.fetch = r ] PROVE Fits(k, d, least, most)
  BY <1>1, <1>2, <1>3, <1>4 DEF Fits, Entries, IsIdle, r
<1>5. ASSUME NEW d, d = [ c EXCEPT !.invalid = TRUE, !.fetch = r ], NEW more \in Nat
      PROVE  Fits(k, d, more, most)
  BY <1>1, <1>2, <1>3, <1>5 DEF Fits, Entries, IsIdle, r
<1> QED
  BY <1>4, <1>5 DEF r

(* A fetch that ends without an answer.                                    *)
LEMMA StopFits ==
  ASSUME NEW k, NEW c, NEW least \in Nat, NEW most \in Nat, Fits(k, c, least, most)
  PROVE  Fits(k, [ c EXCEPT !.fetch = NoFetch ], least, most)
<1>1. Live \in Modes
  BY CacheAssumption DEF CacheAssumption, Modes, Live
<1> QED
  BY <1>1 DEF Fits, Entries, Fetches, NoFetch, NoData, IsIdle

(* An entry that is flagged may be behind any news, but for an answer that *)
(* is on its way.                                                          *)
LEMMA FlagFits ==
  ASSUME NEW k, NEW c, NEW least \in Nat, NEW more \in Nat, NEW most \in Nat,
         Fits(k, c, least, most), k[2] # Live \/ more = least \/ IsIdle(c)
  PROVE  Fits(k, [ c EXCEPT !.invalid = TRUE ], more, most)
BY DEF Fits, Entries, IsIdle

(* What arrives is as recent as it was on its way.                         *)
LEMMA AnswerFits ==
  ASSUME NEW k, NEW c, NEW least \in Nat, NEW most \in Nat, Fits(k, c, least, most),
         c.fetch.status = "back"
  PROVE  Fits(k, Answered(c), least, most)
<1>1. Live \in Modes
  BY CacheAssumption DEF CacheAssumption, Modes, Live
<1> QED
  BY <1>1 DEF Fits, Entries, Fetches, Answered, NoFetch, NoData, IsIdle

(* A forgotten entry is empty.                                             *)
LEMMA ForgetFits ==
  ASSUME NEW k, NEW c, NEW least \in Nat, NEW most \in Nat, Fits(k, c, least, most)
  PROVE  Fits(k, Forgotten(k, c), least, most)
<1>1. Live \in Modes
  BY CacheAssumption DEF CacheAssumption, Modes, Live
<1>2. Fits(k, Empty, least, most)
  BY <1>1 DEF Fits, Empty, Entries, Fetches, NoFetch, NoData, IsIdle
<1> QED
  BY <1>2 DEF Forgotten

(* The server only moves on.                                               *)
LEMMA LaterFits ==
  ASSUME NEW k, NEW c, NEW least \in Nat, NEW most \in Nat, NEW later \in Nat,
         Fits(k, c, least, most), most <= later
  PROVE  Fits(k, c, least, later)
BY DEF Fits, Entries, Fetches

-----------------------------------------------------------------------------
(* What the invariant says of one key.                                     *)
LEMMA KeyFits ==
  ASSUME CacheInv, NEW k \in Keys
  PROVE  /\ k[1] \in Watched /\ k[2] \in Modes
         /\ told[k[1]] \in Nat /\ ver[k[1]] \in Nat /\ ver[k[1]] >= 1
         /\ told[k[1]] <= ver[k[1]]
         /\ Fits(k, cache[k], told[k[1]], ver[k[1]])
         /\ DOMAIN cache = Keys
BY DEF CacheInv, Typed, EntriesFit, NewsIsKnown, Counted, Keys

(* A change of page or of position keeps every entry in its place.         *)
LEMMA MovedFits ==
  ASSUME CacheInv, NEW p, NEW t \in Modes, NEW aged
  PROVE  /\ Moved(p, t, aged) = [ k \in Keys |-> Moved(p, t, aged)[k] ]
         /\ \A k \in Keys :
              Fits(k, Moved(p, t, aged)[k], told[k[1]], ver[k[1]])
<1>1. DOMAIN cache = Keys
  BY DEF CacheInv, EntriesFit
<1>2. ASSUME NEW k \in Keys
      PROVE  Fits(k, Moved(p, t, aged)[k], told[k[1]], ver[k[1]])
  <2>1. Moved(p, t, aged)[k] =
          IF k \in ActiveAt(p, t)
          THEN IF k \notin Active /\ (IsStale(cache[k]) \/ k[1] \in aged)
                  /\ IsIdle(cache[k])
               THEN [ cache[k] EXCEPT !.fetch = RequestFor(k[1], t) ] ELSE cache[k]
          ELSE Forgotten(k, IF k \in Active THEN Left(k, cache[k]) ELSE cache[k])
    BY <1>1 DEF Moved
  <2>2. Fits(k, Left(k, cache[k]), told[k[1]], ver[k[1]])
    BY KeyFits, StopFits DEF Left
  <2>3. online \in BOOLEAN
    BY DEF CacheInv, Typed
  <2>4. CASE k \in ActiveAt(p, t)
    <3>1. Fits(k, cache[k], told[k[1]], ver[k[1]])
      BY KeyFits
    <3>2. Fits(k, [ cache[k] EXCEPT !.fetch = RequestFor(k[1], t) ], told[k[1]],
               ver[k[1]])
      BY <2>3, <2>4, <3>1, KeyFits, FetchFits
    <3> QED
      BY <2>1, <2>4, <3>1, <3>2
  <2>5. CASE k \notin ActiveAt(p, t)
    BY <2>1, <2>2, <2>5, KeyFits, ForgetFits
  <2> QED
    BY <2>4, <2>5
<1>3. Moved(p, t, aged) = [ k \in Keys |-> Moved(p, t, aged)[k] ]
  BY <1>1 DEF Moved
<1> QED
  BY <1>2, <1>3

(* So does fetching anew what the page shows.                              *)
LEMMA FetchingFits ==
  ASSUME CacheInv, NEW keys, keys \subseteq Active
  PROVE  /\ Fetching(keys) = [ k \in Keys |-> Fetching(keys)[k] ]
         /\ \A k \in Keys :
              Fits(k, Fetching(keys)[k], told[k[1]], ver[k[1]])
<1>1. DOMAIN cache = Keys /\ online \in BOOLEAN /\ asOf \in Modes
  BY DEF CacheInv, EntriesFit, Typed
<1>2. ASSUME NEW k \in Keys
      PROVE  Fits(k, Fetching(keys)[k], told[k[1]], ver[k[1]])
  <2>1. Fetching(keys)[k] =
          IF k \in keys /\ IsIdle(cache[k])
          THEN [ cache[k] EXCEPT !.fetch = RequestFor(k[1], asOf) ] ELSE cache[k]
    BY <1>1 DEF Fetching, Fetched, Requested
  <2> QED
    <3>1. Fits(k, cache[k], told[k[1]], ver[k[1]])
      BY KeyFits
    <3>2. CASE k \in keys /\ IsIdle(cache[k])
      <4>1. k \in ActiveAt(page, asOf)
        BY <3>2 DEF Active
      <4>2. Fits(k, [ cache[k] EXCEPT !.fetch = RequestFor(k[1], asOf) ], told[k[1]],
                 ver[k[1]])
        BY <1>1, <3>1, <4>1, KeyFits, FetchFits
      <4> QED
        BY <2>1, <3>2, <4>2
    <3> QED
      BY <2>1, <3>1, <3>2
<1>3. Fetching(keys) = [ k \in Keys |-> Fetching(keys)[k] ]
  BY <1>1 DEF Fetching
<1> QED
  BY <1>2, <1>3

(* An invalidation, of all that the console is told of, keeps every entry  *)
(* as recent as what it is told.                                           *)
LEMMA InvalidatedFits ==
  ASSUME CacheInv, NEW keys, NEW news, NEW at, news \subseteq keys,
         Known(at, ver), cache' = Invalidated(keys), Tell(news, at), UNCHANGED ver
  PROVE  EntriesFit' /\ told' \in [ Watched -> Nat ]
         /\ \A q \in Watched : told'[q] <= ver[q]
<1>1. /\ DOMAIN cache = Keys /\ online \in BOOLEAN /\ asOf \in Modes
      /\ told \in [ Watched -> Nat ] /\ Live \in Modes
  BY CacheAssumption DEF CacheInv, EntriesFit, Typed, CacheAssumption, Modes, Live
<1>2. ASSUME NEW q \in Watched
      PROVE  /\ told'[q] \in Nat /\ told'[q] <= ver[q]
             /\ told'[q] # told[q] => Reads(q, keys) /\ ~Swallows(q)
  <2>1. << q, Live >> \in Keys /\ (Reads(q, news) => Reads(q, keys))
    BY <1>1 DEF Keys, Reads
  <2>2. told'[q] = IF Reads(q, news) /\ ~Swallows(q) THEN at[q] ELSE told[q]
    BY DEF Tell
  <2> QED
    BY <1>1, <2>1, <2>2, KeyFits DEF Known
<1>3. ASSUME NEW k \in Keys
      PROVE  Fits(k, Invalidated(keys)[k], told'[k[1]], ver[k[1]])
  <2> DEFINE c == cache[k]
  <2>1. Invalidated(keys)[k] =
          IF ~Reads(k[1], keys) THEN c
          ELSE IF k \in Active /\ (IsIdle(c) \/ c.data # NoData)
               THEN [ c EXCEPT !.invalid = TRUE, !.fetch = RequestFor(k[1], asOf) ]
               ELSE [ c EXCEPT !.invalid = TRUE ]
    BY <1>1 DEF Invalidated, Requested
  <2>2. k[1] \in Watched /\ told'[k[1]] \in Nat /\ told'[k[1]] <= ver[k[1]]
    BY <1>2, KeyFits
  <2>3. CASE ~Reads(k[1], keys)
    BY <1>2, <2>1, <2>2, <2>3, KeyFits
  <2>4. CASE Reads(k[1], keys) /\ k \in Active /\ (IsIdle(c) \/ c.data # NoData)
    <3>1. k \in ActiveAt(page, asOf)
      BY <2>4 DEF Active
    <3>2. Fits(k, c, told[k[1]], ver[k[1]])
      BY KeyFits
    <3>3. Fits(k, [ c EXCEPT !.invalid = TRUE, !.fetch = RequestFor(k[1], asOf) ],
               told'[k[1]], ver[k[1]])
      BY <1>1, <2>2, <3>1, <3>2, KeyFits, FetchFits
    <3> QED
      BY <2>1, <2>4, <3>3
  <2>5. CASE Reads(k[1], keys) /\ ~(k \in Active /\ (IsIdle(c) \/ c.data # NoData))
    <3>1. k[2] # Live \/ told'[k[1]] = told[k[1]] \/ IsIdle(c)
      <4>1. SUFFICES ASSUME k[2] = Live, ~IsIdle(c) PROVE Swallows(k[1])
        BY <1>2, <2>2
      <4>2. k = << k[1], Live >>
        BY <4>1 DEF Keys
      <4> QED
        BY <2>5, <4>1, <4>2 DEF Swallows
    <3> QED
      BY <2>1, <2>2, <2>5, <3>1, KeyFits, FlagFits
  <2> QED
    BY <2>3, <2>4, <2>5
<1>4. Invalidated(keys) = [ k \in Keys |-> Invalidated(keys)[k] ]
  BY <1>1 DEF Invalidated
<1>5. told' = [ q \in Watched |-> told'[q] ]
  BY DEF Tell
<1> QED
  BY <1>2, <1>3, <1>4, <1>5 DEF EntriesFit

-----------------------------------------------------------------------------
(* What a step keeps that tells nothing and leaves the server alone.       *)
LEMMA FitsStill ==
  ASSUME CacheInv, UNCHANGED << told, ver >>, cache' = [ k \in Keys |-> cache'[k] ],
         \A k \in Keys : Fits(k, cache'[k], told[k[1]], ver[k[1]])
  PROVE  EntriesFit'
BY DEF EntriesFit

(* News stays of the past when versions only grow.                         *)
LEMMA NewsStill ==
  ASSUME CacheInv, UNCHANGED << told, ver >>, events' \subseteq events,
         mutation' = NoWrite \/ Known(mutation'.at, ver)
  PROVE  NewsIsKnown'
BY DEF CacheInv, NewsIsKnown, Known

(* A write moves some versions on by one.                                  *)
LEMMA BumpedFacts ==
  ASSUME CacheInv, NEW keys, NEW news, ServerWrites(keys, news)
  PROVE  /\ ver' \in [ Watched -> Nat ]
         /\ \A q \in Watched : ver[q] <= ver'[q] /\ ver'[q] <= ver[q] + 1
<1>1. ver \in [ Watched -> Nat ]
  BY DEF CacheInv, Typed
<1>2. PICK more \in SUBSET Watched : ver' = Bumped(keys, more)
  BY DEF ServerWrites
<1> QED
  BY <1>1, <1>2 DEF Bumped

(* A write on the server: the entries are as they were, old news is known  *)
(* and so is the news of the write.                                        *)
LEMMA BumpedStep ==
  ASSUME CacheInv, NEW keys, NEW news, ServerWrites(keys, news),
         UNCHANGED << cache, told >>,
         mutation' = mutation \/ mutation'.at = ver'
  PROVE  EntriesFit' /\ NewsIsKnown'
<1>1. /\ ver' \in [ Watched -> Nat ]
      /\ \A r \in Watched : ver[r] <= ver'[r] /\ ver'[r] <= ver[r] + 1
  BY BumpedFacts
<1>2. ver \in [ Watched -> Nat ] /\ told \in [ Watched -> Nat ]
  BY DEF CacheInv, Typed
<1>3. ASSUME NEW at, Known(at, ver) PROVE Known(at, ver')
  BY <1>1, <1>2, <1>3 DEF Known
<1>4. Known(ver', ver')
  BY <1>1 DEF Known
<1>5. EntriesFit'
  <2>1. ASSUME NEW k \in Keys PROVE Fits(k, cache[k], told[k[1]], ver'[k[1]])
    BY <1>1, KeyFits, LaterFits
  <2> QED
    BY <2>1 DEF CacheInv, EntriesFit
<1>6. \A q \in Watched : told[q] <= ver'[q]
  BY <1>1, <1>2 DEF CacheInv, NewsIsKnown
<1>7. \A e \in events' : Known(e.at, ver')
  <2>1. ASSUME NEW e \in events' PROVE e \in events \/ e.at = ver'
    BY <2>1 DEF ServerWrites, Broadcast
  <2> QED
    BY <1>3, <1>4, <2>1 DEF CacheInv, NewsIsKnown
<1>8. mutation' # NoWrite => Known(mutation'.at, ver')
  BY <1>3, <1>4 DEF CacheInv, NewsIsKnown
<1> QED
  BY <1>5, <1>6, <1>7, <1>8 DEF NewsIsKnown

(* What a pending write is.                                                *)
LEMMA WriteFacts ==
  ASSUME CacheInv, mutation.status # "none"
  PROVE  mutation \in Writes /\ mutation # NoWrite /\ Known(mutation.at, ver)
BY DEF CacheInv, Typed, NewsIsKnown, NoWrite

(* Live is a mode, and modes are numbers.                                  *)
LEMMA Positions == Live \in Modes /\ Modes \subseteq Nat
BY CacheAssumption DEF CacheAssumption, Modes, Live

-----------------------------------------------------------------------------
(* A change of position: what is shown next is asked for at the new one.   *)
LEMMA SetAsOfStep ==
  ASSUME CacheInv, NEW t \in Modes, SetAsOf(t), playing' \in BOOLEAN,
         playing' => t # Live
  PROVE  CacheInv'
<1>1. PICK aged \in SUBSET Watched : cache' = Moved(page, t, aged)
  BY DEF SetAsOf
<1>2. EntriesFit'
  BY <1>1, MovedFits, FitsStill DEF SetAsOf
<1>3. Typed'
  BY DEF CacheInv, Typed, SetAsOf, bounds
<1>4. NewsIsKnown'
  BY NewsStill DEF CacheInv, NewsIsKnown, SetAsOf
<1>5. Counted'
  BY DEF CacheInv, Counted, Coming, SetAsOf, bounds
<1> QED
  BY <1>2, <1>3, <1>4, <1>5 DEF CacheInv

(* The replay controls move the position; pausing and picking do no more.  *)
LEMMA TransportStep == CacheInv /\ Transport => CacheInv'
<1> SUFFICES ASSUME CacheInv, Transport PROVE CacheInv'
  OBVIOUS
<1>1. asOf \in Modes /\ playing \in BOOLEAN /\ (playing => asOf # Live) /\ Now \in Nat \ {0}
  BY CacheAssumption DEF CacheInv, Typed, CacheAssumption
<1>2. ASSUME NEW t \in Modes, Pick(t) PROVE CacheInv'
  BY <1>2, SetAsOfStep DEF Pick
<1>3. CASE Look
  <2>1. SetAsOf(asOf + Zone) /\ asOf + Zone < Now /\ playing' = FALSE
    BY <1>3 DEF Look, Parsed, Digits
  <2>2. asOf + Zone \in Modes
    BY <1>1, <2>1, CacheAssumption DEF CacheAssumption, Modes
  <2> QED
    BY <2>1, <2>2, SetAsOfStep
<1>4. CASE Play \/ Pause
  <2>1. /\ UNCHANGED << page, asOf, online, stream, ver, cache, told, events, mutation,
                        writes, faults >>
        /\ playing' \in BOOLEAN /\ (playing' => asOf # Live)
    BY <1>4 DEF Play, Pause, bounds
  <2>2. Typed'
    BY <2>1 DEF CacheInv, Typed
  <2>3. EntriesFit' /\ NewsIsKnown' /\ Counted'
    BY <2>1 DEF CacheInv, EntriesFit, NewsIsKnown, Counted, Coming
  <2> QED
    BY <2>2, <2>3 DEF CacheInv
<1>5. CASE Tick
  <2>1. CASE ReachesLive(asOf + 1)
    BY <1>5, <2>1, SetAsOfStep, Positions DEF Tick
  <2>2. CASE ~ReachesLive(asOf + 1)
    <3>1. asOf + 1 \in Modes /\ asOf + 1 # Live /\ asOf + 1 < Now
      BY <1>1, <1>5, <2>2 DEF Tick, ReachesLive, Modes, Live
    <3> QED
      BY <1>5, <2>2, <3>1, SetAsOfStep DEF Tick
  <2> QED
    BY <2>1, <2>2
<1>6. CASE StepForward
  <2>1. (IF asOf + 1 < Now THEN asOf + 1 ELSE Now - 1) \in Modes
    BY <1>1 DEF Modes
  <2> QED
    BY <1>6, <2>1, SetAsOfStep DEF StepForward
<1>7. CASE StepBackward
  <2>1. asOf - 1 \in Modes
    BY <1>1, <1>7 DEF Modes, StepBackward
  <2> QED
    BY <1>7, <2>1, SetAsOfStep DEF StepBackward
<1> QED
  BY <1>2, <1>3, <1>4, <1>5, <1>6, <1>7 DEF Transport

(* Another page mounts its queries and forgets the form of the last.       *)
LEMMA NavigateStep == \A p \in Pages : CacheInv /\ Navigate(p) => CacheInv'
<1> SUFFICES ASSUME NEW p \in Pages, CacheInv, Navigate(p) PROVE CacheInv'
  OBVIOUS
<1>1. PICK aged \in SUBSET Watched : cache' = Moved(p, asOf, aged)
  BY DEF Navigate
<1>2. asOf \in Modes
  BY DEF CacheInv, Typed
<1>3. EntriesFit'
  BY <1>1, <1>2, MovedFits, FitsStill DEF Navigate
<1>4. /\ mutation' \in Writes \cup { NoWrite }
      /\ mutation'.status = mutation.status
      /\ mutation' = NoWrite \/ Known(mutation'.at, ver)
  <2>1. CASE mutation.status = "none" \/ ~mutation.mounted
    BY <2>1 DEF Navigate, Unmounted, CacheInv, Typed, NewsIsKnown
  <2>2. CASE mutation.status # "none" /\ mutation.mounted
    <3>1. mutation \in Writes /\ Known(mutation.at, ver)
      BY <2>2, WriteFacts
    <3>2. mutation' = [ mutation EXCEPT !.mounted = FALSE, !.replaying = asOf # Live ]
      BY <2>2 DEF Navigate, Unmounted
    <3> QED
      BY <3>1, <3>2 DEF Writes
  <2> QED
    BY <2>1, <2>2
<1>5. Typed'
  BY <1>4 DEF CacheInv, Typed, Navigate, bounds
<1>6. NewsIsKnown'
  BY <1>4, NewsStill DEF Navigate
<1>7. Counted'
  BY <1>4 DEF CacheInv, Counted, Coming, Navigate, bounds
<1> QED
  BY <1>3, <1>5, <1>6, <1>7 DEF CacheInv

(* The operator's write and its ends.                                      *)
LEMMA SubmitStep == \A op \in Ops : CacheInv /\ Submit(op) => CacheInv'
<1> SUFFICES ASSUME NEW op \in Ops, CacheInv, Submit(op) PROVE CacheInv'
  OBVIOUS
<1>1. mutation' \in Writes /\ mutation'.status \in { "sent", "paused" }
      /\ mutation'.at = [ r \in Watched |-> 0 ]
  BY DEF Submit, Writes
<1>2. Known(mutation'.at, ver)
  BY <1>1 DEF Known, CacheInv, Counted, Typed
<1>3. Typed'
  BY <1>1, CacheAssumption DEF CacheInv, Typed, Submit, CacheAssumption
<1>4. Counted'
  BY <1>1 DEF CacheInv, Counted, Coming, Submit, NoWrite, Typed
<1>5. EntriesFit'
  BY DEF CacheInv, EntriesFit, Submit
<1>6. NewsIsKnown'
  BY <1>2, NewsStill DEF Submit
<1> QED
  BY <1>3, <1>4, <1>5, <1>6 DEF CacheInv

(* A write of others, or of the server's own jobs, is announced to this    *)
(* console while it listens, or it is not.                                 *)
LEMMA OthersWriteStep ==
  ASSUME CacheInv, (\E op \in Ops : OthersCall(op)) \/ JobWrites
  PROVE  CacheInv'
<1>1. SUFFICES ASSUME NEW keys, NEW news, OthersWrite(keys, news) PROVE CacheInv'
  BY DEF OthersCall, JobWrites
<1>2. EntriesFit' /\ NewsIsKnown'
  BY <1>1, BumpedStep DEF OthersWrite
<1>3. /\ ver' \in [ Watched -> Nat ]
      /\ \A q \in Watched : ver[q] <= ver'[q] /\ ver'[q] <= ver[q] + 1
  BY <1>1, BumpedFacts DEF OthersWrite
<1>4. Typed'
  BY <1>1, <1>3, CacheAssumption DEF CacheInv, Typed, OthersWrite, CacheAssumption
<1>5. Counted'
  BY <1>1, <1>3 DEF CacheInv, Typed, Counted, Coming, OthersWrite
<1> QED
  BY <1>2, <1>4, <1>5 DEF CacheInv

(* The server applies the operator's write, and announces it.              *)
LEMMA ApplyStep == CacheInv /\ Apply => CacheInv'
<1> SUFFICES ASSUME CacheInv, Apply PROVE CacheInv'
  OBVIOUS
<1>1. mutation \in Writes
  BY WriteFacts DEF Apply
<1>2. /\ ver' \in [ Watched -> Nat ]
      /\ \A q \in Watched : ver[q] <= ver'[q] /\ ver'[q] <= ver[q] + 1
  BY BumpedFacts DEF Apply
<1>3. mutation' \in Writes /\ mutation'.at = ver' /\ mutation'.status = "applied"
  BY <1>1, <1>2 DEF Apply, Writes
<1>4. EntriesFit' /\ NewsIsKnown'
  BY <1>3, BumpedStep DEF Apply
<1>5. Typed'
  BY <1>2, <1>3 DEF CacheInv, Typed, Apply, bounds
<1>6. Counted'
  BY <1>2, <1>3 DEF CacheInv, Typed, Counted, Coming, Apply, bounds
<1> QED
  BY <1>4, <1>5, <1>6 DEF CacheInv

(* The write is refused, or its answer invalidates what it has changed.    *)
LEMMA WriteEndsStep == CacheInv /\ (WriteFails \/ Acknowledge) => CacheInv'
<1>1. ASSUME CacheInv, WriteFails PROVE CacheInv'
  <2>1. Typed'
    BY <1>1, CacheAssumption DEF CacheInv, Typed, WriteFails, CacheAssumption
  <2>2. EntriesFit' /\ NewsIsKnown'
    BY <1>1 DEF CacheInv, EntriesFit, NewsIsKnown, Known, WriteFails
  <2>3. Counted'
    BY <1>1 DEF CacheInv, Typed, Counted, Coming, WriteFails, NoWrite
  <2> QED
    BY <2>1, <2>2, <2>3 DEF CacheInv
<1>2. ASSUME CacheInv, Acknowledge PROVE CacheInv'
  <2>1. mutation \in Writes /\ Known(mutation.at, ver) /\ mutation.op \in Ops
    BY <1>2, WriteFacts DEF Acknowledge, Writes
  <2>2. Addressed[mutation.op] \subseteq Invalidates[mutation.op]
    BY <2>1, AddressedIsInvalidated, CacheAssumption DEF CacheAssumption
  <2>3. /\ EntriesFit' /\ told' \in [ Watched -> Nat ]
        /\ \A q \in Watched : told'[q] <= ver[q]
    BY <1>2, <2>1, <2>2, InvalidatedFits DEF Acknowledge
  <2>4. Typed'
    BY <1>2, <2>3 DEF CacheInv, Typed, Acknowledge, bounds
  <2>5. NewsIsKnown'
    BY <1>2, <2>3 DEF CacheInv, NewsIsKnown, Known, Acknowledge
  <2>6. Counted'
    BY <1>2 DEF CacheInv, Typed, Counted, Coming, Acknowledge, NoWrite, bounds
  <2> QED
    BY <2>3, <2>4, <2>5, <2>6 DEF CacheInv
<1> QED
  BY <1>1, <1>2

(* A live event tells of exactly what it invalidates.                      *)
LEMMA DeliverStep == \A e \in events : CacheInv /\ Deliver(e) => CacheInv'
<1> SUFFICES ASSUME NEW e \in events, CacheInv, Deliver(e) PROVE CacheInv'
  OBVIOUS
<1>1. Known(e.at, ver)
  BY DEF CacheInv, NewsIsKnown
<1>2. /\ EntriesFit' /\ told' \in [ Watched -> Nat ]
      /\ \A q \in Watched : told'[q] <= ver[q]
  BY <1>1, InvalidatedFits DEF Deliver
<1>3. Typed'
  BY <1>2 DEF CacheInv, Typed, Deliver, bounds
<1>4. NewsIsKnown'
  BY <1>2 DEF CacheInv, NewsIsKnown, Known, Deliver
<1>5. Counted'
  BY DEF CacheInv, Counted, Coming, Deliver, bounds
<1> QED
  BY <1>2, <1>3, <1>4, <1>5 DEF CacheInv

(* A request is served with what the server has.                           *)
LEMMA ServeFits ==
  ASSUME NEW k, NEW c, NEW least \in Nat, NEW most \in Nat, Fits(k, c, least, most),
         c.fetch.status = "sent", NEW got \in Nat, got <= most, k[2] = Live => got >= least
  PROVE  Fits(k, [ c EXCEPT !.fetch.status = "back", !.fetch.got = got ], least, most)
<1>1. ASSUME NEW d, d = [ c EXCEPT !.fetch.status = "back", !.fetch.got = got ]
      PROVE  Fits(k, d, least, most)
  <2>1. d.fetch = [ c.fetch EXCEPT !.status = "back", !.got = got ] /\ d.data = c.data
        /\ d.of = c.of /\ d.invalid = c.invalid
    BY <1>1 DEF Fits, Entries
  <2>2. d \in Entries
    BY <1>1, <2>1 DEF Fits, Entries, Fetches
  <2>3. d.fetch.status = "back" /\ d.fetch.got = got /\ d.fetch.of = c.fetch.of
    BY <2>1 DEF Fits, Entries, Fetches
  <2> QED
    BY <2>1, <2>2, <2>3 DEF Fits, IsIdle
<1> QED
  BY <1>1

(* A fetch that is lost is sent again.                                     *)
LEMMA LoseFits ==
  ASSUME NEW k, NEW c, NEW least \in Nat, NEW most \in Nat, Fits(k, c, least, most),
         ~IsIdle(c)
  PROVE  Fits(k, [ c EXCEPT !.fetch.status = "sent", !.fetch.got = NoData ], least, most)
<1>1. ASSUME NEW d, d = [ c EXCEPT !.fetch.status = "sent", !.fetch.got = NoData ]
      PROVE  Fits(k, d, least, most)
  <2>1. d.fetch = [ c.fetch EXCEPT !.status = "sent", !.got = NoData ] /\ d.data = c.data
        /\ d.of = c.of /\ d.invalid = c.invalid
    BY <1>1 DEF Fits, Entries
  <2>2. d \in Entries
    BY <1>1, <2>1 DEF Fits, Entries, Fetches, NoData
  <2>3. d.fetch.status = "sent" /\ d.fetch.got = 0 /\ d.fetch.of = c.fetch.of
    BY <2>1 DEF Fits, Entries, Fetches, NoData
  <2> QED
    BY <2>1, <2>2, <2>3 DEF Fits, IsIdle
<1> QED
  BY <1>1

(* Requests are answered, and their answers stored, in any order.          *)
LEMMA RequestStep ==
  \A k \in Keys : CacheInv /\ (Request(k) \/ FetchFails(k)) => CacheInv'
<1> SUFFICES ASSUME NEW k \in Keys, CacheInv, Request(k) \/ FetchFails(k) PROVE CacheInv'
  OBVIOUS
<1> DEFINE c == cache[k]
           least == told[k[1]]
           most == ver[k[1]]
<1>1. /\ Fits(k, c, least, most) /\ least \in Nat /\ most \in Nat /\ most >= 1
      /\ least <= most /\ DOMAIN cache = Keys /\ cache = [ l \in Keys |-> cache[l] ]
  BY KeyFits DEF CacheInv, EntriesFit
<1> HIDE DEF c, least, most
<1>2. ASSUME NEW d, Fits(k, d, least, most), cache' = [ cache EXCEPT ![k] = d ],
             UNCHANGED << told, ver >>
      PROVE  EntriesFit'
  <2>1. cache' = [ l \in Keys |-> cache'[l] ]
        /\ \A l \in Keys : cache'[l] = IF l = k THEN d ELSE cache[l]
    BY <1>1, <1>2
  <2>2. ASSUME NEW l \in Keys PROVE Fits(l, cache'[l], told[l[1]], ver[l[1]])
    <3>1. CASE l = k
      BY <1>2, <2>1, <3>1 DEF least, most
    <3>2. CASE l # k
      BY <2>1, <3>2, KeyFits
    <3> QED
      BY <3>1, <3>2
  <2> QED
    BY <1>2, <2>1, <2>2, FitsStill
<1>3. CASE Serve(k)
  <2> DEFINE got == IF c.fetch.of = Live THEN most ELSE 1
  <2>1. c.fetch.status = "sent" /\ UNCHANGED << told, ver >>
        /\ cache' = [ cache EXCEPT ![k] =
                        [ c EXCEPT !.fetch.status = "back", !.fetch.got = got ] ]
    BY <1>1, <1>3 DEF Serve, c, most
  <2>2. k[2] = Live => c.fetch.of = Live
    BY <1>1, <2>1 DEF Fits, IsIdle, KeyOf, AsOf
  <2>3. got \in Nat /\ got <= most /\ (k[2] = Live => got >= least)
    BY <1>1, <2>2
  <2> HIDE DEF got
  <2>4. Fits(k, [ c EXCEPT !.fetch.status = "back", !.fetch.got = got ], least, most)
    BY <1>1, <2>1, <2>3, ServeFits
  <2>5. EntriesFit'
    BY <1>2, <2>1, <2>4
  <2> QED
    BY <1>3, <2>5 DEF Serve, CacheInv, Typed, NewsIsKnown, Known, Counted, Coming, bounds
<1>4. CASE Arrive(k)
  <2> DEFINE d == IF k \in Active THEN Answered(c) ELSE Forgotten(k, Answered(c))
  <2>1. c.fetch.status = "back" /\ UNCHANGED << told, ver >>
        /\ cache' = [ cache EXCEPT ![k] = d ]
    BY <1>1, <1>4 DEF Arrive, c
  <2>2. Fits(k, d, least, most)
    BY <1>1, <2>1, AnswerFits, ForgetFits
  <2> HIDE DEF d
  <2>3. EntriesFit'
    BY <1>2, <2>1, <2>2
  <2> QED
    BY <1>4, <2>3 DEF Arrive, CacheInv, Typed, NewsIsKnown, Known, Counted, Coming, bounds
<1>5. CASE FetchFails(k)
  <2>1. UNCHANGED << told, ver >>
        /\ cache' = [ cache EXCEPT ![k] = [ c EXCEPT !.fetch = NoFetch ] ]
    BY <1>1, <1>5 DEF FetchFails, c
  <2>2. Fits(k, [ c EXCEPT !.fetch = NoFetch ], least, most)
    BY <1>1, StopFits
  <2>3. EntriesFit'
    BY <1>2, <2>1, <2>2
  <2> QED
    BY <1>5, <2>3, CacheAssumption DEF FetchFails, CacheInv, Typed, NewsIsKnown, Known, Counted, Coming,
      CacheAssumption
<1> QED
  BY <1>3, <1>4, <1>5 DEF Request

(* Polls, the focus and the connection.                                    *)
LEMMA FetchingStep ==
  ASSUME CacheInv, NEW keys, keys \subseteq Active, cache' = Fetching(keys),
         UNCHANGED << page, asOf, playing, online, stream, ver, told, events, mutation,
                      writes, faults >>
  PROVE  CacheInv'
<1>1. EntriesFit'
  BY FetchingFits, FitsStill
<1> QED
  BY <1>1 DEF CacheInv, Typed, NewsIsKnown, Known, Counted, Coming

(* Polls and the window's focus fetch anew what they find stale.           *)
LEMMA PollStep == CacheInv /\ (Focus \/ \E q \in Watched : Poll(q)) => CacheInv'
<1>1. ASSUME CacheInv, Focus PROVE CacheInv'
  <2>1. PICK aged \in SUBSET Watched :
          cache' = Fetching({ k \in Active : IsStale(cache[k]) \/ k[1] \in aged })
    BY <1>1 DEF Focus
  <2> DEFINE keys == { k \in Active : IsStale(cache[k]) \/ k[1] \in aged }
  <2>2. keys \subseteq Active /\ cache' = Fetching(keys)
    BY <2>1
  <2> HIDE DEF keys
  <2> QED
    BY <1>1, <2>2, FetchingStep DEF Focus, bounds
<1>2. ASSUME CacheInv, NEW q \in Watched, Poll(q) PROVE CacheInv'
  <2> DEFINE keys == { << q, Live >> }
  <2>1. keys \subseteq Active /\ cache' = Fetching(keys)
    BY <1>2 DEF Poll
  <2> HIDE DEF keys
  <2> QED
    BY <1>2, <2>1, FetchingStep DEF Poll, bounds
<1> QED
  BY <1>1, <1>2

(* Losing and finding the connection, and the event stream.                *)
LEMMA ConnectionStep ==
  CacheInv /\ (OpenStream \/ DropStream \/ GoOffline \/ GoOnline) => CacheInv'
<1> SUFFICES ASSUME CacheInv, OpenStream \/ DropStream \/ GoOffline \/ GoOnline PROVE CacheInv'
  OBVIOUS
<1>1. CASE OpenStream
  BY <1>1 DEF OpenStream, CacheInv, Typed, EntriesFit, NewsIsKnown, Known, Counted, Coming,
    bounds
<1>2. CASE DropStream
  <2>1. Typed'
    <3>1. faults' \in 0..MaxFaults
      BY <1>2, CacheAssumption DEF DropStream, CacheInv, Typed, CacheAssumption
    <3> QED
      BY <1>2, <3>1, Zenon DEF DropStream, CacheInv, Typed
  <2>2. EntriesFit' /\ NewsIsKnown' /\ Counted'
    BY <1>2 DEF DropStream, CacheInv, EntriesFit, NewsIsKnown, Counted, Coming
  <2> QED
    BY <2>1, <2>2 DEF CacheInv
<1>3. CASE GoOffline
  <2>0. /\ faults < MaxFaults /\ faults' = faults + 1
        /\ online' = FALSE /\ stream' = FALSE /\ events' = {}
        /\ UNCHANGED << page, asOf, playing, ver, told, writes >>
    BY <1>3, Zenon DEF GoOffline
  <2>1. DOMAIN cache = Keys
    BY DEF CacheInv, EntriesFit
  <2>2. ASSUME NEW k \in Keys PROVE Fits(k, cache'[k], told[k[1]], ver[k[1]])
    <3>1. Fits(k, cache[k], told[k[1]], ver[k[1]]) /\ told[k[1]] \in Nat
          /\ ver[k[1]] \in Nat
      BY KeyFits
    <3>2. CASE IsIdle(cache[k])
      BY <1>3, <2>1, <3>1, <3>2 DEF GoOffline
    <3>3. CASE ~IsIdle(cache[k])
      BY <1>3, <2>1, <3>1, <3>3, LoseFits DEF GoOffline
    <3> QED
      BY <3>2, <3>3
  <2>3. cache' = [ k \in Keys |-> cache'[k] ]
    BY <1>3, <2>1 DEF GoOffline
  <2>4. EntriesFit'
    BY <1>3, <2>2, <2>3, FitsStill DEF GoOffline
  <2>5. mutation' = NoWrite
    BY <1>3 DEF GoOffline, CacheInv, Typed, Writes, NoWrite
  <2>6. Typed'
    <3>1. faults' \in 0..MaxFaults
      BY <2>0, CacheAssumption DEF CacheInv, Typed, CacheAssumption
    <3> QED
      BY <2>0, <2>5, <3>1, Zenon DEF CacheInv, Typed
  <2>7. NewsIsKnown'
    BY <1>3, <2>5 DEF GoOffline, CacheInv, NewsIsKnown
  <2>8. Counted'
    <3>1. Coming' = 0 /\ Coming \in 0..1
      BY <2>5 DEF Coming, NoWrite
    <3> QED
      BY <2>0, <3>1 DEF CacheInv, Typed, Counted
  <2> QED
    BY <2>4, <2>6, <2>7, <2>8 DEF CacheInv
<1>4. CASE GoOnline
  <2>1. EntriesFit'
    BY <1>4, FetchingFits, FitsStill DEF GoOnline
  <2>2. /\ mutation' \in Writes \cup { NoWrite } /\ Coming' <= Coming
        /\ mutation' # NoWrite => Known(mutation'.at, ver)
    <3>1. CASE mutation' = NoWrite
      BY <3>1 DEF Coming, NoWrite
    <3>2. CASE mutation' = mutation
      BY <3>2 DEF CacheInv, Typed, NewsIsKnown, Coming
    <3>3. CASE mutation.status = "paused" /\ mutation' = [ mutation EXCEPT !.status = "sent" ]
      BY <3>3, WriteFacts DEF Writes, Coming
    <3> QED
      BY <1>4, <3>1, <3>2, <3>3 DEF GoOnline
  <2>3. Typed'
    BY <1>4, <2>2 DEF GoOnline, CacheInv, Typed, bounds
  <2>4. NewsIsKnown'
    BY <1>4, <2>2 DEF GoOnline, CacheInv, NewsIsKnown, Known
  <2>5. Counted'
    BY <1>4, <2>2 DEF GoOnline, CacheInv, Typed, Counted, Coming, bounds
  <2> QED
    BY <2>1, <2>3, <2>4, <2>5 DEF CacheInv
<1> QED
  BY <1>1, <1>2, <1>3, <1>4

-----------------------------------------------------------------------------
(* The inductive invariant of the shared cache: entries and fetches belong *)
(* to their key's position, and whatever is unflagged or on its way is as  *)
(* recent as the news (useReplayParams.ts, useSseEvents.ts, the mutations). *)
THEOREM Invariance == Spec => []CacheInv
<1>1. ASSUME Init PROVE CacheInv
  <2>1. \A k \in Keys : Fits(k, cache[k], told[k[1]], ver[k[1]])
    <3> SUFFICES ASSUME NEW k \in Keys
                 PROVE  Fits(k, cache[k], told[k[1]], ver[k[1]])
      OBVIOUS
    <3>1. k[1] \in Watched
      BY DEF Keys
    <3>2. told[k[1]] = 0 /\ ver[k[1]] = 1
      BY <1>1, <3>1 DEF Init
    <3>3. CASE k \in ActiveAt(page, Live)
      <4>1. cache[k] = [ Empty EXCEPT !.fetch = [ NoFetch EXCEPT !.status = "sent" ] ]
        BY <1>1, <3>3 DEF Init, Keys
      <4>2. KeyOf(k[1], k[2]) = Live
        BY <3>3, KeyFacts, Positions DEF AsOf
      <4>3. cache[k] = [ data |-> 0, of |-> Live, invalid |-> FALSE,
                         fetch |-> [ status |-> "sent", of |-> Live, got |-> 0 ] ]
        BY <4>1 DEF Empty, NoFetch, NoData
      <4> QED
        BY <3>2, <4>2, <4>3, Positions DEF Fits, Entries, Fetches, IsIdle, NoData
    <3>4. CASE k \notin ActiveAt(page, Live)
      <4>1. cache[k] = Empty
        BY <1>1, <3>4 DEF Init, Keys
      <4> QED
        BY <3>2, <4>1, Positions DEF Fits, Empty, NoFetch, Entries, Fetches, IsIdle, NoData
    <3> QED
      BY <3>3, <3>4
  <2>2. cache = [ k \in Keys |-> cache[k] ]
    BY <1>1 DEF Init, Keys
  <2>3. Typed
    <3>1. writes \in 0..MaxWrites /\ faults \in 0..MaxFaults
      BY <1>1, CacheAssumption DEF Init, CacheAssumption
    <3>2. ver \in [ Watched -> Nat ] /\ told \in [ Watched -> Nat ]
      BY <1>1 DEF Init
    <3> QED
      BY <1>1, <3>1, <3>2, Positions, Zenon DEF Init, Typed
  <2>4. NewsIsKnown /\ Counted
    BY <1>1 DEF Init, NewsIsKnown, Known, Counted, Coming, NoWrite
  <2> QED
    BY <2>1, <2>2, <2>3, <2>4 DEF CacheInv, EntriesFit
<1>2. CacheInv /\ [Next]_vars => CacheInv'
  <2> SUFFICES ASSUME CacheInv, [Next]_vars PROVE CacheInv'
    OBVIOUS
  <2>1. CASE UNCHANGED vars
    BY <2>1 DEF vars, CacheInv, Typed, EntriesFit, NewsIsKnown, Known, Counted, Coming
  <2>2. DOMAIN cache = Keys
    BY DEF CacheInv, EntriesFit
  <2> QED
    BY <2>1, <2>2, NavigateStep, TransportStep, SubmitStep, OthersWriteStep, ApplyStep,
      WriteEndsStep, RequestStep, DeliverStep, PollStep, ConnectionStep DEF Next
<1> QED
  BY <1>1, <1>2, PTL DEF Spec

(* The type invariant of the cache: no version outruns the writes made.    *)
THEOREM Typing == Spec => []TypeOK
<1>1. CacheInv => TypeOK
  <2> SUFFICES ASSUME CacheInv PROVE TypeOK
    OBVIOUS
  <2>1. writes \in Nat /\ writes <= MaxWrites /\ MaxWrites \in Nat
    BY CacheAssumption DEF CacheInv, Typed, CacheAssumption
  <2>2. ASSUME NEW r \in Watched, NEW n \in Nat, n <= ver[r] PROVE n \in Versions
    BY <2>1, <2>2 DEF CacheInv, Typed, Counted, Coming, Versions
  <2>3. ASSUME NEW k \in Keys
        PROVE  cache[k] \in
          [ data : Versions, of : Modes, invalid : BOOLEAN,
            fetch : [ status : { "idle", "sent", "back" }, of : Modes, got : Versions ] ]
    <3>1. /\ cache[k] \in Entries /\ cache[k].data <= ver[k[1]]
          /\ cache[k].fetch.got <= ver[k[1]] /\ k[1] \in Watched
      BY KeyFits DEF Fits
    <3>2. cache[k].data \in Versions /\ cache[k].fetch.got \in Versions
      BY <2>2, <3>1 DEF Entries, Fetches
    <3> QED
      BY <3>1, <3>2 DEF Entries, Fetches
  <2>4. ver \in [ Watched -> Versions ] /\ told \in [ Watched -> Versions ]
    BY <2>2 DEF CacheInv, Typed, NewsIsKnown
  <2>5. mutation = NoWrite \/ mutation.status \in { "paused", "sent", "applied" }
    BY DEF CacheInv, Typed, Writes
  <2> QED
    BY <2>3, <2>4, <2>5 DEF CacheInv, Typed, EntriesFit, TypeOK, Keys
<1> QED
  BY <1>1, Invariance, PTL

(* What the console was told of, by an event or by its own write, is on    *)
(* show, or is marked stale and fetched anew, whatever answers were on     *)
(* their way (invalidateQueries in useSseEvents.ts and the mutations).      *)
THEOREM NewsIsShown == Spec => []ToldIsShown
<1>1. CacheInv => ToldIsShown
  BY KeyFits, Positions DEF ToldIsShown, Fits, Keys
<1> QED
  BY <1>1, Invariance, PTL

(* However quickly the replay clock moves, a dated query shows data of the *)
(* position the page shows, never a late answer for another one            *)
(* (useReplayParams.ts, the query keys).                                   *)
THEOREM PositionsAreKept == Spec => []ShownMatchesPosition
<1>1. CacheInv => ShownMatchesPosition
  <2> SUFFICES ASSUME CacheInv, NEW q \in Watched, Queries[q].dated,
                      cache[<< q, KeyOf(q, asOf) >>].data # NoData
               PROVE  cache[<< q, KeyOf(q, asOf) >>].of = asOf
    BY DEF ShownMatchesPosition
  <2>1. KeyOf(q, asOf) = asOf /\ asOf \in Modes
    BY DEF KeyOf, AsOf, CacheInv, Typed
  <2> QED
    BY <2>1, KeyFits DEF Fits, Keys
<1> QED
  BY <1>1, Invariance, PTL

(* A write that was held back while offline is not sent into a replay as   *)
(* long as its form is mounted (useReplayGuardedMutation.ts).              *)
THEOREM HeldBackInReplay == Spec => GuardedWhileMounted
<1>1. [Next]_vars =>
        [ mutation.status = "paused" /\ mutation.mounted /\ mutation'.status = "sent"
            => asOf' = Live ]_vars
  <2> SUFFICES ASSUME Next, mutation.status = "paused", mutation.mounted,
                      mutation'.status = "sent"
               PROVE  asOf' = Live
    BY DEF vars
  <2>1. CASE GoOnline
    BY <2>1 DEF GoOnline, Guard, NoWrite
  <2>2. CASE \E p \in Pages : Navigate(p)
    BY <2>2 DEF Navigate, Unmounted
  <2>3. CASE mutation' = mutation
    BY <2>3
  <2>4. CASE (\E op \in Ops : Submit(op)) \/ Apply \/ WriteFails \/ Acknowledge
    BY <2>4 DEF Submit, Apply, WriteFails, Acknowledge, NoWrite
  <2>5. CASE GoOffline
    <3>1. mutation' = NoWrite
      BY <2>5, Zenon DEF GoOffline
    <3> QED
      BY <3>1 DEF NoWrite
  <2> QED
    BY <2>1, <2>2, <2>3, <2>4, <2>5 DEF Next, Transport, Pick, Look, Play, Pause, Tick,
      StepForward, StepBackward, SetAsOf, OthersCall, JobWrites, OthersWrite, Request, Serve, Arrive, FetchFails,
      Deliver, Poll, Focus, OpenStream, DropStream
<1> QED
  BY <1>1, PTL DEF Spec, GuardedWhileMounted

-----------------------------------------------------------------------------
(* The session of the tab that holds the cache.                            *)

(* A login that was granted names the session that was opened for it.      *)
GrantsAreSessions ==
  \A s \in Slots : Arrived(s, "ok") /\ flight[s].kind = "login"
                     => flight[s].granted \in Sessions

(* The inductive invariant: with that, an arriving login always shows the  *)
(* user it remembers.                                                      *)
SessionInv == SessionTypeOK /\ GrantsAreSessions /\ SignedOutStaysOut

-----------------------------------------------------------------------------
(* The record of a request is well formed, and so is a slot it is put in.  *)
LEMMA SendTyped ==
  ASSUME SessionTypeOK, NEW s \in Slots, NEW kind \in Kinds, NEW cause \in { "user", "401" },
         Send(s, kind, cause)
  PROVE  /\ flight' \in [ Slots -> { Idle } \cup
              [ kind : Kinds, cookie : Names, cause : { "user", "401" },
                shown : Names, answer : Answers, granted : Names ] ]
         /\ flight'[s] = SentRequest(kind, cause)
         /\ \A t \in Slots \ { s } : flight'[t] = flight[t]
<1>1. SentRequest(kind, cause) \in
        [ kind : Kinds, cookie : Names, cause : { "user", "401" },
          shown : Names, answer : Answers, granted : Names ]
  BY DEF SentRequest, SessionTypeOK, Answers, Names
<1> QED
  BY <1>1 DEF Send, SessionTypeOK

(* Answering a request that waits keeps it a request of the same kind.     *)
LEMMA AnswerTyped ==
  ASSUME SessionTypeOK, NEW s \in Slots, NEW a \in Answers, Waits(s), Answer(s, a)
  PROVE  /\ flight' \in [ Slots -> { Idle } \cup
              [ kind : Kinds, cookie : Names, cause : { "user", "401" },
                shown : Names, answer : Answers, granted : Names ] ]
         /\ flight'[s].kind = flight[s].kind /\ flight'[s].answer = a
         /\ \A t \in Slots \ { s } : flight'[t] = flight[t]
<1> DEFINE R == [ kind : Kinds, cookie : Names, cause : { "user", "401" },
                  shown : Names, answer : Answers, granted : Names ]
<1>1. flight[s] \in R
  BY DEF Waits, Pending, Idle, Kinds, SessionTypeOK
<1>2. flight'[s] = [ flight[s] EXCEPT !.answer = a ] /\ flight'[s] \in R
  BY <1>1 DEF Answer, SessionTypeOK
<1> QED
  BY <1>1, <1>2 DEF Answer, SessionTypeOK

(* Closing a slot leaves the others alone.                                 *)
LEMMA CloseTyped ==
  ASSUME SessionTypeOK, NEW s \in Slots, Close(s)
  PROVE  /\ flight' \in [ Slots -> { Idle } \cup
              [ kind : Kinds, cookie : Names, cause : { "user", "401" },
                shown : Names, answer : Answers, granted : Names ] ]
         /\ flight'[s] = Idle
         /\ \A t \in Slots \ { s } : flight'[t] = flight[t]
BY DEF Close, SessionTypeOK, Idle

(* What an idle slot is not.                                               *)
LEMMA IdleIsNoRequest == Idle.kind \notin Kinds
BY DEF Idle, Kinds

-----------------------------------------------------------------------------
(* Every value the model of the session can take is of its type, for any   *)
(* number of requests in flight (the state of AuthContext, sessionStorage  *)
(* and the form, and the rows the server keeps).                           *)
LEMMA SessionTypingStep ==
  SessionTypeOK /\ GrantsAreSessions /\ [SessionNext]_sessionVars => SessionTypeOK'
<1> SUFFICES ASSUME SessionTypeOK, GrantsAreSessions, [SessionNext]_sessionVars PROVE SessionTypeOK'
  OBVIOUS
<1> USE SessionAssumption DEF SessionAssumption
<1>1. ASSUME NEW s \in Slots, Operator(s) PROVE SessionTypeOK'
  <2>1. CASE SubmitLogin(s)
    BY <2>1, SendTyped DEF SubmitLogin, SessionTypeOK, Kinds
  <2>2. CASE Read(s)
    BY <2>2, SendTyped DEF Read, SessionTypeOK, Kinds
  <2>3. CASE Download(s)
    BY <2>3, SendTyped DEF Download, SessionTypeOK, Kinds
  <2>4. CASE LogOut(s)
    BY <2>4, SendTyped DEF LogOut, SessionTypeOK, Kinds, Names
  <2>5. CASE SignOutAll(s)
    BY <2>5, SendTyped DEF SignOutAll, SessionTypeOK, Kinds
  <2>6. CASE RevokeOthers(s)
    BY <2>6, SendTyped DEF RevokeOthers, SessionTypeOK, Kinds
  <2> QED
    BY <1>1, <2>1, <2>2, <2>3, <2>4, <2>5, <2>6 DEF Operator
<1>2. ASSUME NEW s \in Slots, Server(s) PROVE SessionTypeOK'
  <2>1. CASE GrantLogin(s)
    <3>1. issued' \in 1..MaxSessions /\ valid' \subseteq Sessions
      BY <2>1 DEF GrantLogin, SessionTypeOK, Sessions
    <3>2. flight[s] \in [ kind : Kinds, cookie : Names, cause : { "user", "401" },
                          shown : Names, answer : Answers, granted : Names ]
      BY <2>1 DEF GrantLogin, Waits, Pending, Idle, Kinds, SessionTypeOK
    <3>3. issued' \in Names /\ "ok" \in Answers
      BY <3>1 DEF Names, Sessions, Answers
    <3>4. [ [ flight[s] EXCEPT !.answer = "ok" ] EXCEPT !.granted = issued' ] \in
            [ kind : Kinds, cookie : Names, cause : { "user", "401" },
              shown : Names, answer : Answers, granted : Names ]
      BY <3>2, <3>3
    <3>5. flight' = [ flight EXCEPT ![s] =
                        [ [ flight[s] EXCEPT !.answer = "ok" ] EXCEPT !.granted = issued' ] ]
      BY <2>1 DEF GrantLogin, SessionTypeOK
    <3> QED
      BY <2>1, <3>1, <3>4, <3>5 DEF GrantLogin, SessionTypeOK
  <2>2. CASE RefuseLogin(s)
    BY <2>2, AnswerTyped DEF RefuseLogin, SessionTypeOK, Answers
  <2>3. CASE Accept(s)
    BY <2>3, AnswerTyped DEF Accept, SessionTypeOK, Answers
  <2>4. CASE Deny(s)
    BY <2>4, AnswerTyped DEF Deny, SessionTypeOK, Answers
  <2>5. CASE Error(s)
    BY <2>5, AnswerTyped DEF Error, SessionTypeOK, Answers
  <2> QED
    BY <1>2, <2>1, <2>2, <2>3, <2>4, <2>5 DEF Server
<1>3. ASSUME NEW s \in Slots, Handle(s) PROVE SessionTypeOK'
  <2>1. CASE ArriveLogin(s)
    BY <2>1, CloseTyped DEF ArriveLogin, SessionTypeOK, GrantsAreSessions, CookieAfter, Names
  <2>2. CASE ArriveLogout(s)
    BY <2>2, CloseTyped DEF ArriveLogout, SessionTypeOK, CookieAfter, Names
  <2>3. CASE ArriveOther(s)
    BY <2>3, CloseTyped DEF ArriveOther, SessionTypeOK
  <2>4. CASE Arrive401(s)
    BY <2>4, SendTyped DEF Arrive401, SessionTypeOK, Names, Kinds, StoredAfterFailure, LoadingAfter
  <2>5. CASE ArriveError(s)
    BY <2>5, CloseTyped DEF ArriveError, SessionTypeOK, Names, StoredAfterFailure, LoadingAfter
  <2> QED
    BY <1>3, <2>1, <2>2, <2>3, <2>4, <2>5 DEF Handle
<1>4. CASE Reload
  <2>1. flight' \in [ Slots -> { Idle } \cup
           [ kind : Kinds, cookie : Names, cause : { "user", "401" },
             shown : Names, answer : Answers, granted : Names ] ]
    BY <1>4 DEF Reload
  <2>2. reloads' \in 0..MaxReloads
    BY <1>4 DEF Reload, SessionTypeOK
  <2>3. user' \in Names /\ route' \in { "login", "app" } /\ loading' \in BOOLEAN
    BY <1>4 DEF Reload, SessionTypeOK, Restored, Guarded
  <2> QED
    BY <1>4, <2>1, <2>2, <2>3 DEF Reload, SessionTypeOK
<1>5. ASSUME NEW n \in Sessions, Expire(n) PROVE SessionTypeOK'
  BY <1>5 DEF Expire, SessionTypeOK
<1>6. CASE UNCHANGED sessionVars
  BY <1>6 DEF sessionVars, SessionTypeOK
<1> QED
  BY <1>1, <1>2, <1>3, <1>4, <1>5, <1>6 DEF SessionNext

(* Only the server grants, and it grants the session it has just opened.   *)
LEMMA GrantsStep ==
  SessionTypeOK /\ GrantsAreSessions /\ [SessionNext]_sessionVars => GrantsAreSessions'
<1> SUFFICES ASSUME SessionTypeOK, GrantsAreSessions, [SessionNext]_sessionVars, NEW t \in Slots,
                    Arrived(t, "ok")', flight'[t].kind = "login"
             PROVE  flight'[t].granted \in Sessions
  BY DEF GrantsAreSessions
<1>1. CASE flight'[t] = flight[t]
  BY <1>1 DEF GrantsAreSessions, Arrived, Pending
<1>2. ASSUME NEW kind, NEW cause, Send(t, kind, cause), kind \in Kinds PROVE FALSE
  <2>1. flight'[t] = SentRequest(kind, cause)
    BY <1>2 DEF Send, SessionTypeOK
  <2> QED
    BY <2>1 DEF SentRequest, Arrived
<1>3. ASSUME Close(t) PROVE FALSE
  BY <1>3, CloseTyped, IdleIsNoRequest DEF Arrived, Pending
<1>4. ASSUME NEW a \in Answers \ { "ok" }, Waits(t), Answer(t, a) PROVE FALSE
  BY <1>4, AnswerTyped DEF Arrived
<1>5. CASE GrantLogin(t)
  <2>1. issued' \in Sessions
    BY <1>5, SessionAssumption DEF GrantLogin, SessionTypeOK, Sessions
  <2>2. flight[t] \in [ kind : Kinds, cookie : Names, cause : { "user", "401" },
                        shown : Names, answer : Answers, granted : Names ]
    BY <1>5 DEF GrantLogin, Waits, Pending, Idle, Kinds, SessionTypeOK
  <2>3. flight'[t].granted = issued'
    BY <1>5, <2>2 DEF GrantLogin, SessionTypeOK
  <2> QED
    BY <2>1, <2>3
<1>6. CASE Accept(t)
  <2>1. flight'[t].kind = flight[t].kind
    BY <1>6, AnswerTyped DEF Accept, Answers
  <2> QED
    BY <1>6, <2>1 DEF Accept
<1>7. CASE Reload \/ (\E n \in Sessions : Expire(n)) \/ UNCHANGED sessionVars
  BY <1>1, <1>7, IdleIsNoRequest DEF Reload, Expire, sessionVars, Arrived, Pending
<1>8. ASSUME NEW s \in Slots, Operator(s) \/ Server(s) \/ Handle(s), s # t
      PROVE  flight'[t] = flight[t]
  BY <1>8 DEF Operator, Server, Handle, SubmitLogin, Read, Download, LogOut,
    SignOutAll, RevokeOthers, GrantLogin, RefuseLogin, Accept, Deny, Error, ArriveLogin,
    ArriveLogout, ArriveOther, Arrive401, ArriveError, Send, Close, Answer, SessionTypeOK
<1>9. CASE Operator(t)
  BY <1>2, <1>9 DEF Operator, SubmitLogin, Read, Download, LogOut, SignOutAll,
    RevokeOthers, Kinds
<1>10. CASE Server(t)
  BY <1>4, <1>5, <1>6, <1>10 DEF Server, RefuseLogin, Deny, Error, Answers
<1>11. CASE Handle(t)
  BY <1>2, <1>3, <1>11 DEF Handle, ArriveLogin, ArriveLogout, ArriveOther,
    Arrive401, ArriveError, Kinds
<1> QED
  BY <1>1, <1>7, <1>8, <1>9, <1>10, <1>11 DEF SessionNext

(* A slot that holds a logout holds it until its answer has come, and then *)
(* nobody is remembered.                                                   *)
LEMMA SignedOutStep == SessionInv /\ [SessionNext]_sessionVars => SignedOutStaysOut'
<1> SUFFICES ASSUME SessionInv, [SessionNext]_sessionVars, stored' # NoSession, user' = NoSession
             PROVE  \E s \in Slots : Pending(s)' /\ flight'[s].kind = "logout"
  BY DEF SignedOutStaysOut
<1> DEFINE LogsOut(s) == Pending(s) /\ flight[s].kind = "logout"
<1>1. ASSUME NEW s \in Slots, NEW cause \in { "user", "401" }, Send(s, "logout", cause)
      PROVE  LogsOut(s)'
  <2>1. flight'[s] = SentRequest("logout", cause)
    BY <1>1 DEF SessionInv, SessionTypeOK, Send
  <2> QED
    BY <2>1 DEF SentRequest, Pending, Kinds
<1>2. CASE \E s \in Slots : LogOut(s) \/ Arrive401(s)
  BY <1>1, <1>2 DEF LogOut, Arrive401
<1>3. CASE Reload
  BY <1>3 DEF Reload, Restored
<1>4. ASSUME NEW s \in Slots, ArriveLogin(s) PROVE FALSE
  BY <1>4, SessionAssumption DEF ArriveLogin, SessionInv, GrantsAreSessions, Sessions
<1>5. ASSUME NEW s \in Slots, ArriveLogout(s) PROVE FALSE
  BY <1>5 DEF ArriveLogout
<1>6. SUFFICES ASSUME user' = user, stored' = stored,
                      ~ \E s \in Slots : LogOut(s) \/ Arrive401(s) \/ ArriveLogin(s)
                                          \/ ArriveLogout(s)
               PROVE  \E s \in Slots : LogsOut(s)'
  <2>1. CASE \E s \in Slots : ArriveError(s)
    <3>1. user' = user /\ stored' = stored
      BY <2>1 DEF ArriveError, StoredAfterFailure
    <3> QED
      BY <1>2, <1>4, <1>5, <1>6, <3>1
  <2>2. ASSUME ~ \E s \in Slots : ArriveError(s), ~Reload,
               ~ \E s \in Slots : LogOut(s) \/ Arrive401(s) \/ ArriveLogin(s)
                                   \/ ArriveLogout(s)
        PROVE  user' = user /\ stored' = stored
    BY <2>2 DEF SessionNext, sessionVars, Operator, Server, Handle, SubmitLogin, Read, Download,
      SignOutAll, RevokeOthers, GrantLogin, RefuseLogin, Accept, Deny, Error, ArriveOther,
      Expire
  <2> QED
    BY <1>2, <1>3, <1>4, <1>5, <1>6, <2>1, <2>2
<1>7. PICK s \in Slots : LogsOut(s)
  BY <1>6 DEF SessionInv, SignedOutStaysOut
<1>8. CASE flight'[s] = flight[s]
  BY <1>7, <1>8 DEF Pending
<1>9. ASSUME NEW a \in Answers, Waits(s), Answer(s, a) PROVE LogsOut(s)'
  BY <1>7, <1>9, AnswerTyped DEF SessionInv, Pending
<1>10. ~ArriveError(s)
  BY <1>6, <1>7 DEF ArriveError, StoredAfterFailure
<1>11. ASSUME NEW t \in Slots, Operator(t) \/ Server(t) \/ Handle(t), t # s
       PROVE  flight'[s] = flight[s]
  BY <1>11 DEF Operator, Server, Handle, SubmitLogin, Read, Download, LogOut,
    SignOutAll, RevokeOthers, GrantLogin, RefuseLogin, Accept, Deny, Error, ArriveLogin,
    ArriveLogout, ArriveOther, Arrive401, ArriveError, Send, Close, Answer, SessionInv,
    SessionTypeOK
<1>12. CASE Operator(s)
  BY <1>7, <1>12, IdleIsNoRequest DEF Operator, SubmitLogin, Read, Download, LogOut, SignOutAll,
    RevokeOthers, IsFree, Pending
<1>13. CASE Server(s)
  BY <1>7, <1>9, <1>13 DEF Server, GrantLogin, RefuseLogin, Accept, Deny, Error, Answers
<1>14. CASE Handle(s)
  BY <1>6, <1>7, <1>10, <1>14 DEF Handle, ArriveOther
<1>15. CASE (\E n \in Sessions : Expire(n)) \/ UNCHANGED sessionVars
  BY <1>8, <1>15 DEF Expire, sessionVars
<1> QED
  BY <1>3, <1>8, <1>11, <1>12, <1>13, <1>14, <1>15 DEF SessionNext

-----------------------------------------------------------------------------
(* The inductive invariant holds of every behaviour: the model is well     *)
(* typed, granted logins name sessions and nobody who was signed out is    *)
(* remembered (api/auth.ts, AuthContext.tsx).                              *)
THEOREM SessionInvariance == SessionSpec => []SessionInv
<1>1. ASSUME SessionInit PROVE SessionInv
  <2>1. \A s \in Slots : ~Pending(s)
    BY <1>1, IdleIsNoRequest DEF SessionInit, Pending
  <2>2. flight \in [ Slots -> { Idle } \cup
           [ kind : Kinds, cookie : Names, cause : { "user", "401" },
             shown : Names, answer : Answers, granted : Names ] ]
    BY <1>1 DEF SessionInit
  <2>3. loading \in BOOLEAN /\ route \in { "login", "app" } /\ valid \subseteq Sessions
    BY <1>1 DEF SessionInit
  <2>4. issued \in 0..MaxSessions /\ errors \in 0..MaxErrors /\ reloads \in 0..MaxReloads
    BY <1>1, SessionAssumption DEF SessionInit, SessionAssumption
  <2>5. SessionTypeOK
    BY <1>1, <2>2, <2>3, <2>4 DEF SessionInit, SessionTypeOK, Names
  <2> QED
    BY <1>1, <2>1, <2>5 DEF SessionInit, SessionInv, GrantsAreSessions, SignedOutStaysOut, Arrived
<1>2. SessionInv /\ [SessionNext]_sessionVars => SessionInv'
  BY SessionTypingStep, GrantsStep, SignedOutStep DEF SessionInv
<1> QED
  BY <1>1, <1>2, PTL DEF SessionSpec

(* The type invariant of the console's session.                            *)
THEOREM SessionTyping == SessionSpec => []SessionTypeOK
BY SessionInvariance, PTL DEF SessionInv

(* However requests, answers, expiries, logouts and reloads interleave, a  *)
(* console that shows no user remembers one only while the logout that     *)
(* will forget it is under way (clearStoredUser in logout, api/auth.ts).   *)
THEOREM NobodyComesBack == SessionSpec => []SignedOutStaysOut
BY SessionInvariance, PTL DEF SessionInv
=============================================================================
