---------------------------- MODULE ConsoleCache ----------------------------
(***************************************************************************)
(* The cache of the console's queries between its pages, the server and    *)
(* the replay clock.  A query is fetched when a page mounts it, polled,    *)
(* invalidated by the console's own writes and by live events, and kept    *)
(* under a key that holds the replay position; writes made without a       *)
(* connection are held back by the library and sent later.                 *)
(***************************************************************************)
EXTENDS ConsoleQueries

CONSTANTS
  Pages,      \* the pages the operator visits
  Watched,    \* the queries the instance follows
  Ops,        \* the writes that are made
  Now,        \* replay positions are 1..Now-1; the clock stands at Now
  Zone,       \* the positions local time is behind UTC
  MaxWrites,  \* bound on writes, the operator's and those of others
  MaxFaults   \* bound on failed requests and losses of connection or stream

ASSUME CacheAssumption ==
  /\ Pages \subseteq DOMAIN PageQueries /\ Watched \subseteq DOMAIN Queries
  /\ Ops \subseteq DOMAIN Addressed /\ Now \in Nat \ {0}
  /\ Zone \in Nat /\ MaxWrites \in Nat /\ MaxFaults \in Nat

VARIABLES
  page,      \* the mounted route
  asOf,      \* ReplayContext.asOf: a position, or Live
  playing,   \* ReplayContext.isPlaying
  online,    \* navigator.onLine
  stream,    \* the event stream is open
  ver,       \* the server's version of what every query asks, from 1
  cache,     \* the entry of every key
  told,      \* the version the console has been told a query has reached
  events,    \* events under way to this console
  mutation,  \* the operator's write
  writes, faults

vars == << page, asOf, playing, online, stream, ver, cache, told, events,
           mutation, writes, faults >>
bounds == << writes, faults >>

Live      == 0
Modes     == 0..(Now - 1)
NoData    == 0
Versions  == 0..(MaxWrites + 1)
NoFetch   == [ status |-> "idle", of |-> Live, got |-> NoData ]
Empty     == [ data |-> NoData, of |-> Live, invalid |-> FALSE,
               fetch |-> NoFetch ]

(* useReplayParams: a dated query's request and its key hold as_of.        *)
AsOf(q, t) == IF Queries[q].dated THEN t ELSE Live
KeyOfUndated(q, t) == Live
KeyOf(q, t) == AsOf(q, t)

(* A request for today's data, or for a past position's; the past does not *)
(* change, so that the moment such an answer is computed is immaterial.    *)
RequestFor(q, t) ==
  IF AsOf(q, t) = Live \/ ~online
  THEN [ status |-> "sent", of |-> AsOf(q, t), got |-> NoData ]
  ELSE [ status |-> "back", of |-> AsOf(q, t), got |-> 1 ]
Requested(q) == RequestFor(q, asOf)
NoWrite      == [ status |-> "none" ]

ActiveAt(p, t) == { << q, KeyOf(q, t) >> : q \in Watched \cap Mounted(p) }
Active   == ActiveAt(page, asOf)
IsIdle(c)   == c.fetch.status = "idle"
IsStale(c)  == c.data = NoData \/ c.invalid

TypeOK ==
  /\ page \in Pages /\ asOf \in Modes /\ playing \in BOOLEAN
  /\ (playing => asOf # Live)
  /\ online \in BOOLEAN /\ stream \in BOOLEAN /\ (stream => online /\ asOf = Live)
  /\ ver \in [ Watched -> Versions ] /\ told \in [ Watched -> Versions ]
  /\ cache \in [ Watched \X Modes ->
       [ data : Versions, of : Modes, invalid : BOOLEAN,
         fetch : [ status : { "idle", "sent", "back" }, of : Modes,
                   got : Versions ] ] ]
  /\ mutation = NoWrite \/ mutation.status \in { "paused", "sent", "applied" }
  /\ writes \in 0..MaxWrites /\ faults \in 0..MaxFaults

(* A query that is mounted, focused or polled fetches if no fetch is out.  *)
Fetched(q, c) == IF IsIdle(c) THEN [ c EXCEPT !.fetch = Requested(q) ] ELSE c
Fetching(keys) ==
  [ k \in DOMAIN cache |->
      IF k \in keys THEN Fetched(k[1], cache[k]) ELSE cache[k] ]

(* Queries whose function takes the abort signal are cancelled when the    *)
(* last page that shows them leaves.  Bound: a replay entry nobody shows   *)
(* or fetches is forgotten at once; its data could not change.             *)
TakesSignal == { "allTasks", "allSites", "allAssets", "allAreas", "allChokepoints" }
Left(k, c) ==
  IF k[1] \in TakesSignal THEN [ c EXCEPT !.fetch = NoFetch ] ELSE c
Forgotten(k, c) == IF k[2] # Live /\ IsIdle(c) THEN Empty ELSE c

(* The page or the replay position changes: what the new one shows and is  *)
(* stale, or older than its staleTime ("aged"), is fetched.                *)
Moved(p, t, aged) ==
  [ k \in DOMAIN cache |->
      LET c == cache[k] IN
      IF k \in ActiveAt(p, t)
      THEN IF k \notin Active /\ (IsStale(c) \/ k[1] \in aged) /\ IsIdle(c)
           THEN [ c EXCEPT !.fetch = RequestFor(k[1], t) ] ELSE c
      ELSE Forgotten(k, IF k \in Active THEN Left(k, c) ELSE c) ]

(* invalidateQueries: flag every entry, and fetch the shown ones anew; a   *)
(* first fetch still out is not restarted, and its answer clears the flag, *)
(* as does the answer of a fetch whose page has gone.                      *)
Invalidated(keys) ==
  [ k \in DOMAIN cache |->
      LET c == cache[k] IN
      IF ~Reads(k[1], keys) THEN c
      ELSE IF k \in Active /\ (IsIdle(c) \/ c.data # NoData)
           THEN [ c EXCEPT !.invalid = TRUE, !.fetch = Requested(k[1]) ]
           ELSE [ c EXCEPT !.invalid = TRUE ] ]
Swallows(q) ==
  LET c == cache[<< q, Live >>] IN
  ~IsIdle(c) /\ (c.data = NoData \/ << q, Live >> \notin Active)
Tell(keys, at) ==
  told' = [ q \in Watched |->
              IF Reads(q, keys) /\ ~Swallows(q) THEN at[q] ELSE told[q] ]

(* useReplayGuardedMutation: the guard a write runs under is the one of    *)
(* the last render of the component that made it.                          *)
GuardIgnored(m) == FALSE
Guard(m) == IF m.status = "none" THEN FALSE
            ELSE IF m.mounted THEN asOf # Live ELSE m.replaying
Unmounted(m) ==
  IF m.status = "none" \/ ~m.mounted THEN m
  ELSE [ m EXCEPT !.mounted = FALSE, !.replaying = asOf # Live ]

Init ==
  /\ page \in Pages /\ asOf = Live /\ playing = FALSE
  /\ online = TRUE /\ stream = FALSE
  /\ ver = [ q \in Watched |-> 1 ] /\ told = [ q \in Watched |-> 0 ]
  /\ cache = [ k \in Watched \X Modes |->
       IF k \in ActiveAt(page, Live)
       THEN [ Empty EXCEPT !.fetch = [ NoFetch EXCEPT !.status = "sent" ] ]
       ELSE Empty ]
  /\ events = {} /\ mutation = NoWrite
  /\ writes = 0 /\ faults = 0

-----------------------------------------------------------------------------
(* The operator and the replay transport.                                  *)
Navigate(p) ==
  /\ p # page /\ page' = p
  /\ \E aged \in SUBSET Watched : cache' = Moved(p, asOf, aged)
  /\ mutation' = Unmounted(mutation)
  /\ UNCHANGED << asOf, playing, online, stream, ver, told, events, bounds >>

(* Every change of position goes through here; replay closes the stream.   *)
SetAsOf(t) ==
  /\ asOf' = t
  /\ \E aged \in SUBSET Watched : cache' = Moved(page, t, aged)
  /\ stream' = (stream /\ t = Live)
  /\ events' = IF t = Live THEN events ELSE {}
  /\ UNCHANGED << page, online, ver, told, mutation, bounds >>

(* The picker and "return to live" always pause.                           *)
Pick(t) == t # asOf /\ SetAsOf(t) /\ playing' = FALSE

(* The picker shows the UTC digits of the position and reads its digits    *)
(* back as local time when it loses the focus, edited or not.  (A result   *)
(* past the clock is left out.)                                            *)
Digits(t) == t
Parsed(d) == d + Zone
Look ==
  /\ asOf # Live /\ Parsed(Digits(asOf)) < Now
  /\ SetAsOf(Parsed(Digits(asOf))) /\ playing' = FALSE

Play ==
  /\ asOf # Live /\ ~playing /\ playing' = TRUE
  /\ UNCHANGED << page, asOf, online, stream, ver, cache, told, events, mutation,
                  bounds >>

Pause ==
  /\ playing /\ playing' = FALSE
  /\ UNCHANGED << page, asOf, online, stream, ver, cache, told, events, mutation,
                  bounds >>

(* A tick that reaches the clock returns to live and stops.                *)
ReachesLive(t) == t >= Now
Tick ==
  /\ playing /\ asOf # Live
  /\ IF ReachesLive(asOf + 1) THEN SetAsOf(Live) /\ playing' = FALSE
     ELSE SetAsOf(IF asOf + 1 < Now THEN asOf + 1 ELSE asOf) /\ playing' = TRUE

(* A step forward stays behind the clock, a step back above the floor.     *)
StepForward ==
  /\ asOf # Live
  /\ SetAsOf(IF asOf + 1 < Now THEN asOf + 1 ELSE Now - 1) /\ playing' = FALSE
StepBackward ==
  /\ asOf > 1 /\ SetAsOf(asOf - 1) /\ playing' = FALSE

(* A write: held back while offline, sent at once otherwise.               *)
Submit(op) ==
  /\ mutation = NoWrite /\ asOf = Live /\ writes < MaxWrites
  /\ mutation' = [ status |-> IF online THEN "sent" ELSE "paused", op |-> op,
                   mounted |-> TRUE, replaying |-> FALSE,
                   at |-> [ q \in Watched |-> 0 ] ]
  /\ writes' = writes + 1
  /\ UNCHANGED << page, asOf, playing, online, stream, ver, cache, told, events,
                  faults >>

(* The window regains the focus.                                           *)
Focus ==
  /\ \E aged \in SUBSET Watched :
       cache' = Fetching({ k \in Active : IsStale(cache[k]) \/ k[1] \in aged })
  /\ UNCHANGED << page, asOf, playing, online, stream, ver, told, events, mutation,
                  bounds >>

-----------------------------------------------------------------------------
(* The server.                                                             *)
(* A write moves what it addresses on, and whatever else it changes too;   *)
(* some of its news, or none of it, goes out after it.                     *)
Bumped(keys, more) ==
  [ q \in Watched |-> IF Reads(q, keys) \/ q \in more THEN ver[q] + 1 ELSE ver[q] ]
Broadcast(news) ==
  \E sent \in SUBSET news :
    events' = IF stream THEN events \cup { [ event |-> e, at |-> ver' ] : e \in sent }
              ELSE events
ServerWrites(keys, news) ==
  /\ \E more \in SUBSET Watched : ver' = Bumped(keys, more)
  /\ Broadcast(news)

OthersWrite(keys, news) ==
  /\ writes < MaxWrites /\ writes' = writes + 1
  /\ ServerWrites(keys, news)
  /\ UNCHANGED << page, asOf, playing, online, stream, cache, told, mutation,
                  faults >>
OthersCall(op) == OthersWrite(Addressed[op], Broadcasts(op))
JobWrites      == OthersWrite({}, JobNews)

Apply ==
  /\ mutation.status = "sent" /\ online
  /\ ServerWrites(Addressed[mutation.op], Broadcasts(mutation.op))
  /\ mutation' = [ mutation EXCEPT !.status = "applied", !.at = ver' ]
  /\ UNCHANGED << page, asOf, playing, online, stream, cache, told, bounds >>

(* The server refuses the write, or the answer to it is lost.              *)
WriteFails ==
  /\ mutation.status \in { "sent", "applied" } /\ faults < MaxFaults
  /\ faults' = faults + 1 /\ mutation' = NoWrite
  /\ UNCHANGED << page, asOf, playing, online, stream, ver, cache, told, events,
                  writes >>

Serve(k) ==
  /\ online /\ cache[k].fetch.status = "sent"
  /\ cache' = [ cache EXCEPT ![k].fetch.status = "back",
       ![k].fetch.got = IF cache[k].fetch.of = Live
                        THEN ver[k[1]] ELSE 1 ]
  /\ UNCHANGED << page, asOf, playing, online, stream, ver, told, events, mutation,
                  bounds >>

-----------------------------------------------------------------------------
(* What comes back.                                                        *)
Answered(c) == [ data |-> c.fetch.got, of |-> c.fetch.of, invalid |-> FALSE,
                 fetch |-> NoFetch ]

Arrive(k) ==
  /\ cache[k].fetch.status = "back"
  /\ cache' = [ cache EXCEPT ![k] =
       IF k \in Active THEN Answered(@) ELSE Forgotten(k, Answered(@)) ]
  /\ UNCHANGED << page, asOf, playing, online, stream, ver, told, events, mutation,
                  bounds >>

(* A fetch that fails twice leaves the data and the flag as they are.      *)
FetchFails(k) ==
  /\ cache[k].fetch.status = "sent" /\ faults < MaxFaults
  /\ faults' = faults + 1
  /\ cache' = [ cache EXCEPT ![k].fetch = NoFetch ]
  /\ UNCHANGED << page, asOf, playing, online, stream, ver, told, events, mutation,
                  writes >>

(* onSuccess of the operator's write.                                      *)
Acknowledge ==
  /\ mutation.status = "applied"
  /\ cache' = Invalidated(Invalidates[mutation.op])
  /\ Tell(Addressed[mutation.op], mutation.at)
  /\ mutation' = NoWrite
  /\ UNCHANGED << page, asOf, playing, online, stream, ver, events, bounds >>

(* useSseEvents: an event invalidates the keys of its table.               *)
Deliver(e) ==
  /\ stream /\ e \in events
  /\ cache' = Invalidated(EventInvalidates[e.event])
  /\ Tell(EventInvalidates[e.event], e.at)
  /\ events' = events \ { e }
  /\ UNCHANGED << page, asOf, playing, online, stream, ver, mutation, bounds >>

-----------------------------------------------------------------------------
(* Time and the connection.  A replayed position is not polled.            *)
Poll(q) ==
  /\ AsOf(q, asOf) = Live /\ Queries[q].polled /\ << q, Live >> \in Active
  /\ IsIdle(cache[<< q, Live >>])
  /\ cache' = Fetching({ << q, Live >> })
  /\ UNCHANGED << page, asOf, playing, online, stream, ver, told, events, mutation,
                  bounds >>

OpenStream ==
  /\ online /\ asOf = Live /\ ~stream /\ stream' = TRUE
  /\ UNCHANGED << page, asOf, playing, online, ver, cache, told, events, mutation,
                  bounds >>

(* What was broadcast while the stream was down is never sent again.       *)
DropStream ==
  /\ stream /\ faults < MaxFaults /\ faults' = faults + 1
  /\ stream' = FALSE /\ events' = {}
  /\ UNCHANGED << page, asOf, playing, online, ver, cache, told, mutation, writes >>

(* Answers under way are lost: a fetch waits to be retried, a write fails. *)
GoOffline ==
  /\ online /\ faults < MaxFaults /\ faults' = faults + 1
  /\ online' = FALSE /\ stream' = FALSE /\ events' = {}
  /\ mutation' = IF mutation.status = "none" THEN mutation ELSE NoWrite
  /\ cache' = [ k \in DOMAIN cache |->
       IF IsIdle(cache[k]) THEN cache[k]
       ELSE [ cache[k] EXCEPT !.fetch.status = "sent", !.fetch.got = NoData ] ]
  /\ UNCHANGED << page, asOf, playing, ver, told, writes >>

(* Held writes are sent, unless their guard rejects them, and what is      *)
(* shown and stale is fetched.  (What has aged too: see Focus.)            *)
GoOnline ==
  /\ ~online /\ online' = TRUE
  /\ mutation' = IF mutation.status # "paused" THEN mutation
                 ELSE IF Guard(mutation) THEN NoWrite
                 ELSE [ mutation EXCEPT !.status = "sent" ]
  /\ cache' = Fetching({ k \in Active : IsStale(cache[k]) })
  /\ UNCHANGED << page, asOf, playing, stream, ver, told, events, bounds >>

-----------------------------------------------------------------------------
Transport == \/ \E t \in Modes : Pick(t)
             \/ Look \/ Play \/ Pause \/ Tick \/ StepForward \/ StepBackward
Request(k) == Serve(k) \/ Arrive(k)

Next ==
  \/ \E p \in Pages : Navigate(p)
  \/ Transport
  \/ \E op \in Ops : Submit(op) \/ OthersCall(op)
  \/ JobWrites
  \/ Apply \/ WriteFails \/ Acknowledge
  \/ \E k \in DOMAIN cache : Request(k) \/ FetchFails(k)
  \/ \E e \in events : Deliver(e)
  \/ \E q \in Watched : Poll(q)
  \/ Focus \/ OpenStream \/ DropStream \/ GoOffline \/ GoOnline

Spec == Init /\ [][Next]_vars

(* Timers run, requests are answered, and the browser comes back online.   *)
FairSpec ==
  /\ Spec
  /\ WF_vars(Tick) /\ WF_vars(GoOnline)
  /\ \A q \in Watched : WF_vars(Poll(q))
  /\ \A k \in Watched \X Modes : WF_vars(Serve(k)) /\ WF_vars(Arrive(k))

-----------------------------------------------------------------------------
(* Every write the console knows of shows: of an acknowledged one of its   *)
(* own, what the call addresses, and of an announced one, what its event   *)
(* invalidates.  What is on the screen, not being fetched and not flagged  *)
(* is at least that recent.  (A write whose flag a fetch already under way *)
(* swallowed does not count: see Swallows.)                                *)
ToldIsShown ==
  \A q \in Watched :
    LET c == cache[<< q, Live >>] IN
    << q, Live >> \in Active /\ IsIdle(c) /\ ~c.invalid /\ c.data # NoData
      => c.data >= told[q]

(* What a dated query shows was asked for at the position the console      *)
(* shows, however late the answer: live data never shows in replay, nor    *)
(* replayed data in live mode, nor one position's data at another.         *)
ShownMatchesPosition ==
  \A q \in Watched :
    LET c == cache[<< q, KeyOf(q, asOf) >>] IN
    Queries[q].dated /\ c.data # NoData => c.of = asOf

(* Alerts, incidents and recommendations are polled, so what is shown of   *)
(* them catches up with the server whatever events were lost.              *)
CatchesUp(q) ==
  \A v \in Versions :
    (<< q, Live >> \in Active /\ ver[q] = v)
      ~> (cache[<< q, Live >>].data >= v \/ << q, Live >> \notin Active)
PolledCatchesUp ==
  /\ "incidents" \in Watched       => CatchesUp("incidents")
  /\ "alerts" \in Watched          => CatchesUp("alerts")
  /\ "recommendations" \in Watched => CatchesUp("recommendations")

(* A held write whose component is still mounted is rejected in replay.    *)
GuardedWhileMounted ==
  [][ mutation.status = "paused" /\ mutation.mounted /\ mutation'.status = "sent"
        => asOf' = Live ]_vars

(* The two functions that "bridge the gap" between instants and the        *)
(* control, which "renders and parses in the browser's local zone"         *)
(* (datetimeLocal.ts), are inverse: the picker shows the position it sets. *)
PickerShowsPosition == asOf # Live => Parsed(Digits(asOf)) = asOf

(* "rejects when the app is in replay mode ... the mutation itself will    *)
(* not fire" (useReplayGuardedMutation): no write starts during replay.    *)
NothingFiresInReplay ==
  [][ mutation.status # "sent" /\ mutation'.status = "sent" => asOf' = Live ]_vars
=============================================================================
