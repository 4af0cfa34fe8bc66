------------------------------- MODULE LiveFeed -------------------------------
(***************************************************************************)
(* The live signals a page shows: an event stream that reconnects with     *)
(* back-off, and after every connection a snapshot to start from, merged   *)
(* and cut to the newest few.  A signal is the number the server gave it   *)
(* when it stored it, which is also its time; one type of signal stands    *)
(* for the nine, whose snapshots are asked for and kept alike.             *)
(* Timeouts of zero are taken at once.                                     *)
(***************************************************************************)
EXTENDS Naturals, FiniteSets

CONSTANTS
  Limit,        \* how many signals of the type are kept
  MaxSignals,   \* bound on signals stored
  MaxFaults,    \* bound on failures of requests and connections
  MaxVisits     \* bound on times the live feed is entered

FeedAssumption ==
  { Limit, MaxSignals, MaxFaults, MaxVisits } \subseteq Nat \ { 0 }

VARIABLE page

Signal      == 1..MaxSignals
Connections == 1..(MaxFaults + 1)
Delays      == { 1, 10, 20, 30 }

Newest(signals) == { s \in signals : Cardinality({ t \in signals : t > s }) < Limit }
Later(a, b)     == IF a >= b THEN a ELSE b
LatestOf(signals) == IF signals = {} THEN 0 ELSE CHOOSE s \in signals : \A t \in signals : t <= s

(* A snapshot in the cache: "asked" is what was stored when it was asked   *)
(* for, "upTo" what was when it was answered.  A failure of a later fetch  *)
(* leaves an answer that is stale.                                         *)
NoSnapshot == [ status |-> "none", fetching |-> FALSE, asked |-> 0, upTo |-> 0 ]

TypeOK ==
  /\ page.phase \in { "off", "token", "opening", "open", "waiting" }
  /\ page.seen \in 0..MaxSignals /\ page.seed \in 0..MaxSignals
  /\ page.owed \subseteq Signal /\ page.got \subseteq Signal
  /\ page.connection \in 0..Cardinality(Connections) /\ page.delay \in Delays
  /\ page.snapshots \in
       [ Connections -> [ status : { "none", "failed", "ok", "stale" }, fetching : BOOLEAN,
                          asked : 0..MaxSignals, upTo : 0..MaxSignals ] ]

Off == [ phase |-> "off", seen |-> 0, seed |-> 0, since |-> 0, owed |-> {}, got |-> {},
         connection |-> 0, baseline |-> FALSE, delay |-> 1,
         snapshots |-> [ c \in Connections |-> NoSnapshot ],
         stored |-> 0, faults |-> 0, visits |-> 0 ]
Init == page = Off

-----------------------------------------------------------------------------
(* The snapshot of the current connection.                                 *)

Current(p)   == p.connection \in Connections
Snapshot(p)  == p.snapshots[p.connection]
Data(p)      == IF Current(p) THEN Newest(1..Snapshot(p).upTo) ELSE {}
Succeeded(p) == Current(p) /\ Snapshot(p).status = "ok"

Ask(p) ==
  [ p EXCEPT !.snapshots[p.connection].fetching = TRUE,
             !.snapshots[p.connection].asked    = p.stored ]

(* What effects make of a snapshot: the page is ready from then on, and    *)
(* the next connection asks for what is newer than its newest signal.      *)
Seeded(p) ==
  LET seed == Later(p.seed, LatestOf(Data(p))) IN
  [ p EXCEPT !.baseline = @ \/ Succeeded(p), !.seed = seed, !.seen = Later(@, seed) ]

(* Connections are numbered from 1 at every visit, and a snapshot that is  *)
(* still in the cache under that number is not fetched again.              *)
Connected(p) ==
  LET next == [ p EXCEPT !.phase = "open", !.connection = @ + 1, !.delay = 1 ] IN
  Seeded(IF Snapshot(next).status \in { "ok", "stale" } THEN next ELSE Ask(next))

-----------------------------------------------------------------------------
(* The stream.                                                             *)

Enter ==
  /\ page.phase = "off" /\ page.visits < MaxVisits
  /\ page' = [ page EXCEPT !.phase = "token", !.visits = @ + 1 ]

(* A filter, a position of the replay or another page: all is forgotten,   *)
(* except what is in the cache.                                            *)
Leave ==
  /\ page.phase # "off"
  /\ page' = [ Off EXCEPT !.snapshots = page.snapshots, !.stored = page.stored,
                          !.faults = page.faults, !.visits = page.visits ]

TokenArrives ==
  /\ page.phase = "token"
  /\ page' = [ page EXCEPT !.phase = "opening", !.since = page.seen ]

(* Without a cursor the server subscribes the page before it says so; with *)
(* one it first sends what it has stored since, and then what is new.      *)
CatchUp(p) == IF p.since = 0 THEN {} ELSE p.since..p.stored
Opened ==
  /\ page.phase = "opening"
  /\ page' = Connected([ page EXCEPT !.owed = CatchUp(page) ])

KeptLatest(got, s) == Newest({ s })   \* the mutant that replaces what it holds
Kept(got, s)       == Newest(got \cup { s })
Deliver ==
  /\ page.phase = "open" /\ page.owed # {}
  /\ LET s == CHOOSE s \in page.owed : \A t \in page.owed : s <= t IN
     page' = [ page EXCEPT !.owed = @ \ { s }, !.got = Kept(@, s), !.seen = Later(@, s) ]

(* The token is refused, the stream does not open, or it breaks: the page  *)
(* waits no less than the floor and tries again.                           *)
CurrentDelay(delay) == Later(delay, 5)
NextDelay(delay)    == IF 2 * delay > 30 THEN 30 ELSE 2 * delay
Broken ==
  /\ page.phase \in { "token", "opening", "open" } /\ page.faults < MaxFaults
  /\ page' = [ page EXCEPT !.phase = "waiting", !.owed = {}, !.faults = @ + 1 ]
Reconnect ==
  /\ page.phase = "waiting"
  /\ page' = [ page EXCEPT !.phase = "token", !.delay = NextDelay(CurrentDelay(@)) ]

Store ==
  /\ page.stored < MaxSignals
  /\ LET s == page.stored + 1 IN
     page' = [ page EXCEPT !.stored = s,
                           !.owed = IF page.phase = "open" THEN @ \cup { s } ELSE @ ]

(* The operator injects a signal, and the snapshot that is shown is        *)
(* fetched again, unless it is being fetched.                              *)
Inject ==
  /\ page.phase = "open" /\ page.stored < MaxSignals
  /\ LET s    == page.stored + 1
         next == [ page EXCEPT !.stored = s, !.owed = @ \cup { s } ]
     IN page' = IF Snapshot(page).fetching THEN next ELSE Ask(next)

-----------------------------------------------------------------------------
(* The snapshots.  One that is asked for is answered, shown or not.        *)

Answered(c, snapshot) ==
  [ page EXCEPT !.snapshots[c] = snapshot ]
SnapshotArrives(c) ==
  /\ page.snapshots[c].fetching
  /\ \E n \in page.snapshots[c].asked..page.stored :
       page' = Seeded(Answered(c, [ NoSnapshot EXCEPT !.status = "ok", !.upTo = n ]))
SnapshotFails(c) ==
  /\ page.snapshots[c].fetching /\ page.faults < MaxFaults
  /\ LET had == page.snapshots[c].status \in { "ok", "stale" } IN
     page' = [ Answered(c, [ page.snapshots[c] EXCEPT !.fetching = FALSE,
                               !.status = IF had THEN "stale" ELSE "failed" ])
               EXCEPT !.faults = @ + 1 ]

(* Every five seconds, until there has been one to start from.             *)
RetrySnapshotNever == FALSE   \* the mutant without the retry
RetrySnapshot ==
  /\ page.phase # "off" /\ ~page.baseline /\ Current(page)
  /\ Snapshot(page).status \in { "failed", "stale" } /\ ~Snapshot(page).fetching
  /\ page' = Ask(page)

(* Five minutes after it was last shown a snapshot leaves the cache.       *)
Forget(c) ==
  /\ c # page.connection /\ page.snapshots[c] # NoSnapshot /\ ~page.snapshots[c].fetching
  /\ page' = Answered(c, NoSnapshot)

Step ==
  \/ Enter \/ Leave \/ TokenArrives \/ Opened \/ Deliver \/ Broken \/ Reconnect
  \/ Store \/ Inject \/ RetrySnapshot
  \/ \E c \in Connections : SnapshotArrives(c) \/ SnapshotFails(c) \/ Forget(c)

Spec == Init /\ [][Step]_page

(* Timers fire and requests end; what the operator and the feeds do, and   *)
(* what fails, is not owed.                                                *)
Progress ==
  \/ TokenArrives \/ Opened \/ Deliver \/ Reconnect \/ RetrySnapshot
  \/ \E c \in Connections : SnapshotArrives(c) \/ SnapshotFails(c)
FairSpec == Spec /\ WF_page(Progress)
-----------------------------------------------------------------------------
Ready == page.baseline \/ Succeeded(page)
Shown == IF Ready THEN Newest(Data(page) \cup page.got) ELSE {}

(* Whatever breaks and however long it takes to reconnect, at the first    *)
(* visit a page that is connected, has its snapshot and has been sent what *)
(* it is owed shows exactly the newest signals there are.                  *)
FeedIsComplete ==
  /\ page.phase = "open" /\ page.owed = {} /\ page.visits = 1
  /\ Succeeded(page) /\ ~Snapshot(page).fetching
  => Shown = Newest(1..page.stored)

(* The same at later visits, which start from whatever is in the cache.    *)
FeedIsCompleteAgain ==
  /\ page.phase = "open" /\ page.owed = {}
  /\ Succeeded(page) /\ ~Snapshot(page).fetching
  => Shown = Newest(1..page.stored)

(* A page that stays on the live feed gets a snapshot to start from, after *)
(* any failures of the token, the stream or the snapshot.                  *)
Started       == page.phase # "off"
StartedOrLeft == Ready \/ page.phase = "off"
FeedStarts    == Started ~> StartedOrLeft
=============================================================================
