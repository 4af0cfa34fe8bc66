--------------------------- MODULE EntitySelection ---------------------------
(***************************************************************************)
(* What is selected on the map or the globe, and the address that names    *)
(* it.  A click writes both; a link, Back, or a reload writes the address  *)
(* and an effect follows it once the page is ready and the entity has      *)
(* arrived; another effect drops what the data no longer holds.  A signal  *)
(* that is named before the stream has delivered it has a grace period.    *)
(* "due" holds what changed since effects last ran: a render runs, in the  *)
(* order of the hooks, those that depend on it, and they see the values of *)
(* their render but the references of now.                                 *)
(***************************************************************************)
EXTENDS Naturals

CONSTANTS
  Sites, Assets, Signals,
  MaxLinks,    \* bound on links followed
  MaxUpdates   \* bound on changes of data, connection and readiness

Entities == Sites \cup Assets \cup Signals
Nothing  == "nothing"
Named    == Entities \cup { Nothing }

SelectionAssumption ==
  Nothing \notin Entities /\ MaxLinks \in Nat /\ MaxUpdates \in Nat

VARIABLE page

Deps == { "search", "state", "key", "selected", "data", "connected", "settled",
          "show", "ready" }

(* "fresh" marks a location this page has just written, "old" one it wrote *)
(* some time before, which Back or a reload brings up again.               *)
TypeOK ==
  /\ page.source \in { "map", "globe" }
  /\ page.url \in Named /\ page.meta \in { "none", "fresh", "old" }
  /\ page.back \in Named \cup { "unset" }
  /\ page.selected \subseteq Entities /\ page.present \subseteq Entities
  /\ page.loaded \subseteq { "sites", "assets" }
  /\ page.due \subseteq Deps

Mounted(source, url, meta) ==
  [ source |-> source, url |-> url, meta |-> meta, back |-> "unset",
    selected |-> {}, applied |-> FALSE, settled |-> "nowhere", timer |-> FALSE,
    present |-> {}, loaded |-> {}, connected |-> FALSE,
    show |-> TRUE, wasShown |-> TRUE, ready |-> FALSE,
    due |-> Deps, links |-> 0, updates |-> 0 ]
Init ==
  \E source \in { "map", "globe" }, url \in Named, meta \in { "none", "old" } :
    page = Mounted(source, url, meta)

-----------------------------------------------------------------------------
(* Writing the address: always another location, never the same address.   *)

(* The grace period that has ended is that of one location.                *)
LeaveHere(settled) == IF settled = "here" THEN "nowhere" ELSE settled

UpdateSelectionRoute(p, named) ==
  IF p.url = named THEN p
  ELSE [ p EXCEPT !.url = named, !.meta = "fresh", !.settled = LeaveHere(@),
                  !.due = @ \cup { "search", "state", "key" } ]

Select(p, named) ==
  LET new == { named } \cap Entities IN
  UpdateSelectionRoute(
    [ p EXCEPT !.selected = new,
               !.due = IF new = p.selected THEN @ ELSE @ \cup { "selected" } ], named)

-----------------------------------------------------------------------------
(* The effects of one render.                                              *)

Normalized(selected) ==
  IF selected \cap Sites # {} THEN selected \cap Sites
  ELSE IF selected \cap Assets # {} THEN selected \cap Assets
  ELSE selected

(* The grace period starts anew with each location and connection.         *)
GraceWindow(p) ==
  IF p.due \cap { "connected", "search", "key" } = {} THEN p
  ELSE [ p EXCEPT !.timer = p.connected /\ p.url \in Signals,
                  !.settled = IF p.connected THEN @ ELSE "nowhere" ]

SignalsLoadedAtOnce(p) == p.connected   \* the mutant without a grace period
SignalsLoaded(p) ==
  p.connected /\ \/ p.applied \/ p.settled = "here"
                 \/ p.url \notin Signals \/ p.url \in p.present
Missing(p, e) ==
  /\ e \notin p.present
  /\ \/ e \in Sites /\ "sites" \in p.loaded
     \/ e \in Assets /\ "assets" \in p.loaded
     \/ e \in Signals /\ SignalsLoaded(p)

(* An address this page wrote itself is not believed over the selection.   *)
RouteAuthoritative(p) == p.meta = "none"
ShouldClear(p) ==
  /\ p.due \ { "show", "ready" } # {}
  /\ \/ RouteAuthoritative(p) /\ p.url # Nothing /\ Missing(p, p.url)
     \/ \E e \in Normalized(p.selected) : Missing(p, e)

(* An effect runs against the values "p" of its render and leaves "n".     *)
ClearStale(p, n) == IF ShouldClear(p) THEN Select(n, Nothing) ELSE n

(* Hiding the signals: the globe forgets the selected signal and takes it  *)
(* from the address again; the map reports a click on nothing.             *)
HideOnGlobe(p, n) ==
  LET hidden   == p.selected \cap Signals # {} /\ ~p.show
      restored == /\ p.show /\ ~p.wasShown /\ p.selected \cap Signals = {}
                  /\ p.url \in Signals
  IN IF p.due \cap { "search", "selected", "show" } = {} THEN n
     ELSE [ n EXCEPT !.wasShown = p.show,
              !.selected = IF ~p.show THEN @ \ Signals
                           ELSE IF restored THEN @ \cup { p.url } ELSE @,
              !.due = IF hidden \/ restored THEN @ \cup { "selected" } ELSE @ ]
HideOnMap(p, n) ==
  IF p.due \cap { "show", "ready" } # {} /\ p.ready /\ ~p.show
  THEN Select(n, Nothing) ELSE n
HideSignals(p, n) == IF p.source = "map" THEN HideOnMap(p, n) ELSE HideOnGlobe(p, n)

(* The address is followed once, when the page is ready and has the entity.*)
FollowAddress(p, n) ==
  IF \/ p.due \cap { "search", "data", "ready" } = {} \/ ~p.ready \/ p.applied
     \/ p.url \notin p.present \cup { Nothing }
  THEN n
  ELSE LET new == { p.url } \cap Entities IN
       [ n EXCEPT !.applied = TRUE, !.selected = new,
           !.due = IF new = p.selected THEN @ ELSE @ \cup { "selected" } ]

(* A new address is to be followed, unless this page wrote it.             *)
ConsumedForGood(p) ==   \* the mutant that follows only the first address
  LET fresh == "state" \in p.due /\ p.meta = "fresh" IN
  [ p EXCEPT !.applied = @ \/ fresh, !.meta = IF fresh THEN "old" ELSE @ ]
Consumed(p) ==
  LET fresh == "state" \in p.due /\ p.meta = "fresh" IN
  [ p EXCEPT !.applied = (@ /\ "search" \notin p.due) \/ fresh,
             !.meta = IF fresh THEN "old" ELSE @ ]
Effects(p) ==
  LET now == Consumed(GraceWindow(p))
  IN FollowAddress(now, HideSignals(now, ClearStale(now, [ now EXCEPT !.due = {} ])))

Render == page.due # {} /\ page' = Effects(page)

-----------------------------------------------------------------------------
(* What happens to the page.  An event of the operator finds the effects   *)
(* of the last render done; data may arrive with them.                     *)

Click(e) ==
  /\ page.due = {} /\ page.ready /\ e \in page.present \cup { Nothing }
  /\ e \in Signals => page.show
  /\ page' = Select(page, e)

(* A search result, an alert or a panel names the entity in a link.        *)
FollowLink(e) ==
  /\ page.due = {} /\ page.links < MaxLinks
  /\ page' = [ page EXCEPT !.url = e, !.meta = "none", !.back = page.url,
                 !.settled = IF @ = "here" THEN "behind" ELSE "nowhere", !.links = @ + 1,
                 !.due = { "state", "key" } \cup
                         IF e = page.url THEN {} ELSE { "search" } ]

Back ==
  /\ page.due = {} /\ page.back # "unset"
  /\ page' = [ page EXCEPT !.url = page.back, !.meta = "old", !.back = "unset",
                 !.settled = IF @ = "behind" THEN "here" ELSE "nowhere",
                 !.due = { "state", "key" } \cup
                         IF page.back = page.url THEN {} ELSE { "search" } ]

ToggleSignals ==
  /\ page.due = {}
  /\ page' = [ page EXCEPT !.show = ~@, !.due = { "show" } ]

Update == page.updates < MaxUpdates
Updated(p, dep) == [ p EXCEPT !.updates = @ + 1, !.due = @ \cup { dep } ]

(* The map loads again after every switch of its style.                    *)
BecomeReady ==
  /\ ~page.ready
  /\ page' = [ page EXCEPT !.ready = TRUE, !.due = @ \cup { "ready" } ]
SwitchStyle ==
  /\ page.source = "map" /\ page.ready /\ page.due = {} /\ Update
  /\ page' = Updated([ page EXCEPT !.ready = FALSE ], "ready")

Load(kind, es) ==
  /\ kind \notin page.loaded
  /\ page' = [ page EXCEPT !.loaded = @ \cup { kind },
                 !.present = @ \cup es, !.due = @ \cup { "data" } ]

(* An entity comes or goes: a refetch, a signal, the cap on signals.       *)
Change(e) ==
  /\ Update
  /\ e \in Sites => "sites" \in page.loaded
  /\ e \in Assets => "assets" \in page.loaded
  /\ e \in Signals => page.connected
  /\ page' = Updated([ page EXCEPT !.present =
                         IF e \in @ THEN @ \ { e } ELSE @ \cup { e } ], "data")

Connect ==
  /\ ~page.connected
  /\ page' = [ page EXCEPT !.connected = TRUE, !.due = @ \cup { "connected" } ]
Disconnect ==
  /\ page.connected /\ Update
  /\ page' = Updated([ page EXCEPT !.connected = FALSE ], "connected")

GraceEnds ==
  /\ page.timer
  /\ page' = [ page EXCEPT !.timer = FALSE, !.settled = "here",
                 !.due = @ \cup { "settled" } ]

Step ==
  \/ Render \/ Back \/ ToggleSignals \/ BecomeReady \/ SwitchStyle
  \/ Connect \/ Disconnect \/ GraceEnds
  \/ \E e \in Entities \cup { Nothing } : Click(e) \/ FollowLink(e)
  \/ \E e \in Entities : Change(e)
  \/ Load("sites", Sites) \/ Load("assets", Assets)

Spec == Init /\ [][Step]_page
-----------------------------------------------------------------------------
Quiet == page.due = {} /\ page.ready

(* However the address came to name an entity - a link, Back, a click, a   *)
(* reload - and whatever arrived or was switched meanwhile, once the       *)
(* effects have run the entity is selected, if it is there and shown, and  *)
(* on the map nothing else is.  (On the globe showing the signals again    *)
(* restores one from the address beside a site that is still selected.)    *)
AddressIsFollowed ==
  Quiet /\ page.url \in page.present /\ (page.url \in Signals => page.show)
    => page.url \in page.selected /\ (page.source = "map" => page.selected = { page.url })

(* The page does not drop a link to a signal the stream has yet to deliver *)
(* before the grace period of that location is over.                       *)
LinkWaits ==
  [][ Render /\ page.meta = "none" /\ page.url \in Signals \ page.present
        /\ page.settled # "here" /\ page.selected = {} /\ page.show
      => page'.url = page.url ]_page

(* "MapPage preserves URL selection across layer toggles"                  *)
(* (GlobePage.tsx:189): hiding the signals leaves the address as it is.    *)
MapKeepsAddress ==
  [][ page.source = "map" /\ page.due = { "show" } => page'.url = page.url ]_page
=============================================================================
