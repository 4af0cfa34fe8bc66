---------------------------- MODULE DebriefReplay ----------------------------
(***************************************************************************)
(* Clicks on the events of a debrief: each moves the replay to its event,  *)
(* and on the debrief page takes the commander to the entity, which for a  *)
(* task or an asset is looked up first.  Panels come and go, each with its *)
(* own count of clicks, and a lookup outlives its panel.                   *)
(***************************************************************************)
EXTENDS Naturals

CONSTANTS
  MaxVisits,   \* bound on the panels mounted
  MaxClicks    \* bound on the clicks in each

DebriefAssumption == MaxVisits \in Nat /\ MaxClicks \in Nat

VARIABLE page

(* "homeless" is an event of an asset without a home site.                 *)
Events      == { "incident", "task", "homeless" }
NeedsLookup == { "task", "homeless" }
None        == "none"
Visits      == 1..MaxVisits
Lookups     == [ visit : Visits, click : 1..MaxClicks, event : NeedsLookup ]

(* "newest" is latestClickToken, which the lookups of a panel that is gone *)
(* still hold; "moved" is the click that last moved the replay.            *)
TypeOK ==
  /\ page.at \in { "debrief", "map", "elsewhere" } /\ page.leaving \in BOOLEAN
  /\ page.visit \in 0..MaxVisits /\ page.newest \in [ Visits -> 0..MaxClicks ]
  /\ page.pending \in NeedsLookup \cup { None } /\ page.lookups \subseteq Lookups
  /\ page.asOf \in Events \cup { "live", "picked" }
  /\ page.moved \in [ visit : 0..MaxVisits, click : 0..MaxClicks ]

Init ==
  page = [ at |-> "elsewhere", leaving |-> FALSE, visit |-> 0,
           newest |-> [ v \in Visits |-> 0 ], pending |-> None, lookups |-> {},
           asOf |-> "live", moved |-> [ visit |-> 0, click |-> 0 ] ]
-----------------------------------------------------------------------------
(* The page, or the panel beside the map, is opened anew; leaving the page *)
(* takes until the next one is loaded.                                     *)
Mount(place) ==
  /\ page.at = "elsewhere" /\ page.visit < MaxVisits
  /\ page' = [ page EXCEPT !.at = place, !.leaving = FALSE, !.visit = @ + 1,
                           !.pending = None ]
Unmount ==
  page.at # "elsewhere" /\ page' = [ page EXCEPT !.at = "elsewhere", !.leaving = FALSE ]

Navigates(p) == [ p EXCEPT !.leaving = TRUE ]

(* The replay moves to the event, whatever has happened to it meanwhile.   *)
Enter(p, l) ==
  [ p EXCEPT !.asOf = l.event, !.moved = [ visit |-> l.visit, click |-> l.click ] ]

HandleReconstruct(e) ==
  LET click == page.newest[page.visit] + 1
      l     == [ visit |-> page.visit, click |-> click, event |-> e ]
      p     == [ page EXCEPT !.newest[page.visit] = click ]
  IN /\ page.at # "elsewhere" /\ page.pending # e
     /\ click <= MaxClicks
     /\ page' = IF page.at = "map" THEN Enter(p, l)
                ELSE IF e \in NeedsLookup
                THEN [ p EXCEPT !.pending = e, !.lookups = @ \cup { l } ]
                ELSE Navigates(Enter(p, l))

(* A newer click of the same panel supersedes a lookup.                    *)
SupersededNever(p, l) == FALSE   \* the mutant
Superseded(p, l)      == l.click # p.newest[l.visit]

Settled(p, l) ==
  Enter([ p EXCEPT !.pending = IF l.visit = p.visit THEN None ELSE @ ], l)
Answer(l) ==
  LET p == [ page EXCEPT !.lookups = @ \ { l } ]
  IN /\ l \in page.lookups
     /\ page' = IF Superseded(page, l) THEN p
                ELSE IF l.event = "homeless" THEN Settled(p, l)
                ELSE Navigates(Settled(p, l))

(* Without a target the replay is entered all the same.                    *)
LookupFails(l) ==
  LET p == [ page EXCEPT !.lookups = @ \ { l } ]
  IN /\ l \in page.lookups
     /\ page' = IF Superseded(page, l) THEN p ELSE Settled(p, l)

(* The replay's own controls.                                              *)
Pick(position) == page.asOf # position /\ page' = [ page EXCEPT !.asOf = position ]

Step ==
  \/ Unmount
  \/ \E place \in { "debrief", "map" } : Mount(place)
  \/ \E e \in Events : HandleReconstruct(e)
  \/ \E l \in page.lookups : Answer(l) \/ LookupFails(l)
  \/ \E position \in { "live", "picked" } : Pick(position)

Spec == Init /\ [][Step]_page
-----------------------------------------------------------------------------
(* Within a panel the clicks move the replay in the order they were made,  *)
(* whatever order their lookups are answered in, and whether or not the    *)
(* panel is still there: "a newer click supersedes any in-flight lookup".  *)
(* (A lookup of a panel that is gone is not superseded by another's.)      *)
LatestClickWins ==
  [][ page'.moved.visit = page.moved.visit
        => page'.moved.click >= page.moved.click ]_page
=============================================================================
