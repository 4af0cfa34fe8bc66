------------------------------- MODULE MapTools -------------------------------
(***************************************************************************)
(* The tools of the map and its context panel: who gets a click on the     *)
(* map, and a key.  Each of five tools has a mode of its own that the      *)
(* buttons, the keys and the other tools turn off; what the tools leave on *)
(* the map, the pins and the anchors, outlives their modes, except the     *)
(* points of a measurement.  Without a tool a click selects what is under  *)
(* it.  Clicks are numbered.                                               *)
(***************************************************************************)
EXTENDS Naturals, Sequences, FiniteSets, FiniteSetsExt

CONSTANT MaxClicks   \* bound on clicks on the map

VARIABLE page

Tools    == { "measurement", "annotation", "rangeRing", "sector", "bearingLine" }
Anchored == { "rangeRing", "sector", "bearingLine" }
Kinds    == { "cluster", "signal", "asset", "site" }
None     == "none"
Clicks   == 1..MaxClicks
NoClick  == 0

TypeOK ==
  /\ page.tools \subseteq Tools /\ page.points \in Seq(Clicks) /\ Len(page.points) <= 2
  /\ page.anchor \in [ Anchored -> Clicks \cup { NoClick } ]
  /\ page.marks \subseteq [ id : Clicks, click : Clicks ] /\ page.next \in 1..(MaxClicks + 1)
  /\ page.selected \in Kinds \cup { None } /\ page.forced \in BOOLEAN
  /\ page.clicks \in Clicks \cup { NoClick }

Init ==
  page = [ tools |-> {}, points |-> <<>>, anchor |-> [ t \in Anchored |-> NoClick ],
           marks |-> {}, next |-> 1, selected |-> None, forced |-> FALSE,
           clicks |-> NoClick ]
-----------------------------------------------------------------------------
(* The modes.  Turning the measurement off, or on, forgets its points.     *)

Disable(p, tools) ==
  [ p EXCEPT !.tools = @ \ tools, !.points = IF "measurement" \in tools THEN <<>> ELSE @ ]

DisabledByAllButSector(t) ==   \* the mutant
  Tools \ (IF t = "sector" THEN { t, "bearingLine" } ELSE { t })
DisabledBy(t) == Tools \ { t }
Toggled(p, t) ==
  IF t \in p.tools THEN Disable(p, { t })
  ELSE [ Disable(p, DisabledBy(t)) EXCEPT !.tools = @ \cup { t } ]

(* The tool a click or Escape is for when several would take it.           *)
Rank == <<"measurement", "annotation", "rangeRing", "sector", "bearingLine">>
First(tools) == Rank[Min({ i \in DOMAIN Rank : Rank[i] \in tools })]

Toggle(t) == page' = Toggled(page, t)

-----------------------------------------------------------------------------
(* A click on the map, on features of the kinds under it.                  *)

NextId(p) == p.next

AnnotationClick(p, n) ==
  [ p EXCEPT !.marks = @ \cup { [ id |-> NextId(p), click |-> n ] }, !.next = @ + 1 ]
CoordinateClick(p, n) ==
  [ p EXCEPT !.points = IF Len(@) >= 2 THEN <<n>> ELSE Append(@, n) ]
AnchorClick(p, t, n) == [ p EXCEPT !.anchor[t] = n ]

Priority(kind) == CASE kind = "site" -> 4 [] kind = "asset" -> 3
                    [] kind = "signal" -> 2 [] kind = "cluster" -> 1
ResolveMapClickCandidate(under) ==
  CHOOSE kind \in under : \A other \in under : Priority(other) <= Priority(kind)

(* A cluster is zoomed into and selects nothing.                           *)
FeatureClick(p, under) ==
  IF under = {} \/ ResolveMapClickCandidate(under) = "cluster" THEN p
  ELSE [ p EXCEPT !.selected = ResolveMapClickCandidate(under) ]

Clicked(p, n, under) ==
  IF p.tools = {} THEN FeatureClick(p, under)
  ELSE CASE First(p.tools) = "measurement" -> CoordinateClick(p, n)
         [] First(p.tools) = "annotation"  -> AnnotationClick(p, n)
         [] OTHER                          -> AnchorClick(p, First(p.tools), n)
HandleMapClick(under) ==
  /\ page.clicks < MaxClicks
  /\ page' = [ Clicked(page, page.clicks + 1, under) EXCEPT !.clicks = @ + 1 ]

-----------------------------------------------------------------------------
(* The panels of the tools, each shown in the mode of its tool.            *)

ClearMeasurement ==
  "measurement" \in page.tools /\ page.points # <<>> /\ page' = [ page EXCEPT !.points = <<>> ]
ClearAnchor(t) ==
  t \in page.tools /\ page.anchor[t] # NoClick /\ page' = [ page EXCEPT !.anchor[t] = NoClick ]
RemoveAnnotation(id) ==
  /\ "annotation" \in page.tools /\ \E mark \in page.marks : mark.id = id
  /\ page' = [ page EXCEPT !.marks = { mark \in @ : mark.id # id } ]
ClearAnnotations ==
  /\ "annotation" \in page.tools /\ page.marks # {}
  /\ page' = [ page EXCEPT !.marks = {}, !.next = 1 ]

-----------------------------------------------------------------------------
(* The context panel and the keys.                                         *)

ContextPanelOpen == page.selected # None \/ page.forced
Closed(p) == [ p EXCEPT !.forced = FALSE, !.selected = None ]
ClosePanel == page.selected # None /\ page' = Closed(page)

BracketKey ==
  page' = IF ContextPanelOpen THEN Closed(page) ELSE [ page EXCEPT !.forced = TRUE ]
EscapeKey ==
  IF page.tools # {} THEN page' = Disable(page, { First(page.tools) })
  ELSE ContextPanelOpen /\ page' = Closed(page)

(* What is selected may vanish from the data.                              *)
SelectionGone == page.selected # None /\ page' = [ page EXCEPT !.selected = None ]

Step ==
  \/ \E t \in Tools : Toggle(t)
  \/ \E under \in SUBSET Kinds : HandleMapClick(under)
  \/ ClearMeasurement \/ ClearAnnotations
  \/ \E t \in Anchored : ClearAnchor(t)
  \/ \E id \in Clicks : RemoveAnnotation(id)
  \/ ClosePanel \/ BracketKey \/ EscapeKey \/ SelectionGone

Spec == Init /\ [][Step]_page
-----------------------------------------------------------------------------
(* Whatever buttons and keys turn the tools on and off, at most one takes  *)
(* the clicks, and points of a measurement are there only while it is on.  *)
OneToolAtATime ==
  /\ Cardinality(page.tools) <= 1
  /\ page.points # <<>> => "measurement" \in page.tools
=============================================================================
