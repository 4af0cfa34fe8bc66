----------------------------- MODULE GlobeEngine -----------------------------
(***************************************************************************)
(* The globe: a Cesium viewer, and one effect per layer that prunes, keeps *)
(* and adds what the data holds.  Each layer is seen through one entity    *)
(* that is in its data or not: the effects treat all of a layer alike.     *)
(* "due" holds what changed since effects last ran, as the dependency      *)
(* arrays see it; a render runs the layers that depend on it, in order.    *)
(***************************************************************************)
EXTENDS Naturals, Sequences

CONSTANTS
  Watched,     \* the sets of layers a behaviour may look at together
  MaxFaults,   \* bound on failures of the engine to start
  MaxUpdates   \* bound on arrivals and departures of data

GlobeAssumption == MaxFaults \in Nat /\ MaxUpdates \in Nat

VARIABLE page

Picked == { "site", "asset", "signal" }
Layers == Picked \cup
  { "ao", "geofence", "breach", "coverage", "chokepoint", "heatmap",
    "track", "trail", "pulse", "halo" }
Toggles == { "showSignals", "showHeatmap", "showCoverage", "showChokepoints",
             "showTrails", "showReplayPulses", "isReplaying", "isCloseView" }

(* What a layer is drawn from, and what its effect depends on besides.     *)
Needs(layer) ==
  CASE layer = "geofence" -> { "site" }
    [] layer = "breach"   -> { "site", "breach" }
    [] layer = "halo"     -> { "site", "halo" }
    [] layer = "heatmap"  -> { "signal" }
    [] OTHER              -> { layer }
Mounting(layer) ==
  CASE layer = "pulse" -> { "isReplaying", "showReplayPulses" }
    [] layer = "halo"  -> { "isReplaying" }
    [] OTHER           -> {}
Showing(layer) ==
  CASE layer = "coverage"   -> { "showCoverage" }
    [] layer = "chokepoint" -> { "showChokepoints" }
    [] layer = "heatmap"    -> { "showSignals", "showHeatmap" }
    [] layer = "signal"     -> { "showSignals" }
    [] layer = "trail"      -> { "showTrails" }
    [] OTHER                -> {}
VisibleSignalDeps == { "signal", "selected" }
DepsOf(layer) ==
  { "ready" } \cup Needs(layer) \cup Mounting(layer) \cup
    CASE layer = "heatmap" -> { "isCloseView" } \cup Showing(layer)
      [] layer = "signal"  -> VisibleSignalDeps \cup Showing(layer)
      [] layer = "trail"   -> {}
      [] OTHER             -> Showing(layer)

Data == UNION { Needs(layer) : layer \in Layers }

TypeOK ==
  /\ page.engine \in { "loading", "ready", "failed" }
  /\ page.data \subseteq Data /\ page.on \subseteq Toggles
  /\ page.selected \in Picked \cup { "nothing" }
  /\ page.drawn \in [ page.watched -> { "absent", "hidden", "shown" } ]

Init ==
  \E watched \in Watched, near \in BOOLEAN :
    page = [ engine |-> "loading", watched |-> watched, near |-> near,
             data |-> {}, on |-> Toggles \ { "showHeatmap", "isReplaying", "isCloseView" },
             selected |-> "nothing", evidence |-> FALSE,
             drawn |-> [ layer \in watched |-> "absent" ],
             outline |-> [ e \in Picked \cap watched |-> "default" ],
             due |-> {}, faults |-> 0, updates |-> 0 ]
-----------------------------------------------------------------------------
(* The effects of one render.                                              *)

(* A selection narrows the signals to those near it, and the selected one. *)
VisibleSignal(p) == p.selected \in { "nothing", "signal" } \/ p.near

InData(p, layer) ==
  /\ Needs(layer) \subseteq p.data /\ Mounting(layer) \subseteq p.on
  /\ layer = "signal" => VisibleSignal(p)
Visible(p, layer) ==
  Showing(layer) \subseteq p.on /\ (layer = "heatmap" => "isCloseView" \notin p.on)

(* The collection of signals is hidden as a whole, and then left as it is. *)
SignalDrawn(p, old) ==
  IF ~Visible(p, "signal") THEN IF old = "absent" THEN old ELSE "hidden"
  ELSE IF InData(p, "signal") THEN "shown" ELSE "absent"

(* A trail is added visible; only the toggle looks at those already there. *)
TrailDrawn(p, old) ==
  LET kept == IF p.due \cap DepsOf("trail") = {} THEN old
              ELSE IF ~InData(p, "trail") THEN "absent"
              ELSE IF old = "absent" THEN "shown" ELSE old
  IN IF "showTrails" \notin p.due \/ kept = "absent" THEN kept
     ELSE IF Visible(p, "trail") THEN "shown" ELSE "hidden"

Drawn(p, layer, old) ==
  IF layer = "trail" THEN TrailDrawn(p, old)
  ELSE IF p.due \cap DepsOf(layer) = {} THEN old
  ELSE IF layer = "signal" THEN SignalDrawn(p, old)
  ELSE IF ~InData(p, layer) THEN "absent"
  ELSE IF Visible(p, layer) THEN "shown" ELSE "hidden"

(* An asset marks its home site and a site its assets; the rule matches of *)
(* a selected signal or site mark the other.                               *)
MarkOf(p, e) ==
  CASE e = "site" /\ p.selected = "asset" -> "linked"
    [] e = "asset" /\ p.selected = "site" -> "linked"
    [] e = "site" /\ p.selected = "signal" /\ p.evidence -> "evidence"
    [] e = "signal" /\ p.selected = "site" /\ p.evidence -> "evidence"
    [] OTHER -> "default"
OutlineDepsForgettingArrivals(e) == { "ready", "evidence", "selected" }   \* the mutant
OutlineDeps(e) ==
  { "ready", "evidence", "selected", e } \cup
    IF e = "signal" THEN VisibleSignalDeps ELSE {}
Outline(p, e, drawn, old) ==
  IF drawn = "absent" THEN "default"
  ELSE IF p.due \cap OutlineDeps(e) = {} THEN old
  ELSE IF e = "signal" /\ ~InData(p, e) THEN old
  ELSE MarkOf(p, e)

Render ==
  /\ page.engine = "ready" /\ page.due # {}
  /\ page' = [ page EXCEPT
       !.drawn = [ layer \in page.watched |-> Drawn(page, layer, page.drawn[layer]) ],
       !.outline = [ e \in Picked \cap page.watched |->
         Outline(page, e, Drawn(page, e, page.drawn[e]), page.outline[e]) ],
       !.due = {} ]
-----------------------------------------------------------------------------
(* The engine: the runtime is imported, the viewer built.                  *)

Start ==
  /\ page.engine = "loading"
  /\ page' = [ page EXCEPT !.engine = "ready", !.due = { "ready" } ]
StartFails ==
  /\ page.engine = "loading" /\ page.faults < MaxFaults
  /\ page' = [ page EXCEPT !.engine = "failed", !.faults = @ + 1 ]
RetryEngine ==
  /\ page.engine = "failed"
  /\ page' = [ page EXCEPT !.engine = "loading" ]

(* What changes around it.  Before the viewer is there nothing is due: the *)
(* effects find it missing, and run when it is ready.                      *)
Changed(p, dep) ==
  IF p.engine = "ready" THEN [ p EXCEPT !.due = @ \cup { dep } ] ELSE p

DataChanges(d) ==
  /\ page.updates < MaxUpdates
  /\ page' = Changed([ page EXCEPT !.updates = @ + 1,
               !.data = IF d \in @ THEN @ \ { d } ELSE @ \cup { d } ], d)

(* The operator sees the last render before acting on it.                  *)
Acts == page.due = {}
Toggle(t) ==
  /\ Acts
  /\ page' = Changed([ page EXCEPT
               !.on = IF t \in @ THEN @ \ { t } ELSE @ \cup { t } ], t)

Selected(p, e) ==
  IF e = p.selected THEN p
  ELSE Changed([ p EXCEPT !.selected = e, !.evidence = FALSE ], "selected")
Select(e) ==
  /\ Acts /\ (e \in Picked => e \in page.data)
  /\ page' = Selected(page, e)

EvidenceArrives ==
  /\ page.selected \in { "site", "signal" } /\ ~page.evidence
  /\ page' = Changed([ page EXCEPT !.evidence = TRUE ], "evidence")

(* A click drills through everything under it.  Rings, circles and cells   *)
(* let it pass, and so do pulses and halos, which have no id; an area or a *)
(* trail is an id nobody knows, and the click ends there.                  *)
Passing == { "coverage", "geofence", "breach", "chokepoint", "heatmap", "track",
             "pulse", "halo" }
ResolvePick(p, stack) ==
  LET found == SelectSeq(stack, LAMBDA layer : layer \notin Passing)
  IN IF found = <<>> \/ Head(found) \notin Picked
        \/ ~InData(p, Head(found)) THEN "miss"
     ELSE Head(found)
Click(stack) ==
  /\ Acts /\ page.engine = "ready"
  /\ \A i \in DOMAIN stack : page.drawn[stack[i]] = "shown"
  /\ LET pick == ResolvePick(page, stack) IN
     /\ pick # "miss"
     /\ page' = Selected(page, IF pick = page.selected THEN "nothing" ELSE pick)

Relevant == UNION { DepsOf(layer) : layer \in page.watched } \cup
            UNION { Showing(layer) : layer \in page.watched }
Step ==
  \/ Render \/ Start \/ StartFails \/ RetryEngine \/ EvidenceArrives
  \/ \E d \in Data \cap Relevant : DataChanges(d)
  \/ \E t \in Toggles \cap Relevant : Toggle(t)
  \/ \E e \in (Picked \cap page.watched) \cup { "nothing" } : Select(e)
  \/ \E top, under \in page.watched : Click(<<top, under>>)

Spec == Init /\ [][Step]_page
-----------------------------------------------------------------------------
Quiet == page.engine = "ready" /\ page.due = {}

(* Whatever order data, toggles, selection and camera change in, once the  *)
(* effects have run the globe holds what the data holds, shown as the      *)
(* toggles say, with the outlines of the selection.  Two layers fall short:*)
(* signals while hidden are not kept up, nor outlined when shown again;    *)
(* and a trail that arrives while trails are off is shown.                 *)
GlobeIsCurrent ==
  Quiet =>
    /\ \A layer \in page.watched \ { "signal", "trail" } :
         page.drawn[layer] = IF ~InData(page, layer) THEN "absent"
                             ELSE IF Visible(page, layer) THEN "shown" ELSE "hidden"
    /\ \A layer \in page.watched \cap { "trail", "signal" } :
         (layer = "signal" => Visible(page, layer))
           => (page.drawn[layer] # "absent" <=> InData(page, layer))
    /\ \A e \in (Picked \cap page.watched) \ { "signal" } :
         page.drawn[e] # "absent" => page.outline[e] = MarkOf(page, e)

(* "Re-runs on visibleSignals AND evidenceSignalIds change, so freshly-    *)
(* added primitives pick up the correct outline on first render"           *)
(* (useGlobeSignalPrimitives.ts:158).                                      *)
SignalOutlineIsCurrent ==
  Quiet /\ "signal" \in page.watched /\ page.drawn["signal"] = "shown"
    => page.outline["signal"] = MarkOf(page, "signal")
=============================================================================
