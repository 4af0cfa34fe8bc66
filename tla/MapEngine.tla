------------------------------ MODULE MapEngine ------------------------------
(***************************************************************************)
(* The map page's engine: a MapLibre map created when its runtime has been *)
(* imported, whose sources and layers are kept up by effects that run, in  *)
(* the order the hooks are called, after every render that changed one of  *)
(* their inputs.  Switching the style throws every source and layer away.  *)
(* The paint of a layer and the order of layers are abstracted, except for *)
(* a layer that must be put below another one.                             *)
(***************************************************************************)
EXTENDS Naturals

CONSTANTS
  Watched,    \* the inputs of the engine that change
  Switched,   \* the toggles the operator flips
  Styles,     \* the base maps
  FirstStyle, \* the one a page opens with
  MaxFaults   \* bound on failed imports, constructors, styles and tiles

(* What feeds the engine: query data, the selection, the drawing tools.    *)
Inputs == { "sites", "assets", "areas", "breaches", "coverage", "chokepoints",
            "track", "trails", "signals", "site", "asset", "signal", "evidence",
            "rings", "sector", "bearing", "annotations", "measurement",
            "pulses", "halos" }
Toggles == { "show signals", "show heatmap", "show coverage", "show chokepoints",
             "show trails", "show pulses" }
Default == Toggles \ { "show heatmap" }

ASSUME EngineAssumption ==
  /\ Watched \subseteq Inputs /\ Switched \subseteq Toggles
  /\ FirstStyle \in Styles /\ MaxFaults \in Nat

VARIABLES
  open,      \* the page is mounted
  runtime,   \* the shared import of the library
  waiting,   \* the page's init effect waits for it
  map,       \* the map: none, styling, ready, or broken by a failed style
  firstLoad, \* the map has yet to emit "load"
  onStyle,   \* a once("style.load") handler is registered
  style,     \* the style asked for
  applied,   \* appliedStyleRef
  loaded,    \* the state mapLoaded
  error,     \* the state engineError
  data,      \* the value of every input, 0 when empty
  on,        \* the toggles that are on
  gl,        \* the sources and layers on the map
  fatal,     \* the page's engine failed before it had loaded
  faults

vars == << open, runtime, waiting, map, firstLoad, onStyle, style, applied, loaded,
           error, data, on, gl, fatal, faults >>

(* Every source with the inputs it is computed from; its layers have its   *)
(* name.                                                                   *)
Depends ==
  [ sites |-> {"sites"}, siteRing |-> {"site"}, siteEvidence |-> {"evidence"},
    siteLinked |-> {"asset", "assets"},
    assets |-> {"assets", "sites"}, assetRing |-> {"asset"}, assetLinked |-> {"site"},
    areas |-> {"areas"}, geofences |-> {"sites"}, breaches |-> {"sites", "breaches"},
    coverage |-> {"coverage"}, chokepoints |-> {"chokepoints"},
    track |-> {"track"}, trails |-> {"trails"},
    signals |-> {"signals", "signal"}, heatmap |-> {"signals"},
    signalEvidence |-> {"evidence"},
    rings |-> {"rings"}, sector |-> {"sector"}, bearing |-> {"bearing"},
    annotations |-> {"annotations"}, measurement |-> {"measurement"},
    pulses |-> {"pulses"}, halos |-> {"halos", "sites"} ]
Sources  == DOMAIN Depends
Optional == { "track", "trails", "pulses" }  \* on the map only with data

NoSource == [ i \in {} |-> 0 ]

Seen(f, p) == [ i \in (Depends[f] \cap Watched) \cup {"present"} |->
                  IF i = "present" THEN 1 ELSE p.data[i] ]
Bare  == [ layers |-> {}, hidden |-> {}, shows |-> [ f \in Sources |-> NoSource ],
           frames |-> {}, raised |-> FALSE ]
Props == [ loaded |-> loaded, data |-> data, on |-> on ]

TypeOK ==
  /\ open \in BOOLEAN /\ waiting \in BOOLEAN /\ loaded \in BOOLEAN
  /\ runtime \in { "absent", "importing", "present" }
  /\ map \in { "none", "styling", "ready", "broken" }
  /\ firstLoad \in BOOLEAN /\ onStyle \in BOOLEAN /\ error \in BOOLEAN
  /\ style \in Styles /\ applied \in Styles \cup { "none" }
  /\ data \in [ Inputs -> 0..1 ] /\ on \subseteq Toggles
  /\ gl.layers \subseteq Sources /\ gl.hidden \subseteq gl.layers
  /\ fatal \in BOOLEAN /\ faults \in 0..MaxFaults

-----------------------------------------------------------------------------
(* The library's operations.                                               *)
Has(m, f)      == m.shows[f] # NoSource
SetData(m, f, p) == [ m EXCEPT !.shows[f] = Seen(f, p) ]
AddLayer(m, f) == [ m EXCEPT !.layers = @ \cup { f }, !.hidden = @ \ { f } ]
RemoveAll(m, f) == [ m EXCEPT !.layers = @ \ { f }, !.hidden = @ \ { f },
                              !.shows[f] = NoSource ]
Show(m, fs, shown) ==
  [ m EXCEPT !.hidden = IF shown THEN @ \ fs ELSE @ \cup (fs \cap m.layers) ]
(* Below a layer that is missing nothing is added: an error event instead. *)
AddLayerBelow(m, f, other) ==
  IF other \in m.layers THEN AddLayer(m, f) ELSE [ m EXCEPT !.raised = TRUE ]

Touched(ch, deps) == ch \cap (deps \cup { "loaded" }) # {}

(* The common effects: each gives its source new data, or adds the source  *)
(* and its layers to a map that has none.                                  *)
AllKept(m, p, ch, fs) ==
  LET touched == { f \in fs : Touched(ch, Depends[f]) }
      added   == { f \in touched : ~Has(m, f) }
  IN [ m EXCEPT !.layers = @ \cup added, !.hidden = @ \ added,
         !.shows = [ f \in Sources |-> IF f \in touched THEN Seen(f, p) ELSE @[f] ] ]

-----------------------------------------------------------------------------
(* One operator per hook: the layers after a render that changed "ch".     *)
(* (Operators named ...Once or ...Loose are the plausible bugs that show   *)
(* the properties can fail.)                                               *)
SiteLayers(m, p, ch) ==
  AllKept(m, p, ch, { "sites", "siteRing", "siteEvidence", "siteLinked" })

AssetLayersOnce(m, p, ch) ==
  AllKept(m, p, IF "assets" \in ch THEN {} ELSE ch,
          { "assets", "assetRing", "assetLinked" })
AssetLayers(m, p, ch) ==
  AllKept(m, p, ch, { "assets", "assetRing", "assetLinked" })

(* The rings of a breach pulse while there are any.                        *)
BreachFrames(m, p) ==
  [ m EXCEPT !.frames = IF p.data.breaches # 0 THEN @ \cup { "breach" }
                        ELSE @ \ { "breach" } ]
Toggle(m, p, ch, t, fs) ==
  IF Touched(ch, { t }) THEN Show(m, fs, t \in p.on) ELSE m
AreaOverlays(m, p, ch) ==
  BreachFrames(AllKept(m, p, ch, { "areas", "geofences", "breaches" }), p)
WatchOverlays(m, p, ch) == AllKept(m, p, ch, { "coverage", "chokepoints" })
Overlays(m, p, ch) ==
  LET drawn == WatchOverlays(AreaOverlays(m, p, ch), p, ch)
  IN Toggle(Toggle(drawn, p, ch, "show chokepoints", { "chokepoints" }),
            p, ch, "show coverage", { "coverage" })

(* The track is drawn anew with every change, the trails are updated in    *)
(* place; both go below the signals' glow.  A toggle only reaches the      *)
(* layer that is there when it is flipped.                                 *)
Track(m, p, ch) ==
  IF ~Touched(ch, { "track" }) THEN m
  ELSE IF p.data.track = 0 THEN RemoveAll(m, "track")
  ELSE AddLayerBelow(SetData(RemoveAll(m, "track"), "track", p), "track", "signals")
Trails(m, p, ch) ==
  IF ~Touched(ch, { "trails" }) THEN m
  ELSE IF p.data.trails = 0 THEN RemoveAll(m, "trails")
  ELSE IF Has(m, "trails") THEN SetData(m, "trails", p)
  ELSE AddLayerBelow(SetData(m, "trails", p), "trails", "signals")
TrackLayers(m, p, ch) ==
  Toggle(Trails(Track(m, p, ch), p, ch), p, ch, "show trails", { "trails" })

(* The signals' layers are added hidden or not with the toggle; the ring   *)
(* of the evidence is added after, and the heatmap shows only with both.   *)
Heatmap(m, p, ch) ==
  IF Touched(ch, { "show signals", "show heatmap" })
  THEN Show(m, { "heatmap" }, { "show signals", "show heatmap" } \subseteq p.on) ELSE m
SignalsDrawn(m, p, ch) == AllKept(m, p, ch, { "signals", "heatmap" })
SignalLayers(m, p, ch) ==
  LET shown == Toggle(SignalsDrawn(m, p, ch), p, ch, "show signals",
                      { "signals", "signalEvidence" })
  IN Heatmap(AllKept(shown, p, ch, { "signalEvidence" }), p, ch)

RingLayers(m, p, ch)       == AllKept(m, p, ch, { "rings" })
SectorLayers(m, p, ch)     == AllKept(m, p, ch, { "sector" })
BearingLayers(m, p, ch)    == AllKept(m, p, ch, { "bearing" })
AnnotationLayers(m, p, ch) == AllKept(m, p, ch, { "annotations" })
MeasurementLayers(m, p, ch) == AllKept(m, p, ch, { "measurement" })
HaloLayers(m, p, ch)       == AllKept(m, p, ch, { "halos" })

EnsurePulses(m, p) == AddLayer(SetData(m, "pulses", p), "pulses")
RemovePulses(m)    == RemoveAll(m, "pulses")
PulseFrames(m, p) ==
  [ m EXCEPT !.frames = IF "show pulses" \in p.on /\ p.data.pulses # 0
                        THEN @ \cup { "breath" } ELSE @ \ { "breath" } ]
PulseLayersLoose(m, p, ch) ==
  IF "show pulses" \in p.on THEN PulseFrames(AllKept(m, p, ch, { "pulses" }), p)
  ELSE m
PulseLayers(m, p, ch) ==
  PulseFrames(
    IF ~Touched(ch, { "pulses", "show pulses" }) THEN m
    ELSE IF "show pulses" \notin p.on THEN RemovePulses(m)
    ELSE EnsurePulses(m, p), p)

(* A render's effects, in the order of the hooks, as the set of the maps   *)
(* they may leave (there is one); without a loaded map they only end the   *)
(* frames.                                                                 *)
Effects(m, p, ch) ==
  LET site        == { SiteLayers(x, p, ch) : x \in { m } }
      asset       == { AssetLayers(x, p, ch) : x \in site }
      overlays    == { Overlays(x, p, ch) : x \in asset }
      track       == { TrackLayers(x, p, ch) : x \in overlays }
      signal      == { SignalLayers(x, p, ch) : x \in track }
      ring        == { RingLayers(x, p, ch) : x \in signal }
      sector      == { SectorLayers(x, p, ch) : x \in ring }
      bearing     == { BearingLayers(x, p, ch) : x \in sector }
      annotation  == { AnnotationLayers(x, p, ch) : x \in bearing }
      measurement == { MeasurementLayers(x, p, ch) : x \in annotation }
      pulse       == { PulseLayers(x, p, ch) : x \in measurement }
      halo        == { HaloLayers(x, p, ch) : x \in pulse }
  IN IF p.loaded THEN halo ELSE { [ m EXCEPT !.frames = {} ] }

(* The page renders with these props; what its effects raise is an error.  *)
Render(m, p, ch, failed) ==
  \E after \in Effects(m, p, ch) :
    /\ gl' = [ after EXCEPT !.raised = FALSE ]
    /\ error' = (failed \/ after.raised)
Fault == faults < MaxFaults /\ faults' = faults + 1

-----------------------------------------------------------------------------
(* Mounting, and the shared import of the library.                         *)

Init ==
  /\ open = FALSE /\ runtime = "absent" /\ waiting = FALSE /\ map = "none"
  /\ firstLoad = FALSE /\ onStyle = FALSE
  /\ style = FirstStyle /\ applied = "none" /\ loaded = FALSE /\ error = FALSE
  /\ data = [ i \in Inputs |-> 0 ] /\ on = Default
  /\ gl = Bare /\ fatal = FALSE /\ faults = 0

Imported == IF runtime = "absent" THEN "importing" ELSE runtime

Open ==
  /\ ~open
  /\ open' = TRUE /\ waiting' = TRUE /\ runtime' = Imported
  /\ UNCHANGED << map, firstLoad, onStyle, style, applied, loaded, error, data, on,
                  gl, fatal, faults >>

(* The cleanup; the toggles and the data are the next page's own.          *)
Close ==
  /\ open
  /\ open' = FALSE /\ waiting' = FALSE /\ map' = "none" /\ firstLoad' = FALSE
  /\ onStyle' = FALSE /\ applied' = "none" /\ loaded' = FALSE /\ error' = FALSE
  /\ data' = [ i \in Inputs |-> 0 ] /\ on' = Default /\ gl' = Bare
  /\ fatal' = FALSE /\ style' = FirstStyle
  /\ UNCHANGED << runtime, faults >>

(* Hovering the page's link starts the import.                             *)
Preload ==
  /\ ~open /\ runtime = "absent"
  /\ runtime' = "importing"
  /\ UNCHANGED << open, waiting, map, firstLoad, onStyle, style, applied, loaded,
                  error, data, on, gl, fatal, faults >>

ImportArrives ==
  /\ runtime = "importing"
  /\ runtime' = "present"
  /\ UNCHANGED << open, waiting, map, firstLoad, onStyle, style, applied, loaded,
                  error, data, on, gl, fatal, faults >>

(* The next call imports anew; a page that waits shows its error.          *)
ImportFailsSilently ==
  /\ runtime = "importing" /\ Fault
  /\ runtime' = "absent" /\ waiting' = FALSE
  /\ UNCHANGED << open, map, firstLoad, onStyle, style, applied, loaded, error,
                  data, on, gl, fatal >>
ImportFails ==
  /\ runtime = "importing" /\ Fault
  /\ runtime' = "absent" /\ waiting' = FALSE
  /\ error' = (error \/ waiting) /\ fatal' = (fatal \/ waiting)
  /\ UNCHANGED << open, map, firstLoad, onStyle, style, applied, loaded, data, on,
                  gl >>

(* The map is made with the style the page asks for by then.               *)
Construct ==
  /\ waiting /\ runtime = "present"
  /\ waiting' = FALSE /\ map' = "styling" /\ firstLoad' = TRUE
  /\ applied' = style
  /\ UNCHANGED << open, runtime, onStyle, style, loaded, error, data, on, gl,
                  fatal, faults >>

(* No WebGL.                                                               *)
ConstructFails ==
  /\ waiting /\ runtime = "present" /\ Fault
  /\ waiting' = FALSE /\ error' = TRUE /\ fatal' = TRUE
  /\ UNCHANGED << open, runtime, map, firstLoad, onStyle, style, applied, loaded,
                  data, on, gl >>

(* Everything is thrown away and the engine mounts again.                  *)
Retry ==
  /\ open /\ error
  /\ error' = FALSE /\ fatal' = FALSE /\ loaded' = FALSE
  /\ map' = "none" /\ firstLoad' = FALSE /\ onStyle' = FALSE /\ applied' = "none"
  /\ gl' = Bare /\ waiting' = TRUE /\ runtime' = Imported
  /\ UNCHANGED << open, style, data, on, faults >>

-----------------------------------------------------------------------------
(* The map's events.                                                       *)

LoadedNow == [ Props EXCEPT !.loaded = TRUE ]
SetLoaded ==
  IF loaded THEN UNCHANGED << loaded, gl, error >>
  ELSE loaded' = TRUE /\ Render(gl, LoadedNow, { "loaded" }, error)

(* "style.load" is heard only after a switch; the first time, "load" is.   *)
StyleArrives ==
  /\ map = "styling"
  /\ map' = "ready" /\ onStyle' = FALSE
  /\ IF onStyle THEN SetLoaded ELSE UNCHANGED << loaded, gl, error >>
  /\ UNCHANGED << open, runtime, waiting, firstLoad, style, applied, data, on,
                  fatal, faults >>
FirstLoad ==
  /\ map = "ready" /\ firstLoad
  /\ firstLoad' = FALSE
  /\ SetLoaded
  /\ UNCHANGED << open, runtime, waiting, map, onStyle, style, applied, data, on,
                  fatal, faults >>

StyleFails ==
  /\ map = "styling" /\ Fault
  /\ map' = "broken" /\ error' = TRUE /\ fatal' = TRUE
  /\ UNCHANGED << open, runtime, waiting, firstLoad, onStyle, style, applied,
                  loaded, data, on, gl >>

(* A tile that cannot be fetched is an error event as well.                *)
TileFails ==
  /\ map = "ready" /\ Fault
  /\ error' = TRUE /\ fatal' = (fatal \/ ~loaded)
  /\ UNCHANGED << open, runtime, waiting, map, firstLoad, onStyle, style, applied,
                  loaded, data, on, gl >>

-----------------------------------------------------------------------------
(* What the page changes.                                                  *)

(* Before there is a map the style is only remembered.                     *)
ChangeStyle(s) ==
  /\ open /\ s # style
  /\ style' = s
  /\ IF map = "none" \/ applied = s
     THEN UNCHANGED << map, onStyle, applied, loaded, gl >>
     ELSE /\ applied' = s /\ map' = "styling" /\ onStyle' = TRUE
          /\ loaded' = FALSE /\ gl' = Bare
  /\ UNCHANGED << open, runtime, waiting, firstLoad, error, data, on, fatal,
                  faults >>

ChangeData(i) ==
  LET new == [ data EXCEPT ![i] = 1 - @ ] IN
  /\ open
  /\ data' = new
  /\ Render(gl, [ Props EXCEPT !.data = new ], { i }, error)
  /\ UNCHANGED << open, runtime, waiting, map, firstLoad, onStyle, style, applied,
                  loaded, on, fatal, faults >>

FlipToggle(t) ==
  LET new == IF t \in on THEN on \ { t } ELSE on \cup { t } IN
  /\ open
  /\ on' = new
  /\ Render(gl, [ Props EXCEPT !.on = new ], { t }, error)
  /\ UNCHANGED << open, runtime, waiting, map, firstLoad, onStyle, style, applied,
                  loaded, data, fatal, faults >>

Next ==
  \/ Open \/ Close \/ Preload \/ Retry
  \/ ImportArrives \/ ImportFails \/ Construct \/ ConstructFails
  \/ StyleArrives \/ FirstLoad \/ StyleFails \/ TileFails
  \/ \E s \in Styles : ChangeStyle(s)
  \/ \E i \in Watched : ChangeData(i)
  \/ \E t \in Switched : FlipToggle(t)

Spec == Init /\ [][Next]_vars

(* A promise settles, and a style asked for arrives or fails.              *)
FairSpec == Spec /\ WF_vars(ImportArrives \/ ImportFails)
                 /\ WF_vars(Construct \/ ConstructFails)
                 /\ WF_vars(StyleArrives \/ StyleFails) /\ WF_vars(FirstLoad)

-----------------------------------------------------------------------------
(* A loaded map shows what the page last rendered, after every switch of   *)
(* style, retry, and change while the map was away: effects run in the     *)
(* order of the hooks, each only when an input of its own has changed      *)
(* (hooks/map).                                                            *)
ShownIsCurrent ==
  loaded => /\ \A f \in Sources \ Optional : gl.shows[f] = Seen(f, Props)
            /\ "show pulses" \in on => gl.shows.pulses = Seen("pulses", Props)

(* A layer that is switched off stays off the map, whatever was loaded or  *)
(* reloaded since.                                                         *)
ToggleOf == [ signals |-> "show signals", coverage |-> "show coverage",
              chokepoints |-> "show chokepoints" ]
HiddenStaysHidden ==
  loaded =>
    /\ \A f \in DOMAIN ToggleOf : ToggleOf[f] \notin on => f \in gl.hidden
    /\ ~({ "show signals", "show heatmap" } \subseteq on) => "heatmap" \in gl.hidden
    /\ "show pulses" \notin on => ~Has(gl, "pulses") /\ "breath" \notin gl.frames

(* The operator never looks at a blank canvas for good: the map loads or   *)
(* says that it cannot (useMapLibreEngine.ts, retryEngine).                *)
BlankIsExplained == (open /\ ~loaded) ~> (loaded \/ error \/ ~open)

(* Only a failure before the map has loaded is reported: "non-fatal        *)
(* MapLibre tile/source errors do NOT populate this".                      *)
EngineErrorOnlyFatal == error => fatal
=============================================================================
