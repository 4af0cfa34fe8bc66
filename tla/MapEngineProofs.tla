--------------------------- MODULE MapEngineProofs ---------------------------
(***************************************************************************)
(* Theorems about MapEngine, for any inputs, toggles and styles that       *)
(* change and any number of faults: a loaded map shows what the page last  *)
(* rendered, and what is switched off stays off.                           *)
(***************************************************************************)
EXTENDS MapEngine, TLAPS

Views == UNION { [ D -> 0..1 ] : D \in SUBSET (Inputs \cup { "present" }) }
Maps  == [ layers : SUBSET Sources, hidden : SUBSET Sources, shows : [ Sources -> Views ],
           frames : SUBSET { "breach", "breath" }, raised : BOOLEAN ]
PropSet == [ loaded : BOOLEAN, data : [ Inputs -> 0..1 ], on : SUBSET Toggles ]
Common  == Sources \ Optional

(* A common source on the map has its layers.                              *)
Sound(m) == m.hidden \subseteq m.layers /\ \A f \in Common : Has(m, f) => f \in m.layers

Same(f, m, n) ==
  n.shows[f] = m.shows[f] /\ (f \in n.layers <=> f \in m.layers)
  /\ (f \in n.hidden <=> f \in m.hidden)

(* What the effects of a render, from "m" to "n", do for a source.         *)
ShowsNew(f, m, n, p, ch) ==
  n.shows[f] = IF Touched(ch, Depends[f]) THEN Seen(f, p) ELSE m.shows[f]
(* A layer that is off after a flip is hidden, and one hidden stays so.    *)
HidesOff(f, m, n, p, ch, ts) ==
  IF Touched(ch, ts) THEN Has(n, f) /\ ~(ts \subseteq p.on) => f \in n.hidden
  ELSE Has(m, f) /\ f \in m.hidden => f \in n.hidden
PulsesNew(m, n, p, ch) ==
  n.shows["pulses"] =
    IF ~Touched(ch, { "pulses", "show pulses" }) THEN m.shows["pulses"]
    ELSE IF "show pulses" \in p.on THEN Seen("pulses", p) ELSE NoSource
Kept(f, m, n, p, ch) ==
  /\ f \in Common => ShowsNew(f, m, n, p, ch)
  /\ f \in DOMAIN ToggleOf => HidesOff(f, m, n, p, ch, { ToggleOf[f] })
  /\ f = "heatmap" => HidesOff(f, m, n, p, ch, { "show signals", "show heatmap" })
  /\ f = "pulses" => PulsesNew(m, n, p, ch)

(* Effects that keep up the sources "own" and leave the others alone.      *)
Keeps(own, m, n, p, ch) ==
  /\ n \in Maps /\ Sound(n)
  /\ \A f \in Sources \ own : Same(f, m, n)
  /\ \A f \in own : Kept(f, m, n, p, ch)
  /\ "breath" \in n.frames =>
       IF "pulses" \in own THEN "show pulses" \in p.on ELSE "breath" \in m.frames

(* What a toggle does when a render reaches it, to "fs" and nothing else.  *)
Toggled(m, n, p, ch, t, fs) ==
  /\ n \in Maps /\ Sound(n) /\ n.frames = m.frames /\ n.shows = m.shows
  /\ n.layers = m.layers
  /\ \A f \in Sources : f \notin fs => (f \in n.hidden <=> f \in m.hidden)
  /\ ~Touched(ch, { t }) => n.hidden = m.hidden
  /\ Touched(ch, { t }) /\ t \notin p.on => fs \cap m.layers \subseteq n.hidden

(* What the heatmap's two toggles do.                                      *)
Warmed(m, n, p, ch, both) ==
  /\ n \in Maps /\ Sound(n) /\ n.frames = m.frames /\ n.shows = m.shows
  /\ n.layers = m.layers
  /\ \A f \in Sources : f # "heatmap" => (f \in n.hidden <=> f \in m.hidden)
  /\ ~Touched(ch, both) => n.hidden = m.hidden
  /\ Touched(ch, both) /\ ~(both \subseteq p.on) /\ "heatmap" \in m.layers
       => "heatmap" \in n.hidden

(* What the common effects of the sources "fs" do.                         *)
Refreshed(m, n, p, ch, fs) ==
  /\ n \in Maps /\ Sound(n) /\ n.frames = m.frames
  /\ \A f \in Sources \ fs : Same(f, m, n)
  /\ \A f \in fs : ShowsNew(f, m, n, p, ch)
  /\ \A f \in fs : Has(m, f) => Has(n, f) /\ (f \in n.hidden <=> f \in m.hidden)

(* The inductive invariant: the promises, and that a source on the map has *)
(* its layers, without which a toggle would hide nothing.                  *)
MapInv ==
  /\ open \in BOOLEAN /\ waiting \in BOOLEAN /\ loaded \in BOOLEAN
  /\ runtime \in { "absent", "importing", "present" }
  /\ map \in { "none", "styling", "ready", "broken" }
  /\ firstLoad \in BOOLEAN /\ onStyle \in BOOLEAN /\ error \in BOOLEAN
  /\ style \in Styles /\ applied \in Styles \cup { "none" }
  /\ data \in [ Inputs -> 0..1 ] /\ on \in SUBSET Toggles
  /\ gl \in Maps /\ Sound(gl)
  /\ fatal \in BOOLEAN /\ faults \in 0..MaxFaults
  /\ ShownIsCurrent /\ HiddenStaysHidden

-----------------------------------------------------------------------------
LEMMA SourceFacts ==
  /\ Sources = { "sites", "siteRing", "siteEvidence", "siteLinked", "assets", "assetRing",
                 "assetLinked", "areas", "geofences", "breaches", "coverage", "chokepoints",
                 "track", "trails", "signals", "heatmap", "signalEvidence", "rings",
                 "sector", "bearing", "annotations", "measurement", "pulses", "halos" }
  /\ \A f \in Sources : Depends[f] \subseteq Inputs
  /\ DOMAIN ToggleOf = { "signals", "coverage", "chokepoints" }
  /\ "present" \notin Inputs /\ "loaded" \notin Inputs /\ "loaded" \notin Toggles
  /\ Inputs \cap Toggles = {}
BY DEF Sources, Depends, ToggleOf, Inputs, Toggles

(* What a source shows is something.                                       *)
LEMMA SeenFacts ==
  ASSUME NEW f \in Sources, NEW p \in PropSet
  PROVE  Seen(f, p) \in Views /\ Seen(f, p) # NoSource
<1> DEFINE D == (Depends[f] \cap Watched) \cup { "present" }
<1>1. D \in SUBSET (Inputs \cup { "present" })
  BY SourceFacts
<1>2. ASSUME NEW i \in D PROVE (IF i = "present" THEN 1 ELSE p.data[i]) \in 0..1
  BY <1>2, SourceFacts DEF PropSet
<1>3. Seen(f, p) \in [ D -> 0..1 ]
  BY <1>2 DEF Seen
<1>4. DOMAIN Seen(f, p) = D /\ DOMAIN NoSource = {}
  BY DEF Seen, NoSource
<1>5. Seen(f, p) \in Views
  BY <1>1, <1>3 DEF Views
<1> QED
  BY <1>4, <1>5

(* A source that is not on the map is typed as well.                       *)
LEMMA NothingIsAView == NoSource \in Views
<1>1. NoSource \in [ {} -> 0..1 ]
  BY DEF NoSource
<1> QED
  BY <1>1 DEF Views

(* The common effects.                                                     *)
LEMMA AllKeptFacts ==
  ASSUME NEW m \in Maps, Sound(m), NEW p \in PropSet, NEW ch, NEW fs \in SUBSET Common,
         NEW n, n = AllKept(m, p, ch, fs)
  PROVE  Refreshed(m, n, p, ch, fs)
<1> DEFINE touched == { f \in fs : Touched(ch, Depends[f]) }
           added   == { f \in touched : ~Has(m, f) }
<1>1. n = [ m EXCEPT !.layers = @ \cup added, !.hidden = @ \ added,
              !.shows = [ f \in Sources |-> IF f \in touched THEN Seen(f, p) ELSE @[f] ] ]
  BY DEF AllKept
<1> HIDE DEF touched, added
<1>2. /\ n.layers = m.layers \cup added /\ n.hidden = m.hidden \ added
      /\ n.shows = [ f \in Sources |-> IF f \in touched THEN Seen(f, p) ELSE m.shows[f] ]
      /\ n.frames = m.frames /\ n.raised = m.raised
      /\ DOMAIN n = DOMAIN m
  BY <1>1 DEF Maps
<1>3. touched \subseteq Sources /\ added \subseteq touched
  BY DEF touched, added, Common
<1>4. n.shows \in [ Sources -> Views ]
  BY <1>2, SeenFacts DEF Maps
<1>5. n \in Maps
  BY <1>1, <1>2, <1>3, <1>4 DEF Maps
<1>6. \A f \in touched : Has(n, f) /\ n.shows[f] = Seen(f, p)
  BY <1>2, <1>3, SeenFacts DEF Has
<1>7. \A f \in Sources \ touched : n.shows[f] = m.shows[f]
  BY <1>2
<1>8. \A f \in touched : f \in added \/ Has(m, f)
  BY DEF added
<1>9. Sound(n)
  BY <1>2, <1>3, <1>6, <1>7, <1>8 DEF Sound, Has, Common
<1>10. \A f \in Sources \ fs : f \notin touched /\ f \notin added
  BY <1>3 DEF touched
<1>11. \A f \in Sources \ fs : Same(f, m, n)
  BY <1>2, <1>7, <1>10 DEF Same
<1>12. \A f \in fs : ShowsNew(f, m, n, p, ch)
  BY <1>6, <1>7 DEF ShowsNew, touched, Common
<1>13. \A f \in fs : Has(m, f) => Has(n, f) /\ (f \in n.hidden <=> f \in m.hidden)
  BY <1>2, <1>6, <1>7 DEF Has, added, Common
<1> QED
  BY <1>2, <1>5, <1>9, <1>11, <1>12, <1>13 DEF Refreshed

(* A toggle reaches its layers when it is flipped.                         *)
LEMMA ToggleFacts ==
  ASSUME NEW m \in Maps, Sound(m), NEW p, NEW ch, NEW fs, NEW t, NEW n,
         n = Toggle(m, p, ch, t, fs)
  PROVE  Toggled(m, n, p, ch, t, fs)
<1>1. CASE ~Touched(ch, { t })
  BY <1>1 DEF Toggle, Toggled
<1>2. CASE Touched(ch, { t })
  <2> DEFINE h == IF t \in p.on THEN m.hidden \ fs ELSE m.hidden \cup (fs \cap m.layers)
  <2>1. n = [ m EXCEPT !.hidden = h ]
    BY <1>2 DEF Toggle, Show
  <2>2. /\ n.hidden = h /\ n.layers = m.layers /\ n.shows = m.shows
        /\ n.frames = m.frames /\ n.raised = m.raised
    BY <2>1 DEF Maps
  <2>3. h \subseteq m.layers /\ h \subseteq Sources
    BY DEF Sound, Maps
  <2> HIDE DEF h
  <2>4. n \in Maps
    BY <2>1, <2>3 DEF Maps
  <2>5. Sound(n)
    BY <2>2, <2>3 DEF Sound, Has
  <2> QED
    BY <1>2, <2>2, <2>4, <2>5 DEF h, Toggled
<1> QED
  BY <1>1, <1>2

(* Common effects without toggles keep up their sources.                   *)
LEMMA PlainKeeps ==
  ASSUME NEW m \in Maps, Sound(m), NEW p \in PropSet, NEW ch, NEW fs \in SUBSET Common,
         fs \cap ((DOMAIN ToggleOf) \cup { "heatmap", "pulses" }) = {}
  PROVE  Keeps(fs, m, AllKept(m, p, ch, fs), p, ch)
<1> DEFINE n == AllKept(m, p, ch, fs)
<1>1. /\ n \in Maps /\ Sound(n) /\ n.frames = m.frames
      /\ \A f \in Sources \ fs : Same(f, m, n)
      /\ \A f \in fs : ShowsNew(f, m, n, p, ch)
  BY AllKeptFacts DEF Refreshed
<1> HIDE DEF n
<1>2. \A f \in fs : Kept(f, m, n, p, ch)
  BY <1>1 DEF Kept
<1>3. "pulses" \notin fs
  OBVIOUS
<1>4. Keeps(fs, m, n, p, ch)
  BY <1>1, <1>2, <1>3 DEF Keeps
<1> QED
  BY <1>4 DEF n

(* Effects of two hooks, of different sources, one after the other.        *)
LEMMA KeepsBoth ==
  ASSUME NEW a \in SUBSET Sources, NEW b \in SUBSET Sources, a \cap b = {},
         NEW m, NEW x, NEW n, NEW p, NEW ch, Keeps(a, m, x, p, ch), Keeps(b, x, n, p, ch)
  PROVE  Keeps(a \cup b, m, n, p, ch)
<1>1. \A f \in Sources \ (a \cup b) : Same(f, m, n)
  BY DEF Keeps, Same
<1>2. ASSUME NEW f \in a PROVE Kept(f, m, n, p, ch)
  <2>1. Kept(f, m, x, p, ch) /\ Same(f, x, n)
    BY <1>2 DEF Keeps
  <2> QED
    BY <2>1 DEF Kept, Same, ShowsNew, HidesOff, PulsesNew, Has
<1>3. ASSUME NEW f \in b PROVE Kept(f, m, n, p, ch)
  <2>1. Kept(f, x, n, p, ch) /\ Same(f, m, x)
    BY <1>3 DEF Keeps
  <2> QED
    BY <2>1 DEF Kept, Same, ShowsNew, HidesOff, PulsesNew, Has
<1> QED
  BY <1>1, <1>2, <1>3 DEF Keeps

-----------------------------------------------------------------------------
(* The hooks whose effects are the common ones.                            *)
LEMMA CommonHooks ==
  ASSUME NEW m \in Maps, Sound(m), NEW p \in PropSet, NEW ch
  PROVE  /\ Keeps({ "sites", "siteRing", "siteEvidence", "siteLinked" }, m,
                  SiteLayers(m, p, ch), p, ch)
         /\ Keeps({ "assets", "assetRing", "assetLinked" }, m, AssetLayers(m, p, ch), p, ch)
         /\ Keeps({ "rings" }, m, RingLayers(m, p, ch), p, ch)
         /\ Keeps({ "sector" }, m, SectorLayers(m, p, ch), p, ch)
         /\ Keeps({ "bearing" }, m, BearingLayers(m, p, ch), p, ch)
         /\ Keeps({ "annotations" }, m, AnnotationLayers(m, p, ch), p, ch)
         /\ Keeps({ "measurement" }, m, MeasurementLayers(m, p, ch), p, ch)
         /\ Keeps({ "halos" }, m, HaloLayers(m, p, ch), p, ch)
<1> DEFINE plain == Common \ ((DOMAIN ToggleOf) \cup { "heatmap", "pulses" })
<1>1. /\ { "sites", "siteRing", "siteEvidence", "siteLinked" } \subseteq plain
      /\ { "assets", "assetRing", "assetLinked" } \subseteq plain
      /\ { "rings" } \subseteq plain /\ { "sector" } \subseteq plain
      /\ { "bearing" } \subseteq plain /\ { "annotations" } \subseteq plain
      /\ { "measurement" } \subseteq plain /\ { "halos" } \subseteq plain
  BY SourceFacts DEF Common, Optional
<1>2. ASSUME NEW fs, fs \subseteq plain
      PROVE  Keeps(fs, m, AllKept(m, p, ch, fs), p, ch)
  <2>1. fs \in SUBSET Common /\ fs \cap ((DOMAIN ToggleOf) \cup { "heatmap", "pulses" }) = {}
    BY <1>2
  <2> QED
    BY <2>1, PlainKeeps
<1> HIDE DEF plain
<1>3. Keeps({ "sites", "siteRing", "siteEvidence", "siteLinked" }, m,
            SiteLayers(m, p, ch), p, ch)
  BY <1>1, <1>2 DEF SiteLayers
<1>4. Keeps({ "assets", "assetRing", "assetLinked" }, m, AssetLayers(m, p, ch), p, ch)
  BY <1>1, <1>2 DEF AssetLayers
<1>5. /\ Keeps({ "rings" }, m, RingLayers(m, p, ch), p, ch)
      /\ Keeps({ "sector" }, m, SectorLayers(m, p, ch), p, ch)
      /\ Keeps({ "bearing" }, m, BearingLayers(m, p, ch), p, ch)
  BY <1>1, <1>2 DEF RingLayers, SectorLayers, BearingLayers
<1>6. /\ Keeps({ "annotations" }, m, AnnotationLayers(m, p, ch), p, ch)
      /\ Keeps({ "measurement" }, m, MeasurementLayers(m, p, ch), p, ch)
      /\ Keeps({ "halos" }, m, HaloLayers(m, p, ch), p, ch)
  BY <1>1, <1>2 DEF AnnotationLayers, MeasurementLayers, HaloLayers
<1> QED
  BY <1>3, <1>4, <1>5, <1>6

(* The overlays: a toggle each for two of them, and the breaches' frames.  *)
LEMMA OverlaysKeep ==
  ASSUME NEW m \in Maps, Sound(m), NEW p \in PropSet, NEW ch
  PROVE  Keeps({ "areas", "geofences", "breaches", "coverage", "chokepoints" }, m,
               Overlays(m, p, ch), p, ch)
<1> DEFINE areas == { "areas", "geofences", "breaches" }
           watch == { "coverage", "chokepoints" }
           a == AllKept(m, p, ch, areas)
           b == BreachFrames(a, p)
           c == AllKept(b, p, ch, watch)
           d == Toggle(c, p, ch, "show chokepoints", { "chokepoints" })
           n == Toggle(d, p, ch, "show coverage", { "coverage" })
<1>1. areas \in SUBSET Common /\ watch \in SUBSET Common
  BY SourceFacts DEF Common, Optional
<1>2. Overlays(m, p, ch) = n
  BY DEF Overlays, WatchOverlays, AreaOverlays
<1>3. /\ a \in Maps /\ Sound(a) /\ a.frames = m.frames
      /\ \A f \in Sources \ areas : Same(f, m, a)
      /\ \A f \in areas : ShowsNew(f, m, a, p, ch)
  <2> HIDE DEF areas
  <2> QED
    BY <1>1, AllKeptFacts DEF Refreshed
<1> HIDE DEF a
<1>4. /\ b \in Maps /\ b.shows = a.shows /\ b.layers = a.layers /\ b.hidden = a.hidden
      /\ "breath" \in b.frames => "breath" \in a.frames
  BY <1>3 DEF BreachFrames, Maps
<1> HIDE DEF b
<1>5. Sound(b)
  BY <1>3, <1>4 DEF Sound, Has
<1>6. /\ c \in Maps /\ Sound(c) /\ c.frames = b.frames
      /\ \A f \in Sources \ watch : Same(f, b, c)
      /\ \A f \in watch : ShowsNew(f, b, c, p, ch)
      /\ \A f \in watch : Has(b, f) => Has(c, f) /\ (f \in c.hidden <=> f \in b.hidden)
  <2> HIDE DEF watch
  <2> QED
    BY <1>1, <1>4, <1>5, AllKeptFacts DEF Refreshed
<1> HIDE DEF c
<1>d. d = Toggle(c, p, ch, "show chokepoints", { "chokepoints" })
  OBVIOUS
<1>n. n = Toggle(d, p, ch, "show coverage", { "coverage" })
  OBVIOUS
<1> HIDE DEF d, n
<1>7. Toggled(c, d, p, ch, "show chokepoints", { "chokepoints" })
  BY ONLY <1>6, <1>d, ToggleFacts
<1>8. Toggled(d, n, p, ch, "show coverage", { "coverage" })
  <2>1. d \in Maps /\ Sound(d)
    BY <1>7 DEF Toggled
  <2> QED
    BY ONLY <2>1, <1>n, ToggleFacts
<1>9. \A f \in Sources \ (areas \cup watch) : Same(f, m, n)
  BY <1>3, <1>4, <1>6, <1>7, <1>8 DEF Same, Toggled
<1>10. \A f \in areas : Kept(f, m, n, p, ch)
  <2>1. \A f \in areas : f \in Sources \ watch
    BY SourceFacts
  <2>2. \A f \in areas : n.shows[f] = a.shows[f]
    BY <2>1, <1>4, <1>6, <1>7, <1>8 DEF Same, Toggled
  <2>3. \A f \in areas : ShowsNew(f, m, n, p, ch)
    BY <2>2, <1>3 DEF ShowsNew
  <2>4. \A f \in areas : f \notin DOMAIN ToggleOf /\ f # "heatmap" /\ f # "pulses"
    BY DEF ToggleOf
  <2> QED
    BY <2>3, <2>4 DEF Kept
<1>11. ASSUME NEW f \in watch PROVE Kept(f, m, n, p, ch)
  <2>1. f \in Sources \ areas /\ f \in Common
    BY <1>1, SourceFacts
  <2>2. Same(f, m, a) /\ n.shows = c.shows /\ n.layers = c.layers
    BY <2>1, <1>3, <1>7, <1>8 DEF Toggled
  <2>3. ShowsNew(f, m, n, p, ch)
    BY <2>2, <1>4, <1>6 DEF ShowsNew, Same
  <2>4. Has(m, f) => Has(b, f) /\ (f \in b.hidden <=> f \in m.hidden)
    BY <2>2, <1>4 DEF Same, Has
  <2>5. Has(m, f) /\ f \in m.hidden => f \in c.hidden
    BY <2>4, <1>6
  <2>6. Has(n, f) => f \in c.layers
    BY <2>1, <2>2, <1>8 DEF Sound, Toggled
  <2>7. "chokepoints" \in Sources /\ "coverage" \in Sources
    BY SourceFacts
  <2>8. HidesOff(f, m, n, p, ch, { ToggleOf[f] })
    <3>1. CASE f = "chokepoints"
      <4>1. ToggleOf[f] = "show chokepoints" /\ (f \in n.hidden <=> f \in d.hidden)
        BY <3>1, <2>7, <1>8 DEF ToggleOf, Toggled
      <4> QED
        BY <3>1, <4>1, <2>5, <2>6, <1>7 DEF HidesOff, Toggled
    <3>2. CASE f = "coverage"
      <4>1. ToggleOf[f] = "show coverage" /\ (f \in d.hidden <=> f \in c.hidden)
        BY <3>2, <2>7, <1>7 DEF ToggleOf, Toggled
      <4> QED
        BY <3>2, <4>1, <2>5, <2>6, <1>7, <1>8 DEF HidesOff, Toggled
    <3> QED
      BY <3>1, <3>2
  <2> QED
    BY <2>3, <2>8 DEF Kept
<1>12. "breath" \in n.frames => "breath" \in m.frames
  BY <1>3, <1>4, <1>6, <1>7, <1>8 DEF Toggled
<1>13. Keeps(areas \cup watch, m, n, p, ch)
  BY <1>8, <1>9, <1>10, <1>11, <1>12 DEF Keeps, Toggled
<1>14. areas \cup watch = { "areas", "geofences", "breaches", "coverage", "chokepoints" }
  OBVIOUS
<1> QED
  BY <1>2, <1>13, <1>14

(* The track and the trails, which no promise speaks of.                   *)
LEMMA TrackKeeps ==
  ASSUME NEW m \in Maps, Sound(m), NEW p \in PropSet, NEW ch
  PROVE  Keeps({ "track", "trails" }, m, TrackLayers(m, p, ch), p, ch)
<1> DEFINE Other(x, n) == /\ n \in Maps /\ Sound(n) /\ n.frames = x.frames
                          /\ \A f \in Sources \ { "track", "trails" } : Same(f, x, n)
<1>1. ASSUME NEW x \in Maps, Sound(x), NEW f \in { "track", "trails" }
      PROVE  Other(x, RemoveAll(x, f))
  <2>1. f \in Sources /\ f \notin Common
    BY SourceFacts DEF Common, Optional
  <2>2. x.shows \in [ Sources -> Views ]
        /\ [ x.shows EXCEPT ![f] = NoSource ] \in [ Sources -> Views ]
    BY NothingIsAView DEF Maps
  <2>3. RemoveAll(x, f) = [ x EXCEPT !.layers = x.layers \ { f }, !.hidden = x.hidden \ { f },
                                     !.shows = [ x.shows EXCEPT ![f] = NoSource ] ]
    BY DEF RemoveAll
  <2>4. RemoveAll(x, f) \in Maps
    BY <2>2, <2>3 DEF Maps
  <2> DEFINE n == RemoveAll(x, f)
  <2>5. /\ n.layers = x.layers \ { f } /\ n.hidden = x.hidden \ { f } /\ n.frames = x.frames
        /\ n.shows = [ x.shows EXCEPT ![f] = NoSource ]
    BY <2>3 DEF Maps
  <2> HIDE DEF n
  <2>6. \A g \in Sources \ { f } : Same(g, x, n)
    BY <2>2, <2>5 DEF Same
  <2>7. Sound(n)
    BY <1>1, <2>1, <2>5, <2>6 DEF Sound, Same, Has, Common
  <2> QED
    BY <2>4, <2>5, <2>6, <2>7 DEF n
<1>2. ASSUME NEW x \in Maps, Sound(x), NEW f \in { "track", "trails" }
      PROVE  Other(x, SetData(x, f, p))
  <2>1. f \in Sources /\ f \notin Common
    BY SourceFacts DEF Common, Optional
  <2>2. x.shows \in [ Sources -> Views ]
        /\ [ x.shows EXCEPT ![f] = Seen(f, p) ] \in [ Sources -> Views ]
    BY <2>1, SeenFacts DEF Maps
  <2>3. SetData(x, f, p) = [ x EXCEPT !.shows = [ x.shows EXCEPT ![f] = Seen(f, p) ] ]
    BY DEF SetData
  <2>4. SetData(x, f, p) \in Maps
    BY <2>2, <2>3 DEF Maps
  <2> DEFINE n == SetData(x, f, p)
  <2>5. /\ n.layers = x.layers /\ n.hidden = x.hidden /\ n.frames = x.frames
        /\ n.shows = [ x.shows EXCEPT ![f] = Seen(f, p) ]
    BY <2>3 DEF Maps
  <2> HIDE DEF n
  <2>6. \A g \in Sources \ { f } : Same(g, x, n)
    BY <2>2, <2>5 DEF Same
  <2>7. Sound(n)
    BY <1>2, <2>1, <2>5, <2>6 DEF Sound, Same, Has, Common
  <2> QED
    BY <2>4, <2>5, <2>6, <2>7 DEF n
<1>3. ASSUME NEW x \in Maps, Sound(x), NEW f \in { "track", "trails" }
      PROVE  Other(x, AddLayerBelow(x, f, "signals"))
  <2>1. f \in Sources /\ f \notin Common
    BY SourceFacts DEF Common, Optional
  <2> DEFINE n == AddLayerBelow(x, f, "signals")
  <2>2. CASE "signals" \in x.layers
    <3>1. n = [ x EXCEPT !.layers = x.layers \cup { f }, !.hidden = x.hidden \ { f } ]
      BY <2>2 DEF AddLayerBelow, AddLayer
    <3> HIDE DEF n
    <3>2. /\ n \in Maps /\ n.frames = x.frames /\ n.shows = x.shows
          /\ n.layers = x.layers \cup { f } /\ n.hidden = x.hidden \ { f }
      BY <3>1, <2>1 DEF Maps
    <3>3. Sound(n)
      BY <1>3, <3>2 DEF Sound, Has
    <3>4. \A g \in Sources \ { f } : Same(g, x, n)
      BY <3>2 DEF Same
    <3> QED
      BY <3>2, <3>3, <3>4 DEF n
  <2>3. CASE "signals" \notin x.layers
    <3>1. n = [ x EXCEPT !.raised = TRUE ]
      BY <2>3 DEF AddLayerBelow
    <3>2. /\ n \in Maps /\ n.frames = x.frames /\ n.shows = x.shows
          /\ n.layers = x.layers /\ n.hidden = x.hidden
      BY <3>1 DEF Maps
    <3> HIDE DEF n
    <3> QED
      BY <1>3, <3>2 DEF n, Sound, Has, Same
  <2> QED
    BY <2>2, <2>3
<1>4. ASSUME NEW x, NEW y, NEW z, Other(x, y), Other(y, z) PROVE Other(x, z)
  BY <1>4 DEF Same
<1>5. ASSUME NEW x \in Maps, Sound(x) PROVE Other(x, x)
  BY <1>5 DEF Same
<1>6. \A x, n : Other(x, n) => n \in Maps /\ Sound(n)
  OBVIOUS
<1> HIDE DEF Other
<1>7. ASSUME NEW x \in Maps, Sound(x) PROVE Other(x, Track(x, p, ch))
  <2> DEFINE a == RemoveAll(x, "track")
             b == SetData(a, "track", p)
             c == AddLayerBelow(b, "track", "signals")
  <2>1. Other(x, a)
    BY <1>1, <1>7
  <2>2. Other(a, b)
    <3> HIDE DEF a
    <3> QED
      BY <2>1, <1>2, <1>6
  <2>3. Other(b, c)
    <3> HIDE DEF b
    <3> QED
      BY <2>2, <1>3, <1>6
  <2>4. Other(x, c)
    <3> HIDE DEF a, b, c
    <3> QED
      BY <2>1, <2>2, <2>3, <1>4
  <2>5. Track(x, p, ch) \in { x, a, c }
    BY DEF Track
  <2> QED
    BY <2>1, <2>4, <2>5, <1>5, <1>7
<1>8. ASSUME NEW x \in Maps, Sound(x) PROVE Other(x, Trails(x, p, ch))
  <2> DEFINE a == RemoveAll(x, "trails")
             b == SetData(x, "trails", p)
             c == AddLayerBelow(b, "trails", "signals")
  <2>1. Other(x, a) /\ Other(x, b)
    BY <1>1, <1>2, <1>8
  <2>2. Other(b, c)
    <3> HIDE DEF b
    <3> QED
      BY <2>1, <1>3, <1>6
  <2>3. Other(x, c)
    <3> HIDE DEF a, b, c
    <3> QED
      BY <2>1, <2>2, <1>4
  <2>4. Trails(x, p, ch) \in { x, a, b, c }
    BY DEF Trails
  <2> QED
    BY <2>1, <2>3, <2>4, <1>5, <1>8
<1> DEFINE y == Track(m, p, ch)
           z == Trails(y, p, ch)
           n == Toggle(z, p, ch, "show trails", { "trails" })
<1>9. TrackLayers(m, p, ch) = n
  BY DEF TrackLayers
<1>10. n = Toggle(z, p, ch, "show trails", { "trails" })
  OBVIOUS
<1>11. Other(m, y)
  BY <1>7
<1>12. Other(y, z)
  <2> HIDE DEF y
  <2> QED
    BY <1>6, <1>8, <1>11
<1> HIDE DEF y, z, n
<1>13. Other(m, z)
  BY <1>4, <1>11, <1>12
<1>14. Toggled(z, n, p, ch, "show trails", { "trails" })
  <2>1. z \in Maps /\ Sound(z)
    BY <1>13, <1>6
  <2> QED
    BY ONLY <2>1, <1>10, ToggleFacts
<1>15. \A f \in Sources \ { "track", "trails" } : Same(f, m, n)
  BY <1>13, <1>14 DEF Other, Toggled, Same
<1>16. \A f \in { "track", "trails" } : Kept(f, m, n, p, ch)
  BY DEF Kept, Common, Optional, ToggleOf
<1> QED
  BY <1>9, <1>13, <1>14, <1>15, <1>16 DEF Keeps, Toggled, Other

(* The heatmap shows only with both toggles.                               *)
LEMMA HeatmapFacts ==
  ASSUME NEW m \in Maps, Sound(m), NEW p, NEW ch, NEW n, n = Heatmap(m, p, ch)
  PROVE  Warmed(m, n, p, ch, { "show signals", "show heatmap" })
<1> DEFINE both == { "show signals", "show heatmap" }
<1>0. Heatmap(m, p, ch) =
        IF Touched(ch, both) THEN Show(m, { "heatmap" }, both \subseteq p.on) ELSE m
  BY DEF Heatmap
<1> HIDE DEF both
<1>1. CASE ~Touched(ch, both)
  BY <1>0, <1>1 DEF both, Warmed
<1>2. CASE Touched(ch, both)
  <2> DEFINE h == IF both \subseteq p.on THEN m.hidden \ { "heatmap" }
                  ELSE m.hidden \cup ({ "heatmap" } \cap m.layers)
  <2>1. n = [ m EXCEPT !.hidden = h ]
    BY <1>0, <1>2 DEF Show
  <2>2. /\ n.hidden = h /\ n.layers = m.layers /\ n.shows = m.shows
        /\ n.frames = m.frames /\ n.raised = m.raised
    BY <2>1 DEF Maps
  <2>3. h \subseteq m.layers /\ h \subseteq Sources
    BY DEF Sound, Maps
  <2>4. /\ \A f \in Sources : f # "heatmap" => (f \in h <=> f \in m.hidden)
        /\ ~(both \subseteq p.on) /\ "heatmap" \in m.layers => "heatmap" \in h
    OBVIOUS
  <2> HIDE DEF h
  <2>5. n \in Maps
    BY <2>1, <2>3 DEF Maps
  <2>6. Sound(n)
    BY <2>2, <2>3 DEF Sound, Has
  <2> QED
    BY <1>2, <2>2, <2>4, <2>5, <2>6 DEF both, Warmed
<1> QED
  BY <1>1, <1>2

(* The signals: one toggle for their layers and the ring of the evidence,  *)
(* both for the heatmap.                                                   *)
LEMMA SignalsKeep ==
  ASSUME NEW m \in Maps, Sound(m), NEW p \in PropSet, NEW ch
  PROVE  Keeps({ "signals", "heatmap", "signalEvidence" }, m, SignalLayers(m, p, ch), p, ch)
<1> DEFINE drawn == { "signals", "heatmap" }
           flipped == { "signals", "signalEvidence" }
           ring == { "signalEvidence" }
           both == { "show signals", "show heatmap" }
           a == AllKept(m, p, ch, drawn)
           b == Toggle(a, p, ch, "show signals", flipped)
           c == AllKept(b, p, ch, ring)
           n == Heatmap(c, p, ch)
<1>1. /\ drawn \in SUBSET Common /\ ring \in SUBSET Common
      /\ "signals" \in Common /\ "heatmap" \in Common /\ "signalEvidence" \in Common
  BY SourceFacts DEF Common, Optional
<1>2. SignalLayers(m, p, ch) = n
  BY DEF SignalLayers, SignalsDrawn
<1>3. /\ a = AllKept(m, p, ch, drawn) /\ b = Toggle(a, p, ch, "show signals", flipped)
      /\ c = AllKept(b, p, ch, ring) /\ n = Heatmap(c, p, ch)
  OBVIOUS
<1> HIDE DEF a, b, c, n, drawn, ring, both
<1>4. Refreshed(m, a, p, ch, drawn)
  BY <1>1, <1>3, AllKeptFacts
<1>5. Toggled(a, b, p, ch, "show signals", flipped)
  <2>1. a \in Maps /\ Sound(a)
    BY <1>4 DEF Refreshed
  <2> QED
    BY ONLY <2>1, <1>3, ToggleFacts
<1>6. Refreshed(b, c, p, ch, ring)
  <2>1. b \in Maps /\ Sound(b)
    BY <1>5 DEF Toggled
  <2> QED
    BY ONLY <2>1, p \in PropSet, <1>1, <1>3, AllKeptFacts
<1>7. Warmed(c, n, p, ch, both)
  <2>1. c \in Maps /\ Sound(c)
    BY <1>6 DEF Refreshed
  <2> QED
    BY ONLY <2>1, <1>3, HeatmapFacts DEF both
<1> DEFINE own == { "signals", "heatmap", "signalEvidence" }
<1>8. ASSUME NEW f \in Sources \ own PROVE Same(f, m, n)
  <2>1. f \notin drawn /\ f \notin flipped /\ f \notin ring /\ f # "heatmap"
    BY DEF drawn, ring
  <2>2. Same(f, m, a) /\ Same(f, a, b) /\ Same(f, b, c) /\ Same(f, c, n)
    BY <2>1, <1>4, <1>5, <1>6, <1>7 DEF Toggled, Same, Refreshed, Warmed
  <2> QED
    BY <2>2 DEF Same
<1>9. "signals" \in Sources /\ "heatmap" \in Sources /\ "signalEvidence" \in Sources
  BY <1>1 DEF Common
<1>10. Kept("signals", m, n, p, ch)
  <2>1. "signals" \in drawn /\ "signals" \notin ring /\ "signals" \in flipped
    BY DEF drawn, ring
  <2>2. Same("signals", b, c) /\ n.shows["signals"] = a.shows["signals"]
    BY <2>1, <1>5, <1>6, <1>7, <1>9 DEF Same, Toggled, Refreshed, Warmed
  <2>3. ShowsNew("signals", m, n, p, ch)
    BY <2>1, <2>2, <1>4 DEF ShowsNew, Refreshed
  <2>4. "signals" \in n.hidden <=> "signals" \in b.hidden
    BY <2>2, <1>7, <1>9 DEF Same, Warmed
  <2>5. Has(n, "signals") => "signals" \in a.layers
    BY <2>2, <1>1, <1>4 DEF Sound, Has, Refreshed
  <2>6. Has(m, "signals") /\ "signals" \in m.hidden => "signals" \in a.hidden
    BY <2>1, <1>4 DEF Refreshed
  <2>7. HidesOff("signals", m, n, p, ch, { ToggleOf["signals"] })
    BY <2>1, <2>4, <2>5, <2>6, <1>5 DEF HidesOff, Toggled, ToggleOf
  <2> QED
    BY <2>3, <2>7 DEF Kept
<1>11. Kept("heatmap", m, n, p, ch)
  <2>1. "heatmap" \in drawn /\ "heatmap" \notin ring /\ "heatmap" \notin flipped
    BY DEF drawn, ring
  <2>2. Same("heatmap", b, c) /\ n.shows["heatmap"] = a.shows["heatmap"]
    BY <2>1, <1>5, <1>6, <1>7, <1>9 DEF Same, Toggled, Refreshed, Warmed
  <2>3. ShowsNew("heatmap", m, n, p, ch)
    BY <2>1, <2>2, <1>4 DEF ShowsNew, Refreshed
  <2>4. "heatmap" \in c.hidden <=> "heatmap" \in a.hidden
    BY <2>1, <2>2, <1>5, <1>9 DEF Same, Toggled
  <2>5. Has(n, "heatmap") => "heatmap" \in c.layers
    BY <1>1, <1>6, <1>7 DEF Sound, Has, Refreshed, Warmed
  <2>6. Has(m, "heatmap") /\ "heatmap" \in m.hidden => "heatmap" \in a.hidden
    BY <2>1, <1>4 DEF Refreshed
  <2>7. HidesOff("heatmap", m, n, p, ch, both)
    BY <2>4, <2>5, <2>6, <1>7 DEF HidesOff, Warmed
  <2> QED
    BY <2>3, <2>7 DEF Kept, both, ToggleOf
<1>12. Kept("signalEvidence", m, n, p, ch)
  <2>1. "signalEvidence" \in ring /\ "signalEvidence" \notin drawn
    BY DEF drawn, ring
  <2>2. Same("signalEvidence", m, a) /\ n.shows = c.shows /\ b.shows = a.shows
    BY <2>1, <1>4, <1>5, <1>7, <1>9 DEF Toggled, Refreshed, Warmed
  <2>3. ShowsNew("signalEvidence", m, n, p, ch)
    BY <2>1, <2>2, <1>6 DEF ShowsNew, Same, Refreshed
  <2> QED
    BY <2>3 DEF Kept, ToggleOf
<1>13. "breath" \in n.frames => "breath" \in m.frames
  BY <1>4, <1>5, <1>6, <1>7 DEF Toggled, Refreshed, Warmed
<1> QED
  BY <1>2, <1>7, <1>8, <1>10, <1>11, <1>12, <1>13 DEF Keeps, Warmed

(* The pulses, on the map only while their toggle is on.                   *)
LEMMA PulsesKeep ==
  ASSUME NEW m \in Maps, Sound(m), NEW p \in PropSet, NEW ch
  PROVE  Keeps({ "pulses" }, m, PulseLayers(m, p, ch), p, ch)
<1> DEFINE touched == Touched(ch, { "pulses", "show pulses" })
           off == "show pulses" \notin p.on
           x == IF ~touched THEN m ELSE IF off THEN RemovePulses(m) ELSE EnsurePulses(m, p)
           n == PulseFrames(x, p)
<1>1. PulseLayers(m, p, ch) = n
  BY DEF PulseLayers
<1>2. "pulses" \in Sources /\ "pulses" \notin Common
  BY SourceFacts DEF Common, Optional
<1>3. m.shows \in [ Sources -> Views ]
  BY DEF Maps
<1>4. /\ x \in Maps /\ x.frames = m.frames /\ x.hidden \subseteq x.layers
      /\ \A f \in Sources \ { "pulses" } : Same(f, m, x)
      /\ x.shows["pulses"] = IF ~touched THEN m.shows["pulses"]
                             ELSE IF off THEN NoSource ELSE Seen("pulses", p)
  <2>1. CASE ~touched
    <3>1. x = m
      BY <2>1
    <3> HIDE DEF x
    <3> QED
      BY <2>1, <3>1 DEF Same, Sound
  <2>2. CASE touched /\ off
    <3> DEFINE s == [ m.shows EXCEPT !["pulses"] = NoSource ]
    <3>1. x = [ m EXCEPT !.layers = m.layers \ { "pulses" },
                         !.hidden = m.hidden \ { "pulses" }, !.shows = s ]
      BY <2>2 DEF RemovePulses, RemoveAll
    <3>2. s \in [ Sources -> Views ]
      BY <1>3, NothingIsAView
    <3>3. s["pulses"] = NoSource /\ \A f \in Sources \ { "pulses" } : s[f] = m.shows[f]
      BY <1>2, <1>3
    <3> HIDE DEF x, s
    <3>4. /\ x \in Maps /\ x.frames = m.frames /\ x.shows = s
          /\ x.layers = m.layers \ { "pulses" } /\ x.hidden = m.hidden \ { "pulses" }
      BY <3>1, <3>2 DEF Maps
    <3> QED
      BY <2>2, <3>3, <3>4 DEF Same, Sound
  <2>3. CASE touched /\ ~off
    <3> DEFINE s == [ m.shows EXCEPT !["pulses"] = Seen("pulses", p) ]
    <3>1. x = [ m EXCEPT !.shows = s, !.layers = m.layers \cup { "pulses" },
                         !.hidden = m.hidden \ { "pulses" } ]
      BY <2>3 DEF EnsurePulses, AddLayer, SetData
    <3>2. s \in [ Sources -> Views ]
      BY <1>2, <1>3, SeenFacts
    <3>3. s["pulses"] = Seen("pulses", p)
          /\ \A f \in Sources \ { "pulses" } : s[f] = m.shows[f]
      BY <1>2, <1>3
    <3> HIDE DEF x, s
    <3>4. /\ x \in Maps /\ x.frames = m.frames /\ x.shows = s
          /\ x.layers = m.layers \cup { "pulses" } /\ x.hidden = m.hidden \ { "pulses" }
      BY <1>2, <3>1, <3>2 DEF Maps
    <3> QED
      BY <2>3, <3>3, <3>4 DEF Same, Sound
  <2> QED
    BY <2>1, <2>2, <2>3
<1> HIDE DEF x
<1>5. /\ n \in Maps /\ n.shows = x.shows /\ n.layers = x.layers /\ n.hidden = x.hidden
      /\ "breath" \in n.frames => ~off
  BY <1>4 DEF PulseFrames, Maps
<1> HIDE DEF n
<1>6. Sound(n)
  BY <1>2, <1>4, <1>5 DEF Sound, Has, Same, Common
<1>7. \A f \in Sources \ { "pulses" } : Same(f, m, n)
  BY <1>4, <1>5 DEF Same
<1>8. Kept("pulses", m, n, p, ch)
  BY <1>2, <1>4, <1>5 DEF Kept, PulsesNew, ToggleOf
<1> QED
  BY <1>1, <1>5, <1>6, <1>7, <1>8 DEF Keeps

-----------------------------------------------------------------------------
(* A render's effects, hook after hook, keep up every source.              *)
LEMMA EffectsKeep ==
  ASSUME NEW m \in Maps, Sound(m), NEW p \in PropSet, p.loaded, NEW ch,
         NEW z \in Effects(m, p, ch)
  PROVE  Keeps(Sources, m, z, p, ch)
<1> DEFINE site == { SiteLayers(x, p, ch) : x \in { m } }
           asset == { AssetLayers(x, p, ch) : x \in site }
           overlays == { Overlays(x, p, ch) : x \in asset }
           track == { TrackLayers(x, p, ch) : x \in overlays }
           signal == { SignalLayers(x, p, ch) : x \in track }
           ring == { RingLayers(x, p, ch) : x \in signal }
           sector == { SectorLayers(x, p, ch) : x \in ring }
           bearing == { BearingLayers(x, p, ch) : x \in sector }
           annotation == { AnnotationLayers(x, p, ch) : x \in bearing }
           measurement == { MeasurementLayers(x, p, ch) : x \in annotation }
           pulse == { PulseLayers(x, p, ch) : x \in measurement }
           halo == { HaloLayers(x, p, ch) : x \in pulse }
           toSite == { "sites", "siteRing", "siteEvidence", "siteLinked" }
           toAsset == toSite \cup { "assets", "assetRing", "assetLinked" }
           toOverlays == toAsset \cup
             { "areas", "geofences", "breaches", "coverage", "chokepoints" }
           toTrack == toOverlays \cup { "track", "trails" }
           toSignal == toTrack \cup { "signals", "heatmap", "signalEvidence" }
           toRing == toSignal \cup { "rings" }
           toSector == toRing \cup { "sector" }
           toBearing == toSector \cup { "bearing" }
           toAnnotation == toBearing \cup { "annotations" }
           toMeasurement == toAnnotation \cup { "measurement" }
           toPulse == toMeasurement \cup { "pulses" }
           toHalo == toPulse \cup { "halos" }
<1>0. /\ z \in halo
      /\ toHalo = Sources
  BY SourceFacts DEF Effects
<1>1. \A x \in site : Keeps(toSite, m, x, p, ch)
  BY CommonHooks
<1>2. ASSUME NEW x \in asset PROVE Keeps(toAsset, m, x, p, ch)
  <2>1. PICK y \in site : x = AssetLayers(y, p, ch)
    OBVIOUS
  <2> HIDE DEF site, asset
  <2>2. Keeps(toSite, m, y, p, ch)
    BY <1>1
  <2>3. Keeps({ "assets", "assetRing", "assetLinked" }, y, x, p, ch)
    BY <2>1, <2>2, CommonHooks DEF Keeps
  <2>4. /\ toSite \in SUBSET Sources
        /\ { "assets", "assetRing", "assetLinked" } \in SUBSET Sources
        /\ toSite \cap { "assets", "assetRing", "assetLinked" } = {}
    BY SourceFacts
  <2> HIDE DEF toSite
  <2> QED
    BY <2>2, <2>3, <2>4, KeepsBoth
<1>3. ASSUME NEW x \in overlays PROVE Keeps(toOverlays, m, x, p, ch)
  <2>1. PICK y \in asset : x = Overlays(y, p, ch)
    OBVIOUS
  <2> HIDE DEF asset, overlays
  <2>2. Keeps(toAsset, m, y, p, ch)
    BY <1>2
  <2>3. Keeps({ "areas", "geofences", "breaches", "coverage", "chokepoints" }, y, x, p, ch)
    BY <2>1, <2>2, OverlaysKeep DEF Keeps
  <2>4. /\ toAsset \in SUBSET Sources
        /\ { "areas", "geofences", "breaches", "coverage", "chokepoints" } \in SUBSET Sources
        /\ toAsset \cap { "areas", "geofences", "breaches", "coverage", "chokepoints" } = {}
    BY SourceFacts
  <2> HIDE DEF toAsset
  <2> QED
    BY <2>2, <2>3, <2>4, KeepsBoth
<1>4. ASSUME NEW x \in track PROVE Keeps(toTrack, m, x, p, ch)
  <2>1. PICK y \in overlays : x = TrackLayers(y, p, ch)
    OBVIOUS
  <2> HIDE DEF overlays, track
  <2>2. Keeps(toOverlays, m, y, p, ch)
    BY <1>3
  <2>3. Keeps({ "track", "trails" }, y, x, p, ch)
    BY <2>1, <2>2, TrackKeeps DEF Keeps
  <2>4. /\ toOverlays \in SUBSET Sources
        /\ { "track", "trails" } \in SUBSET Sources
        /\ toOverlays \cap { "track", "trails" } = {}
    BY SourceFacts
  <2> HIDE DEF toOverlays
  <2> QED
    BY <2>2, <2>3, <2>4, KeepsBoth
<1>5. ASSUME NEW x \in signal PROVE Keeps(toSignal, m, x, p, ch)
  <2>1. PICK y \in track : x = SignalLayers(y, p, ch)
    OBVIOUS
  <2> HIDE DEF track, signal
  <2>2. Keeps(toTrack, m, y, p, ch)
    BY <1>4
  <2>3. Keeps({ "signals", "heatmap", "signalEvidence" }, y, x, p, ch)
    BY <2>1, <2>2, SignalsKeep DEF Keeps
  <2>4. /\ toTrack \in SUBSET Sources
        /\ { "signals", "heatmap", "signalEvidence" } \in SUBSET Sources
        /\ toTrack \cap { "signals", "heatmap", "signalEvidence" } = {}
    BY SourceFacts
  <2> HIDE DEF toTrack
  <2> QED
    BY <2>2, <2>3, <2>4, KeepsBoth
<1>6. ASSUME NEW x \in ring PROVE Keeps(toRing, m, x, p, ch)
  <2>1. PICK y \in signal : x = RingLayers(y, p, ch)
    OBVIOUS
  <2> HIDE DEF signal, ring
  <2>2. Keeps(toSignal, m, y, p, ch)
    BY <1>5
  <2>3. Keeps({ "rings" }, y, x, p, ch)
    BY <2>1, <2>2, CommonHooks DEF Keeps
  <2>4. /\ toSignal \in SUBSET Sources
        /\ { "rings" } \in SUBSET Sources
        /\ toSignal \cap { "rings" } = {}
    BY SourceFacts
  <2> HIDE DEF toSignal
  <2> QED
    BY <2>2, <2>3, <2>4, KeepsBoth
<1>7. ASSUME NEW x \in sector PROVE Keeps(toSector, m, x, p, ch)
  <2>1. PICK y \in ring : x = SectorLayers(y, p, ch)
    OBVIOUS
  <2> HIDE DEF ring, sector
  <2>2. Keeps(toRing, m, y, p, ch)
    BY <1>6
  <2>3. Keeps({ "sector" }, y, x, p, ch)
    BY <2>1, <2>2, CommonHooks DEF Keeps
  <2>4. /\ toRing \in SUBSET Sources
        /\ { "sector" } \in SUBSET Sources
        /\ toRing \cap { "sector" } = {}
    BY SourceFacts
  <2> HIDE DEF toRing
  <2> QED
    BY <2>2, <2>3, <2>4, KeepsBoth
<1>8. ASSUME NEW x \in bearing PROVE Keeps(toBearing, m, x, p, ch)
  <2>1. PICK y \in sector : x = BearingLayers(y, p, ch)
    OBVIOUS
  <2> HIDE DEF sector, bearing
  <2>2. Keeps(toSector, m, y, p, ch)
    BY <1>7
  <2>3. Keeps({ "bearing" }, y, x, p, ch)
    BY <2>1, <2>2, CommonHooks DEF Keeps
  <2>4. /\ toSector \in SUBSET Sources
        /\ { "bearing" } \in SUBSET Sources
        /\ toSector \cap { "bearing" } = {}
    BY SourceFacts
  <2> HIDE DEF toSector
  <2> QED
    BY <2>2, <2>3, <2>4, KeepsBoth
<1>9. ASSUME NEW x \in annotation PROVE Keeps(toAnnotation, m, x, p, ch)
  <2>1. PICK y \in bearing : x = AnnotationLayers(y, p, ch)
    OBVIOUS
  <2> HIDE DEF bearing, annotation
  <2>2. Keeps(toBearing, m, y, p, ch)
    BY <1>8
  <2>3. Keeps({ "annotations" }, y, x, p, ch)
    BY <2>1, <2>2, CommonHooks DEF Keeps
  <2>4. /\ toBearing \in SUBSET Sources
        /\ { "annotations" } \in SUBSET Sources
        /\ toBearing \cap { "annotations" } = {}
    BY SourceFacts
  <2> HIDE DEF toBearing
  <2> QED
    BY <2>2, <2>3, <2>4, KeepsBoth
<1>10. ASSUME NEW x \in measurement PROVE Keeps(toMeasurement, m, x, p, ch)
  <2>1. PICK y \in annotation : x = MeasurementLayers(y, p, ch)
    OBVIOUS
  <2> HIDE DEF annotation, measurement
  <2>2. Keeps(toAnnotation, m, y, p, ch)
    BY <1>9
  <2>3. Keeps({ "measurement" }, y, x, p, ch)
    BY <2>1, <2>2, CommonHooks DEF Keeps
  <2>4. /\ toAnnotation \in SUBSET Sources
        /\ { "measurement" } \in SUBSET Sources
        /\ toAnnotation \cap { "measurement" } = {}
    BY SourceFacts
  <2> HIDE DEF toAnnotation
  <2> QED
    BY <2>2, <2>3, <2>4, KeepsBoth
<1>11. ASSUME NEW x \in pulse PROVE Keeps(toPulse, m, x, p, ch)
  <2>1. PICK y \in measurement : x = PulseLayers(y, p, ch)
    OBVIOUS
  <2> HIDE DEF measurement, pulse
  <2>2. Keeps(toMeasurement, m, y, p, ch)
    BY <1>10
  <2>3. Keeps({ "pulses" }, y, x, p, ch)
    BY <2>1, <2>2, PulsesKeep DEF Keeps
  <2>4. /\ toMeasurement \in SUBSET Sources
        /\ { "pulses" } \in SUBSET Sources
        /\ toMeasurement \cap { "pulses" } = {}
    BY SourceFacts
  <2> HIDE DEF toMeasurement
  <2> QED
    BY <2>2, <2>3, <2>4, KeepsBoth
<1>12. ASSUME NEW x \in halo PROVE Keeps(toHalo, m, x, p, ch)
  <2>1. PICK y \in pulse : x = HaloLayers(y, p, ch)
    OBVIOUS
  <2> HIDE DEF pulse, halo
  <2>2. Keeps(toPulse, m, y, p, ch)
    BY <1>11
  <2>3. Keeps({ "halos" }, y, x, p, ch)
    BY <2>1, <2>2, CommonHooks DEF Keeps
  <2>4. /\ toPulse \in SUBSET Sources
        /\ { "halos" } \in SUBSET Sources
        /\ toPulse \cap { "halos" } = {}
    BY SourceFacts
  <2> HIDE DEF toPulse
  <2> QED
    BY <2>2, <2>3, <2>4, KeepsBoth
<1> QED
  BY <1>0, <1>12

-----------------------------------------------------------------------------
(* Without a loaded map a render only ends the frames.                     *)
LEMMA QuietRender ==
  ASSUME MapInv, NEW p \in PropSet, ~p.loaded, NEW ch, NEW failed \in BOOLEAN,
         Render(gl, p, ch, failed), Props' = p
  PROVE  /\ gl' \in Maps /\ Sound(gl') /\ error' \in BOOLEAN
         /\ ShownIsCurrent' /\ HiddenStaysHidden'
<1>1. PICK z \in Effects(gl, p, ch) :
        gl' = [ z EXCEPT !.raised = FALSE ] /\ error' = (failed \/ z.raised)
  BY DEF Render
<1>2. gl \in Maps /\ Sound(gl)
  BY DEF MapInv
<1>3. ~loaded'
  BY DEF Props
<1>4. z = [ gl EXCEPT !.frames = {} ]
  BY DEF Effects
<1>5. z \in Maps /\ z.hidden = gl.hidden /\ z.layers = gl.layers /\ z.shows = gl.shows
  BY <1>2, <1>4 DEF Maps
<1>6. gl' \in Maps /\ gl'.hidden = z.hidden /\ gl'.layers = z.layers /\ gl'.shows = z.shows
  BY <1>1, <1>5 DEF Maps
<1>7. z.raised \in BOOLEAN
  BY <1>5 DEF Maps
<1>8. error' \in BOOLEAN
  BY <1>1, <1>7
<1>9. Sound(gl')
  BY <1>2, <1>5, <1>6 DEF Sound, Has
<1> QED
  BY <1>3, <1>6, <1>8, <1>9 DEF ShownIsCurrent, HiddenStaysHidden

(* A render that is told of everything that changed shows what the page    *)
(* now is, and keeps off what is off.                                      *)
LEMMA RenderKeeps ==
  ASSUME MapInv, NEW p \in PropSet, NEW ch, NEW failed \in BOOLEAN,
         Render(gl, p, ch, failed), Props' = p,
         "loaded" \in ch \/ /\ loaded
                            /\ \A i \in Inputs \ ch : p.data[i] = data[i]
                            /\ \A t \in Toggles \ ch : t \in p.on <=> t \in on
  PROVE  /\ gl' \in Maps /\ Sound(gl') /\ error' \in BOOLEAN
         /\ ShownIsCurrent' /\ HiddenStaysHidden'
<1>1. PICK z \in Effects(gl, p, ch) :
        gl' = [ z EXCEPT !.raised = FALSE ] /\ error' = (failed \/ z.raised)
  BY DEF Render
<1>2. gl \in Maps /\ Sound(gl)
  BY DEF MapInv
<1>3. loaded' = p.loaded /\ data' = p.data /\ on' = p.on
  BY DEF Props
<1>4. CASE ~p.loaded
  BY <1>4, QuietRender
<1>5. CASE p.loaded
  <2>1. Keeps(Sources, gl, z, p, ch)
    BY <1>2, <1>5, EffectsKeep
  <2>2. z \in Maps /\ Sound(z) /\ (\A f \in Sources : Kept(f, gl, z, p, ch))
        /\ ("breath" \in z.frames => "show pulses" \in p.on)
    BY <2>1, SourceFacts DEF Keeps
  <2>3. /\ gl' \in Maps /\ gl'.hidden = z.hidden /\ gl'.layers = z.layers
        /\ gl'.shows = z.shows /\ gl'.frames = z.frames
    BY <1>1, <2>2 DEF Maps
  <2>4. z.raised \in BOOLEAN
    BY <2>2 DEF Maps
  <2>5. error' \in BOOLEAN
    BY <1>1, <2>4
  <2>6. Sound(gl')
    BY <2>2, <2>3 DEF Sound, Has
  <2>7. \A f \in Sources : Seen(f, Props)' = Seen(f, p)
    BY DEF Seen
  <2>8. ASSUME NEW f \in Sources, ~Touched(ch, Depends[f])
        PROVE  loaded /\ Seen(f, p) = Seen(f, Props)
    <3>1. "loaded" \notin ch /\ Depends[f] \cap ch = {} /\ Depends[f] \subseteq Inputs
      BY <2>8, SourceFacts DEF Touched
    <3>2. \A i \in Depends[f] : p.data[i] = Props.data[i]
      BY <3>1 DEF Props
    <3> QED
      BY <3>1, <3>2 DEF Seen
  <2>9. ASSUME NEW f \in Common PROVE gl'.shows[f] = Seen(f, p)
    <3>1. f \in Sources /\ ShowsNew(f, gl, z, p, ch)
      BY <2>2, <2>9 DEF Kept, Common
    <3>2. CASE Touched(ch, Depends[f])
      BY <3>1, <3>2, <2>3 DEF ShowsNew
    <3>3. CASE ~Touched(ch, Depends[f])
      <4>1. loaded /\ Seen(f, p) = Seen(f, Props)
        BY <3>1, <3>3, <2>8
      <4>2. gl.shows[f] = Seen(f, Props)
        BY <4>1 DEF MapInv, ShownIsCurrent, Common
      <4> QED
        BY <3>1, <3>3, <4>1, <4>2, <2>3 DEF ShowsNew
    <3> QED
      BY <3>2, <3>3
  <2>10. "pulses" \in Sources /\ Depends["pulses"] = { "pulses" } /\ "show pulses" \in Toggles
    BY DEF Sources, Depends, Toggles
  <2>11. gl'.shows["pulses"] = IF "show pulses" \in p.on THEN Seen("pulses", p) ELSE NoSource
    <3>1. PulsesNew(gl, z, p, ch)
      BY <2>2, <2>10 DEF Kept
    <3>2. CASE Touched(ch, { "pulses", "show pulses" })
      BY <3>1, <3>2, <2>3 DEF PulsesNew
    <3>3. CASE ~Touched(ch, { "pulses", "show pulses" })
      <4>1. ~Touched(ch, Depends["pulses"]) /\ "show pulses" \notin ch /\ "loaded" \notin ch
        BY <3>3, <2>10 DEF Touched
      <4>2. loaded /\ Seen("pulses", p) = Seen("pulses", Props)
        BY <4>1, <2>8, <2>10
      <4>3. "show pulses" \in p.on <=> "show pulses" \in on
        BY <4>1, <2>10
      <4>4. gl.shows["pulses"] =
              IF "show pulses" \in on THEN Seen("pulses", Props) ELSE NoSource
        BY <4>2 DEF MapInv, ShownIsCurrent, HiddenStaysHidden, Has
      <4>5. gl'.shows["pulses"] = gl.shows["pulses"]
        BY <3>1, <3>3, <2>3 DEF PulsesNew
      <4> QED
        BY <4>2, <4>3, <4>4, <4>5
    <3> QED
      BY <3>2, <3>3
  <2>12. ShownIsCurrent'
    BY <1>3, <2>7, <2>9, <2>10, <2>11 DEF ShownIsCurrent, Common
  <2>13. ASSUME NEW f \in Common, NEW ts \in SUBSET Toggles, HidesOff(f, gl, z, p, ch, ts),
                loaded /\ ~(ts \subseteq on) => f \in gl.hidden, ~(ts \subseteq on')
         PROVE  f \in gl'.hidden
    <3>1. f \in Sources
      BY <2>13 DEF Common
    <3>2. CASE Touched(ch, ts)
      <4>1. Has(z, f)
        BY <3>1, <2>3, <2>9, SeenFacts DEF Has
      <4> QED
        BY <3>2, <4>1, <2>3, <2>13, <1>3 DEF HidesOff
    <3>3. CASE ~Touched(ch, ts)
      <4>1. "loaded" \notin ch /\ ts \cap ch = {}
        BY <3>3 DEF Touched
      <4>2. loaded /\ ~(ts \subseteq on)
        BY <4>1, <2>13, <1>3
      <4>3. gl.shows[f] = Seen(f, Props)
        BY <4>2, <2>13 DEF MapInv, ShownIsCurrent, Common
      <4>4. Props \in PropSet
        BY DEF MapInv, Props, PropSet
      <4>5. Has(gl, f)
        BY <3>1, <4>3, <4>4, SeenFacts DEF Has
      <4> QED
        BY <3>3, <4>2, <4>5, <2>3, <2>13 DEF HidesOff
    <3> QED
      BY <3>2, <3>3
  <2>14. HiddenStaysHidden'
    <3>1. ASSUME NEW f \in DOMAIN ToggleOf, ToggleOf[f] \notin on' PROVE f \in gl'.hidden
      <4>1. f \in Common /\ { ToggleOf[f] } \in SUBSET Toggles
        <5>1. f \in { "signals", "coverage", "chokepoints" }
          BY <3>1, SourceFacts
        <5>2. f \in Common
          BY <5>1, SourceFacts DEF Common, Optional
        <5>3. ToggleOf[f] \in Toggles
          <6>1. /\ ToggleOf["signals"] = "show signals"
                /\ ToggleOf["coverage"] = "show coverage"
                /\ ToggleOf["chokepoints"] = "show chokepoints"
            BY DEF ToggleOf
          <6> QED
            BY <5>1, <6>1 DEF Toggles
        <5> QED
          BY <5>2, <5>3
      <4>2. HidesOff(f, gl, z, p, ch, { ToggleOf[f] })
        BY <4>1, <2>2 DEF Kept, Common
      <4>3. loaded /\ ~({ ToggleOf[f] } \subseteq on) => f \in gl.hidden
        BY DEF MapInv, HiddenStaysHidden
      <4> QED
        BY <3>1, <4>1, <4>2, <4>3, <2>13
    <3>2. ASSUME ~({ "show signals", "show heatmap" } \subseteq on')
          PROVE  "heatmap" \in gl'.hidden
      <4>1. "heatmap" \in Common /\ { "show signals", "show heatmap" } \in SUBSET Toggles
        BY SourceFacts DEF Toggles, Common, Optional
      <4>2. HidesOff("heatmap", gl, z, p, ch, { "show signals", "show heatmap" })
        BY <4>1, <2>2 DEF Kept, Common
      <4>3. loaded /\ ~({ "show signals", "show heatmap" } \subseteq on)
              => "heatmap" \in gl.hidden
        BY DEF MapInv, HiddenStaysHidden
      <4> QED
        BY <3>2, <4>1, <4>2, <4>3, <2>13
    <3>3. "show pulses" \notin on' => ~Has(gl', "pulses") /\ "breath" \notin gl'.frames
      BY <1>3, <2>2, <2>3, <2>11 DEF Has
    <3> QED
      BY <3>1, <3>2, <3>3 DEF HiddenStaysHidden, Has, ToggleOf
  <2> QED
    BY <2>3, <2>5, <2>6, <2>12, <2>14
<1> QED
  BY <1>4, <1>5

-----------------------------------------------------------------------------
(* A map without a source.                                                 *)
LEMMA BareFacts == Bare \in Maps /\ Sound(Bare)
<1>1. [ f \in Sources |-> NoSource ] \in [ Sources -> Views ]
  BY NothingIsAView
<1>2. Bare \in Maps
  BY <1>1 DEF Bare, Maps
<1>3. \A f \in Sources : ~Has(Bare, f)
  BY DEF Bare, Has
<1> QED
  BY <1>2, <1>3 DEF Bare, Sound, Common

(* A page opens with no map at all.                                        *)
LEMMA InitInvariant == Init => MapInv
<1> SUFFICES ASSUME Init PROVE MapInv
  OBVIOUS
<1>1. Default \in SUBSET Toggles /\ 0 \in 0..MaxFaults
  <2>1. Default \in SUBSET Toggles
    BY DEF Default
  <2>2. 0 \in 0..MaxFaults
    BY EngineAssumption, SMT
  <2> QED
    BY <2>1, <2>2
<1>2. ShownIsCurrent /\ HiddenStaysHidden
  BY DEF Init, ShownIsCurrent, HiddenStaysHidden
<1>3. data \in [ Inputs -> 0..1 ]
  BY DEF Init
<1>4. style \in Styles /\ gl = Bare /\ on = Default /\ faults = 0
  BY EngineAssumption DEF Init
<1> QED
  BY <1>1, <1>2, <1>3, <1>4, BareFacts DEF Init, MapInv

(* The promises are kept by a step that leaves what they speak of.         *)
LEMMA PromisesKept ==
  ASSUME MapInv, ~loaded' \/ (loaded' = loaded /\ UNCHANGED << data, on, gl >>)
  PROVE  ShownIsCurrent' /\ HiddenStaysHidden'
<1>1. CASE ~loaded'
  BY <1>1 DEF ShownIsCurrent, HiddenStaysHidden
<1>2. CASE loaded' = loaded /\ UNCHANGED << data, on, gl >>
  <2>1. \A f : Seen(f, Props)' = Seen(f, Props)
    BY <1>2 DEF Seen, Props
  <2>2. ShownIsCurrent'
    BY <1>2, <2>1 DEF MapInv, ShownIsCurrent
  <2>3. HiddenStaysHidden'
    BY <1>2 DEF MapInv, HiddenStaysHidden, Has
  <2> QED
    BY <2>2, <2>3
<1> QED
  BY <1>1, <1>2

(* The first render of a loaded map runs every effect.                     *)
LEMMA SetLoadedKeeps ==
  ASSUME MapInv, SetLoaded, UNCHANGED << data, on >>
  PROVE  /\ gl' \in Maps /\ Sound(gl') /\ error' \in BOOLEAN /\ loaded' \in BOOLEAN
         /\ ShownIsCurrent' /\ HiddenStaysHidden'
<1>1. CASE loaded
  <2>1. UNCHANGED << loaded, gl, error >>
    BY <1>1 DEF SetLoaded
  <2> QED
    BY <2>1, PromisesKept DEF MapInv, Sound, Has
<1>2. CASE ~loaded
  <2>1. loaded' = TRUE /\ Render(gl, LoadedNow, { "loaded" }, error)
    BY <1>2 DEF SetLoaded
  <2>2. LoadedNow = [ loaded |-> TRUE, data |-> data, on |-> on ]
    <3> DEFINE yes == TRUE
    <3>1. LoadedNow = [ Props EXCEPT !.loaded = yes ]
      BY DEF LoadedNow
    <3> HIDE DEF yes
    <3>2. LoadedNow = [ loaded |-> yes, data |-> data, on |-> on ]
      BY <3>1 DEF Props
    <3> QED
      BY <3>2 DEF yes
  <2>3. LoadedNow \in PropSet
    BY <2>2 DEF MapInv, PropSet
  <2>4. Props' = LoadedNow
    BY <2>1, <2>2 DEF Props
  <2>5. error \in BOOLEAN
    BY DEF MapInv
  <2> QED
    BY <2>1, <2>3, <2>4, <2>5, RenderKeeps
<1> QED
  BY <1>1, <1>2

(* A change of data, and a flip, is rendered with what it changed.         *)
LEMMA DataStep ==
  ASSUME MapInv, NEW i \in Inputs, ChangeData(i)
  PROVE  MapInv'
<1> DEFINE new == [ data EXCEPT ![i] = 1 - @ ]
           p == [ Props EXCEPT !.data = new ]
<1>1. /\ data' = new /\ Render(gl, p, { i }, error)
      /\ UNCHANGED << open, runtime, waiting, map, firstLoad, onStyle, style, applied,
                      loaded, on, fatal, faults >>
  BY DEF ChangeData
<1>2. data \in [ Inputs -> 0..1 ] /\ on \in SUBSET Toggles /\ loaded \in BOOLEAN
      /\ error \in BOOLEAN
  BY DEF MapInv
<1>3. new \in [ Inputs -> 0..1 ] /\ \A j \in Inputs \ { i } : new[j] = data[j]
  BY <1>2
<1> HIDE DEF new
<1>4. p = [ loaded |-> loaded, data |-> new, on |-> on ]
  BY DEF Props
<1>5. p \in PropSet /\ p.data = new /\ p.on = on /\ p.loaded = loaded
  BY <1>2, <1>3, <1>4 DEF PropSet
<1>6. Props' = p
  BY <1>1, <1>4 DEF Props
<1> HIDE DEF p
<1>7. /\ gl' \in Maps /\ Sound(gl') /\ error' \in BOOLEAN
      /\ ShownIsCurrent' /\ HiddenStaysHidden'
  <2>1. CASE loaded
    BY <2>1, <1>1, <1>2, <1>3, <1>5, <1>6, RenderKeeps
  <2>2. CASE ~loaded
    BY <2>2, <1>1, <1>2, <1>5, <1>6, QuietRender
  <2> QED
    BY <2>1, <2>2
<1> QED
  BY <1>1, <1>3, <1>7 DEF MapInv

(* So is a flip, which no source is computed from.                         *)
LEMMA ToggleStep ==
  ASSUME MapInv, NEW t \in Toggles, FlipToggle(t)
  PROVE  MapInv'
<1> DEFINE new == IF t \in on THEN on \ { t } ELSE on \cup { t }
           p == [ Props EXCEPT !.on = new ]
<1>1. /\ on' = new /\ Render(gl, p, { t }, error)
      /\ UNCHANGED << open, runtime, waiting, map, firstLoad, onStyle, style, applied,
                      loaded, data, fatal, faults >>
  BY DEF FlipToggle
<1>2. data \in [ Inputs -> 0..1 ] /\ on \in SUBSET Toggles /\ loaded \in BOOLEAN
      /\ error \in BOOLEAN
  BY DEF MapInv
<1>3. new \in SUBSET Toggles /\ \A u \in Toggles \ { t } : u \in new <=> u \in on
  BY <1>2
<1> HIDE DEF new
<1>4. p = [ loaded |-> loaded, data |-> data, on |-> new ]
  BY DEF Props
<1>5. p \in PropSet /\ p.data = data /\ p.on = new /\ p.loaded = loaded
  BY <1>2, <1>3, <1>4 DEF PropSet
<1>6. Props' = p
  BY <1>1, <1>4 DEF Props
<1> HIDE DEF p
<1>7. /\ gl' \in Maps /\ Sound(gl') /\ error' \in BOOLEAN
      /\ ShownIsCurrent' /\ HiddenStaysHidden'
  <2>1. CASE loaded
    BY <2>1, <1>1, <1>2, <1>3, <1>5, <1>6, RenderKeeps
  <2>2. CASE ~loaded
    BY <2>2, <1>1, <1>2, <1>5, <1>6, QuietRender
  <2> QED
    BY <2>1, <2>2
<1> QED
  BY <1>1, <1>3, <1>7 DEF MapInv

(* Every step of the engine keeps the invariant.                           *)
LEMMA StepInvariant == MapInv /\ [Next]_vars => MapInv'
<1> SUFFICES ASSUME MapInv, [Next]_vars PROVE MapInv'
  OBVIOUS
<1> DEFINE Rest == /\ open' \in BOOLEAN /\ waiting' \in BOOLEAN
                   /\ runtime' \in { "absent", "importing", "present" }
                   /\ map' \in { "none", "styling", "ready", "broken" }
                   /\ firstLoad' \in BOOLEAN /\ onStyle' \in BOOLEAN
                   /\ style' \in Styles /\ applied' \in Styles \cup { "none" }
                   /\ fatal' \in BOOLEAN /\ faults' \in 0..MaxFaults
           Shown == /\ loaded' \in BOOLEAN /\ error' \in BOOLEAN
                    /\ data' \in [ Inputs -> 0..1 ] /\ on' \in SUBSET Toggles
                    /\ gl' \in Maps /\ Sound(gl')
                    /\ ShownIsCurrent' /\ HiddenStaysHidden'
<1>1. Rest /\ Shown => MapInv'
  BY DEF MapInv
<1>2. Fault => faults' \in 0..MaxFaults
  BY EngineAssumption DEF Fault, MapInv
<1>3. UNCHANGED << loaded, error, data, on, gl >> => Shown
  BY PromisesKept DEF MapInv, Sound, Has
<1>4. error' \in BOOLEAN /\ UNCHANGED << loaded, data, on, gl >> => Shown
  BY PromisesKept DEF MapInv, Sound, Has
<1>5. gl' = Bare /\ loaded' = FALSE /\ error' \in BOOLEAN /\ data' \in [ Inputs -> 0..1 ]
      /\ on' \in SUBSET Toggles => Shown
  <2>1. ~loaded' => ShownIsCurrent' /\ HiddenStaysHidden'
    BY DEF ShownIsCurrent, HiddenStaysHidden
  <2>2. gl' = Bare => gl' \in Maps /\ Sound(gl')
    BY BareFacts
  <2> QED
    BY <2>1, <2>2
<1>6. CASE Open
  BY <1>1, <1>3, <1>6 DEF Open, Imported, MapInv
<1>7. CASE Close
  <2>1. data' \in [ Inputs -> 0..1 ]
    BY <1>7 DEF Close
  <2>2. on' \in SUBSET Toggles
    BY <1>7 DEF Close, Default
  <2> QED
    BY <1>1, <1>5, <1>7, <2>1, <2>2, EngineAssumption DEF Close, MapInv
<1>8. CASE Preload
  BY <1>1, <1>3, <1>8 DEF Preload, MapInv
<1>9. CASE Retry
  BY <1>1, <1>5, <1>9 DEF Retry, Imported, MapInv
<1>10. CASE ImportArrives
  BY <1>1, <1>3, <1>10 DEF ImportArrives, MapInv
<1>11. CASE ImportFails
  <2>1. error' \in BOOLEAN /\ fatal' \in BOOLEAN
    BY <1>11 DEF ImportFails, MapInv
  <2> QED
    BY <1>1, <1>2, <1>4, <1>11, <2>1 DEF ImportFails, MapInv
<1>12. CASE Construct
  BY <1>1, <1>3, <1>12 DEF Construct, MapInv
<1>13. CASE ConstructFails
  BY <1>1, <1>2, <1>4, <1>13 DEF ConstructFails, MapInv
<1>14. CASE StyleArrives
  <2>1. Rest /\ UNCHANGED << data, on >>
    BY <1>14 DEF StyleArrives, MapInv
  <2>2. SetLoaded \/ UNCHANGED << loaded, gl, error >>
    BY <1>14 DEF StyleArrives
  <2> QED
    BY <1>1, <1>3, <2>1, <2>2, SetLoadedKeeps DEF MapInv
<1>15. CASE FirstLoad
  <2>1. Rest /\ UNCHANGED << data, on >> /\ SetLoaded
    BY <1>15 DEF FirstLoad, MapInv
  <2> QED
    BY <1>1, <2>1, SetLoadedKeeps DEF MapInv
<1>16. CASE StyleFails
  BY <1>1, <1>2, <1>4, <1>16 DEF StyleFails, MapInv
<1>17. CASE TileFails
  <2>1. fatal' \in BOOLEAN
    BY <1>17 DEF TileFails, MapInv
  <2> QED
    BY <1>1, <1>2, <1>4, <1>17, <2>1 DEF TileFails, MapInv
<1>18. ASSUME NEW s \in Styles, ChangeStyle(s) PROVE MapInv'
  <2>1. CASE map = "none" \/ applied = s
    BY <1>1, <1>3, <1>18, <2>1 DEF ChangeStyle, MapInv
  <2>2. CASE ~(map = "none" \/ applied = s)
    BY <1>1, <1>5, <1>18, <2>2 DEF ChangeStyle, MapInv
  <2> QED
    BY <2>1, <2>2
<1>19. ASSUME NEW i \in Watched, ChangeData(i) PROVE MapInv'
  BY <1>19, DataStep, EngineAssumption
<1>20. ASSUME NEW t \in Switched, FlipToggle(t) PROVE MapInv'
  BY <1>20, ToggleStep, EngineAssumption
<1>21. CASE UNCHANGED vars
  BY <1>1, <1>3, <1>21 DEF vars, MapInv
<1> QED
  BY <1>6, <1>7, <1>8, <1>9, <1>10, <1>11, <1>12, <1>13, <1>14, <1>15, <1>16, <1>17,
     <1>18, <1>19, <1>20, <1>21 DEF Next

(* The inductive invariant holds of every behaviour (useMapLibreEngine.ts  *)
(* and the hooks of hooks/map).                                            *)
THEOREM Invariance == Spec => []MapInv
BY InitInvariant, StepInvariant, PTL DEF Spec

(* The type invariant of the engine, its map included.                     *)
THEOREM Typing == Spec => []TypeOK
<1>1. MapInv => TypeOK
  BY DEF MapInv, TypeOK, Maps, Sound
<1> QED
  BY <1>1, Invariance, PTL

(* Whatever changed while a style was loading, an import was pending or a  *)
(* retry under way, a loaded map shows the page's last data in every       *)
(* source (the effects of hooks/map and their dependency arrays).          *)
THEOREM WhatIsShownIsCurrent == Spec => []ShownIsCurrent
<1>1. MapInv => ShownIsCurrent
  BY DEF MapInv
<1> QED
  BY <1>1, Invariance, PTL

(* No effect brings back a layer that the operator switched off, although  *)
(* each effect only runs when an input of its own changes                  *)
(* (useMapSignalLayers.ts, useMapOverlays.ts, useMapReplayPulseLayers.ts). *)
THEOREM WhatIsOffStaysOff == Spec => []HiddenStaysHidden
<1>1. MapInv => HiddenStaysHidden
  BY DEF MapInv
<1> QED
  BY <1>1, Invariance, PTL
=============================================================================
