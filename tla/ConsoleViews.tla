----------------------------- MODULE ConsoleViews -----------------------------
(***************************************************************************)
(* The views of the console, one of which an operator works in: each keeps *)
(* its own state in "page" while it is mounted, and they share none.  What *)
(* they share with the rest of the console, the session and the cache of   *)
(* the server's answers, is in ConsoleSession and ConsoleCache.            *)
(***************************************************************************)
EXTENDS Naturals

CONSTANTS
  Sites, Assets, Signals, MaxLinks, MaxUpdates,   \* EntitySelection
  Watched, MaxFaults, GlobeUpdates,               \* GlobeEngine
  Limit, MaxSignals, MaxVisits,                   \* LiveFeed
  MaxAlerts, MaxRequests, MaxMoves,               \* AlertTriage
  Rules, MaxEdits, MaxColleague,                  \* RuleEditor
  BoardRequests,                                  \* PlanningBoard
  MaxClicks,                                      \* MapTools
  Lengths, MaxTyped,                              \* MapLengths
  MaxItems, MaxAsks, PageSize, Mains,             \* FilteredLists
  Queries, MaxShown,                              \* CommandPalette
  DebriefVisits, DebriefClicks,                   \* DebriefReplay
  MaxEvents, Spans, PageLimit,                    \* AuditTimeline
  MaxBriefings, MaxExports                        \* BriefingPanel

VARIABLES view, page

vars == <<view, page>>

Selection == INSTANCE EntitySelection
Globe     == INSTANCE GlobeEngine WITH MaxUpdates <- GlobeUpdates
Feed      == INSTANCE LiveFeed
Triage    == INSTANCE AlertTriage
Editor    == INSTANCE RuleEditor
Board     == INSTANCE PlanningBoard WITH MaxRequests <- BoardRequests
Tools     == INSTANCE MapTools
Measures  == INSTANCE MapLengths
Lists     == INSTANCE FilteredLists
Palette   == INSTANCE CommandPalette
Debrief   == INSTANCE DebriefReplay WITH MaxVisits <- DebriefVisits, MaxClicks <- DebriefClicks
Timeline  == INSTANCE AuditTimeline
Briefing  == INSTANCE BriefingPanel

ASSUME ViewsAssumption ==
  /\ Selection!SelectionAssumption /\ Globe!GlobeAssumption /\ Feed!FeedAssumption
  /\ Triage!TriageAssumption /\ Editor!RulesAssumption
  /\ Debrief!DebriefAssumption /\ Timeline!TimelineAssumption /\ Palette!PaletteAssumption
  /\ Lists!ListsAssumption /\ Measures!LengthsAssumption

Init ==
  \/ view = "selection" /\ Selection!Init
  \/ view = "globe"     /\ Globe!Init
  \/ view = "feed"      /\ Feed!Init
  \/ view = "triage"    /\ Triage!Init
  \/ view = "editor"    /\ Editor!Init
  \/ view = "board"     /\ Board!Init
  \/ view = "tools"     /\ Tools!Init
  \/ view = "measures"  /\ Measures!Init
  \/ view = "lists"     /\ Lists!Init
  \/ view = "palette"   /\ Palette!Init
  \/ view = "debrief"   /\ Debrief!Init
  \/ view = "timeline"  /\ Timeline!Init
  \/ view = "briefing"  /\ Briefing!Init

Step ==
  \/ view = "selection" /\ Selection!Step
  \/ view = "globe"     /\ Globe!Step
  \/ view = "feed"      /\ Feed!Step
  \/ view = "triage"    /\ Triage!Step
  \/ view = "editor"    /\ Editor!Step
  \/ view = "board"     /\ Board!Step
  \/ view = "tools"     /\ Tools!Step
  \/ view = "measures"  /\ Measures!Step
  \/ view = "lists"     /\ Lists!Step
  \/ view = "palette"   /\ Palette!Step
  \/ view = "debrief"   /\ Debrief!Step
  \/ view = "timeline"  /\ Timeline!Step
  \/ view = "briefing"  /\ Briefing!Step

Next == Step /\ UNCHANGED view

Progress == view = "feed" /\ Feed!Progress /\ UNCHANGED view

Spec     == Init /\ [][Next]_vars
FairSpec == Spec /\ WF_vars(Progress)
-----------------------------------------------------------------------------
(* However the address of the map and the globe comes to name an entity,   *)
(* and whatever arrives or is switched meanwhile, once the effects have    *)
(* run the entity is selected, if it is there and shown, and on the map    *)
(* nothing beside it.                                                      *)
AddressIsFollowed == view = "selection" => Selection!AddressIsFollowed

(* Whatever order data, toggles, selection and camera change in, once the  *)
(* effects have run the globe holds what the data holds, shown as the      *)
(* toggles say, but for the two layers GlobeEngine names.                  *)
GlobeIsCurrent == view = "globe" => Globe!GlobeIsCurrent

(* On the first visit, whatever broke while it connected, an open stream   *)
(* and an answered snapshot leave no signal out of the feed.               *)
FeedIsComplete == view = "feed" => Feed!FeedIsComplete

(* A page that stays on the live feed gets a snapshot to start from.       *)
FeedStarts ==
  view = "feed" /\ Feed!Started ~> view = "feed" /\ Feed!StartedOrLeft

(* A bulk action names only alerts that have been on the operator's list.  *)
CheckedWereListed == view = "triage" => Triage!CheckedWereListed

(* What the operator is asked to close is what the answer closes.          *)
AskedIsSent ==
  [][ view = "triage" /\ page.confirming /\ page'.confirming
        => page'.checked = page.checked ]_page

(* Until it is touched, an open form holds the rule as it was listed, the  *)
(* template or the defaults: nothing abandoned or late comes back.         *)
FormStartsClean == view = "editor" => Editor!FormStartsClean

(* What an area of operation holds was never written for another.          *)
SavedWhereWritten == view = "board" => Board!SavedWhereWritten

(* A second save never makes a second chokepoint of one that was saved.    *)
SavedStaysSelected == view = "board" => Board!SavedStaysSelected

(* At most one tool of the map takes the clicks.                           *)
OneToolAtATime == view = "tools" => Tools!OneToolAtATime

(* However often the unit is switched, rounding never adds up.             *)
RoundingStaysSmall == view = "measures" => Measures!RoundingStaysSmall

(* Pages fetched while signals arrive leave none out between them.         *)
NothingSkipped == view = "lists" => Lists!NothingSkipped

(* The filter tagged as the AI's is the one of its last answer.            *)
AppliedIsTheAnswer == view = "lists" => Lists!AppliedIsTheAnswer

(* However results come and go, one of those shown is highlighted.         *)
SomethingHighlighted == view = "palette" => Palette!SomethingHighlighted

(* The clicks of a debrief move the replay in their order, whatever order  *)
(* their lookups are answered in.                                          *)
LatestClickWins ==
  [][ view = "debrief" /\ page'.moved.visit = page.moved.visit
        => page'.moved.click >= page.moved.click ]_page

(* The pages of a debrief's timeline leave out and repeat no event, though *)
(* several share a moment and others commit in between.                    *)
TimelineIsWhole == view = "timeline" => Timeline!TimelineIsWhole

(* A briefing's file is headed by what its summary was asked for.          *)
ExportedAsGenerated == view = "briefing" => Briefing!ExportedAsGenerated
=============================================================================
