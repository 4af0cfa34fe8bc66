-------------------------- MODULE ConsoleViewsProofs --------------------------
(* Proofs about the views of the console, for any sites, rules, areas,     *)
(* filters and bounds.                                                     *)
EXTENDS ConsoleViews, Sequences, FiniteSetTheorems, WellFoundedInduction, TLAPS

-----------------------------------------------------------------------------
(* The editor of rules.  The key the form was last seeded with tells       *)
(* whether the drawer is open and for what, so a drawer that opens always  *)
(* seeds its form.                                                         *)
EditorInv ==
  /\ DOMAIN page = { "rules", "listed", "overlay", "target", "editing", "initial", "form",
                     "seedKey", "opened", "touched", "saving", "deleting", "running", "result",
                     "edits", "requests", "changes" }
  /\ DOMAIN page.rules \subseteq Rules /\ DOMAIN page.listed \subseteq Rules
  /\ page.seedKey = Editor!SeedKey(page)
  /\ Editor!FormStartsClean

LEMMA EditorInit == Editor!Init => EditorInv
BY DEF Editor!Init, EditorInv, Editor!FormStartsClean, Editor!DefaultForm, Editor!SeedKey,
  Editor!Nothing

(* A drawer that opens on a page without one shows what it was opened for. *)
LEMMA DrawerOpens ==
  ASSUME NEW p, DOMAIN p = DOMAIN page, EditorInv,
         p.overlay # "drawer", p.seedKey = Editor!Nothing, p.editing # Editor!Nothing,
         DOMAIN p.rules \subseteq Rules, DOMAIN p.listed \subseteq Rules,
         page' = Editor!OpenDrawer(p)
  PROVE  EditorInv'
BY DEF EditorInv, Editor!OpenDrawer, Editor!Rendered, Editor!SeedKey, Editor!Seed,
  Editor!RuleToForm, Editor!FormStartsClean, Editor!Nothing

LEMMA EditorStep == EditorInv /\ Editor!Step => EditorInv'
<1> SUFFICES ASSUME EditorInv, Editor!Step PROVE EditorInv'
  OBVIOUS
<1>1. CASE Editor!OpenCreate
  BY <1>1, DrawerOpens DEF Editor!OpenCreate, Editor!Free, EditorInv, Editor!SeedKey,
    Editor!Nothing, Editor!New, Editor!DefaultForm
<1>2. CASE Editor!OpenTemplates
  BY <1>2 DEF Editor!OpenTemplates, Editor!Free, EditorInv, Editor!SeedKey,
    Editor!FormStartsClean, Editor!Nothing
<1>3. CASE Editor!ApplyTemplate
  BY <1>3, DrawerOpens DEF Editor!ApplyTemplate, EditorInv, Editor!SeedKey,
    Editor!Nothing, Editor!New, Editor!DefaultForm, Editor!TemplateForm
<1>4. ASSUME NEW r \in DOMAIN page.listed, Editor!OpenEdit(r) PROVE EditorInv'
  <2>1. r # Editor!Nothing
    BY ViewsAssumption DEF Editor!RulesAssumption, EditorInv
  <2> DEFINE p == [ page EXCEPT !.editing = r ]
  <2>2. page' = Editor!OpenDrawer(p) /\ page.overlay = Editor!Nothing
    BY <1>4 DEF Editor!OpenEdit, Editor!Free
  <2>3. /\ DOMAIN p = DOMAIN page /\ p.overlay # "drawer" /\ p.editing = r
        /\ p.seedKey = Editor!Nothing /\ p.rules = page.rules /\ p.listed = page.listed
    BY <2>2 DEF EditorInv, Editor!SeedKey, Editor!Nothing
  <2> HIDE DEF p
  <2> QED
    BY <2>1, <2>2, <2>3, DrawerOpens DEF EditorInv
<1>5. CASE Editor!Edit \/ Editor!AddCondition \/ Editor!RemoveCondition
  <2>1. ASSUME DOMAIN page' = DOMAIN page, page'.touched = TRUE,
               \A x \in DOMAIN page \ { "form", "touched", "edits" } : page'[x] = page[x]
        PROVE  EditorInv'
    BY <2>1 DEF EditorInv, Editor!SeedKey, Editor!FormStartsClean
  <2>2. CASE Editor!Edit
    <3>1. PICK form : page' = [ Editor!Touch(form) EXCEPT !.edits = @ + 1 ]
      BY <2>2 DEF Editor!Edit
    <3> QED
      BY <2>1, <3>1 DEF Editor!Touch, EditorInv
  <2>3. CASE Editor!AddCondition \/ Editor!RemoveCondition
    <3>1. PICK form : page' = Editor!Touch(form)
      BY <2>3 DEF Editor!AddCondition, Editor!RemoveCondition
    <3> QED
      BY <2>1, <3>1 DEF Editor!Touch, EditorInv
  <2> QED
    BY <1>5, <2>2, <2>3
<1>6. CASE Editor!Save \/ Editor!Run \/ Editor!RunAnswered \/ Editor!RequestFails
           \/ Editor!Fetched \/ Editor!DeleteAnswered
  <2>1. CASE Editor!Save \/ Editor!Run \/ Editor!RunAnswered
    BY <2>1 DEF Editor!Save, Editor!Run, Editor!RunAnswered, EditorInv, Editor!SeedKey,
      Editor!FormStartsClean
  <2>2. CASE Editor!RequestFails
    BY <2>2 DEF Editor!RequestFails, EditorInv, Editor!SeedKey, Editor!FormStartsClean
  <2>3. CASE Editor!Fetched
    BY <2>3 DEF Editor!Fetched, EditorInv, Editor!SeedKey, Editor!FormStartsClean
  <2>4. CASE Editor!DeleteAnswered
    BY <2>4 DEF Editor!DeleteAnswered, EditorInv, Editor!SeedKey, Editor!FormStartsClean
  <2> QED
    BY <1>6, <2>1, <2>2, <2>3, <2>4
<1>7. CASE Editor!ConfirmDelete
  BY <1>7 DEF Editor!ConfirmDelete, Editor!Close, EditorInv, Editor!SeedKey,
    Editor!FormStartsClean, Editor!Nothing
<1>8. CASE Editor!CloseOverlay
  BY <1>8 DEF Editor!CloseOverlay, Editor!Close, Editor!Rendered, EditorInv, Editor!SeedKey,
    Editor!FormStartsClean, Editor!Nothing
<1>9. CASE Editor!SaveAnswered
  BY <1>9 DEF Editor!SaveAnswered, Editor!Close, Editor!Rendered, Editor!Written, EditorInv,
    Editor!SeedKey, Editor!FormStartsClean, Editor!Nothing
<1>10. ASSUME NEW r, Editor!AskDelete(r) \/ Editor!OpenDryRun(r) PROVE EditorInv'
  BY <1>10 DEF Editor!AskDelete, Editor!OpenDryRun, Editor!Free, EditorInv, Editor!SeedKey,
    Editor!FormStartsClean, Editor!Nothing
<1>11. ASSUME NEW r, Editor!Colleague(r) PROVE EditorInv'
  BY <1>11 DEF Editor!Colleague, EditorInv, Editor!SeedKey, Editor!FormStartsClean
<1> QED
  BY <1>1, <1>2, <1>3, <1>4, <1>5, <1>6, <1>7, <1>8, <1>9, <1>10, <1>11 DEF Editor!Step
-----------------------------------------------------------------------------
(* The tools of the map.  "At most one" as a set, without counting.        *)
ToolsInv ==
  /\ DOMAIN page = { "tools", "points", "anchor", "marks", "next", "selected", "forced",
                     "clicks" }
  /\ page.tools = {} \/ \E t \in Tools!Tools : page.tools = { t }
  /\ page.points # <<>> => "measurement" \in page.tools

LEMMA ToolsInit == Tools!Init => ToolsInv
BY DEF Tools!Init, ToolsInv

LEMMA FirstOfOne == ASSUME NEW t \in Tools!Tools PROVE Tools!First({ t }) = t
<1> DEFINE places == { i \in DOMAIN Tools!Rank : Tools!Rank[i] \in { t } }
<1>1. PICK i \in 1..5 : Tools!Rank[i] = t
  BY DEF Tools!Tools, Tools!Rank
<1>2. places = { i }
  BY <1>1 DEF Tools!Rank
<1>3. Tools!Min({ i }) = i
  BY <1>1 DEF Tools!Min
<1> QED
  BY <1>1, <1>2, <1>3 DEF Tools!First

LEMMA ToolsStep == ToolsInv /\ Tools!Step => ToolsInv'
<1> SUFFICES ASSUME ToolsInv, Tools!Step PROVE ToolsInv'
  OBVIOUS
<1>1. ASSUME NEW t \in Tools!Tools, Tools!Toggle(t) PROVE ToolsInv'
  BY <1>1 DEF Tools!Toggle, Tools!Toggled, Tools!Disable, Tools!DisabledBy, ToolsInv,
    Tools!Tools
<1>2. ASSUME NEW under, Tools!HandleMapClick(under) PROVE ToolsInv'
  <2> DEFINE n == page.clicks + 1
             q == Tools!Clicked(page, n, under)
  <2>1. page' = [ q EXCEPT !.clicks = @ + 1 ]
    BY <1>2 DEF Tools!HandleMapClick
  <2>2. CASE page.tools = {}
    <3>1. DOMAIN q = DOMAIN page /\ q.tools = page.tools /\ q.points = page.points
      BY <2>2 DEF Tools!Clicked, Tools!FeatureClick, ToolsInv
    <3> HIDE DEF q
    <3> QED
      BY <2>1, <3>1 DEF ToolsInv
  <2>3. ASSUME NEW t \in Tools!Tools, page.tools = { t } PROVE ToolsInv'
    <3>1. Tools!First(page.tools) = t /\ page.tools # {}
      BY <2>3, FirstOfOne
    <3>2. /\ DOMAIN q = DOMAIN page /\ q.tools = page.tools
          /\ t # "measurement" => q.points = page.points
      BY <3>1 DEF Tools!Clicked, Tools!CoordinateClick, Tools!AnnotationClick,
        Tools!AnchorClick, ToolsInv
    <3> HIDE DEF q
    <3> QED
      BY <2>1, <2>3, <3>2 DEF ToolsInv
  <2> QED
    BY <2>2, <2>3 DEF ToolsInv
<1>3. CASE Tools!EscapeKey
  <2>1. CASE page.tools = {}
    BY <1>3, <2>1 DEF Tools!EscapeKey, Tools!Closed, ToolsInv
  <2>2. ASSUME NEW t \in Tools!Tools, page.tools = { t } PROVE ToolsInv'
    <3>1. Tools!First(page.tools) = t /\ page.tools # {}
      BY <2>2, FirstOfOne
    <3>2. page' = Tools!Disable(page, { t })
      BY <1>3, <3>1 DEF Tools!EscapeKey
    <3> QED
      BY <2>2, <3>2 DEF Tools!Disable, ToolsInv
  <2> QED
    BY <2>1, <2>2 DEF ToolsInv
<1>4. CASE Tools!ClearMeasurement \/ Tools!ClearAnnotations \/ Tools!ClosePanel
           \/ Tools!BracketKey \/ Tools!SelectionGone
  BY <1>4 DEF Tools!ClearMeasurement, Tools!ClearAnnotations, Tools!ClosePanel,
    Tools!BracketKey, Tools!SelectionGone, Tools!Closed, ToolsInv
<1>5. ASSUME NEW t, Tools!ClearAnchor(t) \/ Tools!RemoveAnnotation(t) PROVE ToolsInv'
  BY <1>5 DEF Tools!ClearAnchor, Tools!RemoveAnnotation, ToolsInv
<1> QED
  BY <1>1, <1>2, <1>3, <1>4, <1>5 DEF Tools!Step

-----------------------------------------------------------------------------
(* The triage lists.  What is shown, and what is checked, was listed, and  *)
(* so was what the tab of a site keeps of the other site.                  *)
TriageInv ==
  /\ DOMAIN page = { "where", "filter", "fired", "home", "site", "status", "rows", "kept",
                     "focus", "last",
                     "checked", "listed", "confirming", "told", "sent", "bulk",
                     "requests", "moves" }
  /\ Triage!IdsOf(page.rows) \subseteq page.listed
  /\ page.where = "site" => Triage!IdsOf(page.kept) \subseteq page.listed
  /\ Triage!CheckedWereListed

LEMMA TriageInit == Triage!Init => TriageInv
BY DEF Triage!Init, TriageInv, Triage!IdsOf, Triage!CheckedWereListed

LEMMA TriageStep == TriageInv /\ Triage!Step => TriageInv'
<1> SUFFICES ASSUME TriageInv, Triage!Step PROVE TriageInv'
  OBVIOUS
<1> USE DEF TriageInv, Triage!CheckedWereListed
<1>1. CASE Triage!Fetched
  BY <1>1 DEF Triage!Fetched, Triage!WithRows
<1>2. ASSUME NEW f, Triage!SwitchFilter(f) PROVE TriageInv'
  BY <1>2 DEF Triage!SwitchFilter, Triage!Unchecked, Triage!WithRows
<1>3. CASE Triage!ToggleAll \/ Triage!Clear
  BY <1>3 DEF Triage!ToggleAll, Triage!Clear
<1>4. ASSUME NEW i \in 1..Len(page.rows), Triage!Check(i) PROVE TriageInv'
  BY <1>4 DEF Triage!Check, Triage!IdsOf
<1>5. ASSUME NEW i \in 1..Len(page.rows), Triage!CheckRange(i) PROVE TriageInv'
  BY <1>5 DEF Triage!CheckRange, Triage!IdsOf
<1>6. CASE Triage!ConfirmClose \/ Triage!CancelClose \/ Triage!Dismiss \/ Triage!KeyMove
  BY <1>6 DEF Triage!ConfirmClose, Triage!ExecuteBulk, Triage!Send, Triage!CancelClose,
    Triage!Dismiss, Triage!KeyMove
<1>7. CASE Triage!BulkAnswered \/ Triage!RequestFails \/ Triage!Fire
  BY <1>7 DEF Triage!BulkAnswered, Triage!AfterBulk, Triage!RequestFails, Triage!Fire
<1>8. ASSUME NEW i, NEW to, Triage!RowClick(i, to) PROVE TriageInv'
  BY <1>8 DEF Triage!RowClick, Triage!Send
<1>9. ASSUME NEW to, Triage!BulkClick(to) \/ Triage!KeyAct(to) PROVE TriageInv'
  BY <1>9 DEF Triage!BulkClick, Triage!KeyAct, Triage!ExecuteBulk, Triage!Send
<1>10. ASSUME NEW r, Triage!RowAnswered(r) PROVE TriageInv'
  BY <1>10 DEF Triage!RowAnswered
<1>11. ASSUME NEW a, NEW to, Triage!Colleague(a, to) PROVE TriageInv'
  BY <1>11 DEF Triage!Colleague
<1>12. ASSUME NEW s, Triage!VisitSite(s) PROVE TriageInv'
  BY <1>12 DEF Triage!VisitSite, Triage!WithRows, Triage!IdsOf
<1> QED
  BY <1>1, <1>2, <1>3, <1>4, <1>5, <1>6, <1>7, <1>8, <1>9, <1>10, <1>11, <1>12
  DEF Triage!Step

(* What ends a question, or comes only without one, changes the selection. *)
LEMMA AskedStep ==
  TriageInv /\ Triage!Step /\ page.confirming /\ page'.confirming
    => page'.checked = page.checked
<1> SUFFICES ASSUME TriageInv, Triage!Step, page.confirming, page'.confirming
             PROVE  page'.checked = page.checked
  OBVIOUS
<1> USE DEF TriageInv
<1>1. CASE Triage!Fetched
  BY <1>1 DEF Triage!Fetched, Triage!WithRows
<1>2. CASE Triage!ConfirmClose \/ Triage!CancelClose \/ Triage!Dismiss \/ Triage!KeyMove
           \/ Triage!ToggleAll \/ Triage!Clear
  BY <1>2 DEF Triage!ConfirmClose, Triage!ExecuteBulk, Triage!Send, Triage!CancelClose,
    Triage!Dismiss, Triage!KeyMove, Triage!ToggleAll, Triage!Clear, Triage!Toolbar
<1>3. CASE Triage!BulkAnswered \/ Triage!RequestFails \/ Triage!Fire
  BY <1>3 DEF Triage!BulkAnswered, Triage!AfterBulk, Triage!RequestFails, Triage!Fire
<1>4. ASSUME NEW i, NEW to, Triage!Check(i) \/ Triage!CheckRange(i) \/ Triage!RowClick(i, to)
                             \/ Triage!SwitchFilter(i) \/ Triage!VisitSite(i)
      PROVE  page'.checked = page.checked
  BY <1>4 DEF Triage!Check, Triage!CheckRange, Triage!RowClick, Triage!Send,
    Triage!SwitchFilter, Triage!VisitSite, Triage!WithRows
<1>5. ASSUME NEW a, NEW to, Triage!BulkClick(to) \/ Triage!KeyAct(to)
                             \/ Triage!RowAnswered(a) \/ Triage!Colleague(a, to)
      PROVE  page'.checked = page.checked
  BY <1>5 DEF Triage!BulkClick, Triage!Toolbar, Triage!KeyAct, Triage!ExecuteBulk,
    Triage!Send, Triage!RowAnswered, Triage!Colleague
<1> QED
  BY <1>1, <1>2, <1>3, <1>4, <1>5 DEF Triage!Step
-----------------------------------------------------------------------------
(* The planning board.  A draft is of the area its key names, and so is    *)
(* what is saved of it; a SALUTE report is refused by the server instead.  *)
Written(plan) ==
  /\ DOMAIN plan = { "areas", "doctrine", "points", "sites" }
  /\ plan.areas \subseteq Board!Areas /\ DOMAIN plan.doctrine = Board!Areas
  /\ \A a \in Board!Areas : plan.doctrine[a].area \in { a, Board!None }
  /\ \A point \in plan.points : point.text.area = point.area

DraftsOfArea(p) ==
  \A x, y :
    /\ p.key["doctrine"] = <<x, y>> /\ x # Board!None
         => p.draft["doctrine"].area \in { x, Board!None }
    /\ p.key["chokepoint"] = <<x, y>> /\ x # Board!None
         => p.draft["chokepoint"].area = x

BoardFields ==
  { "server", "listed", "area", "point", "pending", "draft", "key", "request", "deleting",
    "mine", "edits", "requests", "changes", "points" }

(* What holds of a page before the effects of a render have run.           *)
Drafted(p) ==
  /\ DOMAIN p = BoardFields
  /\ Written(p.server) /\ Written(p.listed)
  /\ DOMAIN p.draft = Board!Kinds /\ DOMAIN p.key = Board!Kinds
  /\ DOMAIN p.request = Board!Kinds
  /\ p.pending.text.area = p.pending.area
  /\ p.request["doctrine"].text.area \in { p.request["doctrine"].area, Board!None }
  /\ p.request["chokepoint"].text.area = p.request["chokepoint"].area
  /\ DraftsOfArea(p)

BoardInv ==
  /\ Drafted(page)
  /\ page.area # Board!None =>
       \A k \in Board!Kinds : \E y : page.key[k] = <<page.area, y>>

LEMMA BoardInit == Board!Init => BoardInv
<1> SUFFICES ASSUME Board!Init PROVE BoardInv
  OBVIOUS
<1>1. \A x, y : <<>> # <<x, y>>
  OBVIOUS
<1> QED
  BY <1>1 DEF Board!Init, BoardInv, Drafted, DraftsOfArea, Written, BoardFields,
    Board!Nobody, Board!NoPoint, Board!NoRequest, Board!Blank, Board!Kinds, Board!Areas,
    Board!None

(* The least of some areas is one of them.                                 *)
LEMMA LeastArea ==
  ASSUME NEW S \in SUBSET Board!Areas, S # {} PROVE Board!Min(S) \in S
<1>1. \E x \in S : \A y \in S : x <= y
  <2>1. CASE 1 \in S
    BY <2>1 DEF Board!Areas
  <2>2. CASE 1 \notin S
    <3>1. \A x \in S : x = 2
      BY <2>2 DEF Board!Areas
    <3> QED
      BY <3>1
  <2> QED
    BY <2>1, <2>2
<1> QED
  BY <1>1 DEF Board!Min

(* The effects of a render leave the drafts of the area that is shown.     *)
LEMMA RenderKeeps ==
  ASSUME NEW q, Drafted(q), page' = Board!Rendered(q)
  PROVE  BoardInv'
<1> DEFINE a == [ q EXCEPT !.area = Board!AreaOf(q) ]
           p == [ a EXCEPT !.point = Board!PointOf(a), !.pending = Board!PendingOf(a) ]
<1>1. /\ DOMAIN p = BoardFields /\ p.server = q.server /\ p.listed = q.listed
      /\ p.draft = q.draft /\ p.key = q.key /\ p.request = q.request
      /\ p.area = Board!AreaOf(q) /\ p.pending.text.area = p.pending.area
  BY DEF Drafted, BoardFields, Board!PendingOf, Board!NoPoint, Board!Blank
<1>2. page' = [ p EXCEPT !.key = [ k \in Board!Kinds |-> Board!KeyOf(p, k) ],
                         !.draft = [ k \in Board!Kinds |->
                              IF Board!KeyOf(p, k) = p.key[k] THEN @[k]
                              ELSE Board!Seed(p, k) ] ]
  BY DEF Board!Rendered
<1>3. p.area \in Board!Areas \cup { Board!None }
  BY <1>1, LeastArea DEF Board!AreaOf, Drafted, Written
<1> HIDE DEF p
<1>4. /\ page'.key = [ k \in Board!Kinds |-> Board!KeyOf(p, k) ]
      /\ page'.draft = [ k \in Board!Kinds |->
            IF Board!KeyOf(p, k) = p.key[k] THEN p.draft[k] ELSE Board!Seed(p, k) ]
      /\ page'.server = p.server /\ page'.listed = p.listed /\ page'.area = p.area
      /\ page'.pending = p.pending /\ page'.request = p.request
      /\ DOMAIN page' = BoardFields
  BY <1>1, <1>2 DEF BoardFields
<1>5. \A k \in Board!Kinds : \E y : page'.key[k] = <<p.area, y>>
  BY <1>4 DEF Board!KeyOf
<1>6. p.area # Board!None => Board!Seed(p, "doctrine").area \in { p.area, Board!None }
  BY <1>1, <1>3 DEF Board!Seed, Board!Doctrine, Board!Blank, Drafted, Written
<1>7. Board!Seed(p, "chokepoint").area = p.area
  BY <1>1 DEF Board!Seed, Board!Selected, Board!Listed, Board!PointsOf, Board!IsPending,
    Board!Fresh, Board!NoPoint, Drafted, Written
<1>8. DraftsOfArea(page')
  BY <1>1, <1>4, <1>5, <1>6, <1>7 DEF DraftsOfArea, Drafted, Board!Kinds
<1> QED
  BY <1>1, <1>4, <1>5, <1>8 DEF BoardInv, Drafted

(* What the drafts, the requests and the plans do not depend on.           *)
LEMMA BoardKept ==
  ASSUME BoardInv, DOMAIN page' = BoardFields,
         \A x \in { "server", "listed", "area", "pending", "draft", "key", "request" } :
           page'[x] = page[x]
  PROVE  BoardInv'
<1>1. /\ page'.server = page.server /\ page'.listed = page.listed
      /\ page'.area = page.area /\ page'.pending = page.pending
      /\ page'.draft = page.draft /\ page'.key = page.key /\ page'.request = page.request
  OBVIOUS
<1> QED
  BY <1>1 DEF BoardInv, Drafted, DraftsOfArea

LEMMA BoardStep == BoardInv /\ Board!Step => BoardInv'
<1> SUFFICES ASSUME BoardInv, Board!Step PROVE BoardInv'
  OBVIOUS
<1>1. ASSUME NEW a, Board!Change(a) PROVE BoardInv'
  <2> DEFINE q == [ page EXCEPT !.area = a, !.pending = Board!NoPoint, !.mine = Board!None ]
  <2>1. Drafted(q)
    BY DEF BoardInv, Drafted, DraftsOfArea, BoardFields, Board!NoPoint, Board!Blank
  <2> QED
    BY <1>1, <2>1, RenderKeeps DEF Board!Change
<1>2. ASSUME NEW id, Board!Pick(id) PROVE BoardInv'
  <2> DEFINE q == [ page EXCEPT !.point = id, !.pending = Board!NoPoint, !.mine = Board!None ]
  <2>1. Drafted(q)
    BY DEF BoardInv, Drafted, DraftsOfArea, BoardFields, Board!NoPoint, Board!Blank
  <2> QED
    BY <1>2, <2>1, RenderKeeps DEF Board!Pick
<1>3. ASSUME NEW k \in Board!Kinds, Board!Type(k) PROVE BoardInv'
  <2>1. PICK area \in IF k = "salute" THEN { page.draft[k].area, page.area } ELSE { page.area } :
          page' = [ page EXCEPT !.draft[k] = [ area |-> area, n |-> page.edits + 1 ],
                                !.edits = @ + 1 ]
    BY <1>3 DEF Board!Type
  <2>2. /\ DOMAIN page' = BoardFields
        /\ \A x \in BoardFields \ { "draft", "edits" } : page'[x] = page[x]
        /\ page'.draft = [ page.draft EXCEPT ![k] = [ area |-> area, n |-> page.edits + 1 ] ]
    BY <2>1 DEF BoardInv, Drafted, BoardFields
  <2>3. page.area # Board!None
    BY <1>3 DEF Board!Type, Board!Shown
  <2>4. \A j \in Board!Kinds : \E y : page.key[j] = <<page.area, y>>
    BY <2>3 DEF BoardInv
  <2>5. DraftsOfArea(page')
    BY <2>1, <2>2, <2>4 DEF BoardInv, Drafted, DraftsOfArea, BoardFields, Board!Kinds
  <2> QED
    BY <2>2, <2>5 DEF BoardInv, Drafted, BoardFields
<1>4. ASSUME NEW k \in Board!Kinds, Board!Save(k) PROVE BoardInv'
  <2> DEFINE r == [ area |-> page.area, id |-> Board!Target(k), text |-> page.draft[k] ]
  <2>1. /\ DOMAIN page' = BoardFields
        /\ \A x \in BoardFields \ { "request", "requests" } : page'[x] = page[x]
        /\ page'.request = [ page.request EXCEPT ![k] = r ]
    BY <1>4 DEF Board!Save, BoardInv, Drafted, BoardFields
  <2>2. page.area # Board!None
    BY <1>4 DEF Board!Save, Board!CanSend, Board!Shown
  <2>3. \A j \in Board!Kinds : \E y : page.key[j] = <<page.area, y>>
    BY <2>2 DEF BoardInv
  <2>4. /\ k = "doctrine" => r.text.area \in { r.area, Board!None }
        /\ k = "chokepoint" => r.text.area = r.area
    BY <2>2, <2>3 DEF BoardInv, Drafted, DraftsOfArea
  <2> QED
    BY <2>1, <2>4 DEF BoardInv, Drafted, DraftsOfArea, BoardFields, Board!Kinds
<1>5. ASSUME NEW k \in Board!Kinds, Board!Fails(k) PROVE BoardInv'
  BY <1>5 DEF Board!Fails, Board!Done, Board!NoRequest, Board!Blank, BoardInv, Drafted,
    DraftsOfArea, BoardFields, Board!Kinds
<1>6. CASE Board!Delete \/ Board!DeleteFails
  BY <1>6, BoardKept DEF Board!Delete, Board!DeleteFails, BoardInv, Drafted, BoardFields
<1>7. CASE Board!DoctrineSaved
  <2> DEFINE r == page.request["doctrine"]
  <2>1. /\ DOMAIN page' = BoardFields
        /\ \A x \in BoardFields \ { "request", "server" } : page'[x] = page[x]
        /\ page'.request = [ page.request EXCEPT !["doctrine"] = Board!NoRequest ]
        /\ page'.server = [ page.server EXCEPT !.doctrine[r.area] = r.text ]
    BY <1>7 DEF Board!DoctrineSaved, Board!Done, BoardInv, Drafted, BoardFields
  <2>2. Written(page'.server)
    BY <2>1 DEF BoardInv, Drafted, Written
  <2>3. /\ DOMAIN page'.request = Board!Kinds
        /\ page'.request["doctrine"] = Board!NoRequest
        /\ page'.request["chokepoint"] = page.request["chokepoint"]
    BY <2>1 DEF BoardInv, Drafted, Board!Kinds
  <2>4. DraftsOfArea(page')
    BY <2>1 DEF BoardInv, Drafted, DraftsOfArea, BoardFields
  <2> QED
    BY <2>1, <2>2, <2>3, <2>4 DEF BoardInv, Drafted, BoardFields, Board!NoRequest, Board!Blank
<1>8. CASE Board!SaluteSent
  BY <1>8 DEF Board!SaluteSent, Board!Done, BoardInv, Drafted, DraftsOfArea, BoardFields,
    Board!Kinds
<1>9. CASE Board!PointSaved
  <2> DEFINE r     == page.request["chokepoint"]
             id    == IF r.id = Board!None THEN page.points + 1 ELSE r.id
             saved == [ id |-> id, area |-> r.area, text |-> r.text ]
             kept  == { point \in page.server.points : point.id # id }
             q     == [ Board!Done("chokepoint") EXCEPT
                          !.server.points = kept \cup { saved },
                          !.points  = IF r.id = Board!None THEN @ + 1 ELSE @,
                          !.pending = saved, !.point = id,
                          !.mine    = IF r.area = page.area THEN id ELSE Board!None ]
  <2>1. page' = Board!Rendered(q)
    BY <1>9 DEF Board!PointSaved
  <2>2. /\ DOMAIN q = BoardFields /\ q.listed = page.listed /\ q.draft = page.draft
        /\ q.key = page.key /\ q.pending = saved
        /\ q.request = [ page.request EXCEPT !["chokepoint"] = Board!NoRequest ]
        /\ q.server = [ page.server EXCEPT !.points = kept \cup { saved } ]
    BY DEF Board!Done, BoardInv, Drafted, BoardFields
  <2>3. saved.text.area = saved.area
    BY DEF BoardInv, Drafted
  <2>4. kept \subseteq page.server.points
    OBVIOUS
  <2> HIDE DEF q, saved, kept
  <2>5. Written(q.server)
    BY <2>2, <2>3, <2>4 DEF BoardInv, Drafted, Written
  <2>6. Drafted(q)
    BY <2>2, <2>3, <2>5 DEF Board!NoRequest, Board!Blank, BoardInv, Drafted, DraftsOfArea,
      Board!Kinds
  <2> QED
    BY <2>1, <2>6, RenderKeeps
<1>10. CASE Board!PointDeleted
  <2> DEFINE q == [ page EXCEPT
                      !.server.points = { point \in @ : point.id # page.deleting },
                      !.deleting = Board!None, !.pending = Board!NoPoint,
                      !.point = Board!None, !.mine = Board!None ]
  <2>1. page' = Board!Rendered(q)
    BY <1>10 DEF Board!PointDeleted
  <2>2. Drafted(q)
    BY DEF BoardInv, Drafted, DraftsOfArea, Written, BoardFields, Board!NoPoint, Board!Blank
  <2> QED
    BY <2>1, <2>2, RenderKeeps
<1>11. CASE Board!Fetched
  <2>1. Drafted([ page EXCEPT !.listed = page.server ])
    BY DEF BoardInv, Drafted, DraftsOfArea, BoardFields
  <2> QED
    BY <1>11, <2>1, RenderKeeps DEF Board!Fetched
<1>12. CASE Board!Travel
  <2>1. Drafted([ page EXCEPT !.listed = Board!Nobody, !.mine = Board!None ])
    BY DEF BoardInv, Drafted, DraftsOfArea, Written, BoardFields, Board!Nobody, Board!Blank,
      Board!Areas
  <2> QED
    BY <1>12, <2>1, RenderKeeps DEF Board!Travel
<1>13. CASE Board!Colleague
  <2>1. ASSUME NEW a, Board!ColleagueWrites(a) PROVE BoardInv'
    BY <2>1 DEF Board!ColleagueWrites, BoardInv, Drafted, DraftsOfArea, Written, BoardFields
  <2>2. ASSUME NEW id, Board!ColleagueDeletes(id) PROVE BoardInv'
    BY <2>2 DEF Board!ColleagueDeletes, BoardInv, Drafted, DraftsOfArea, Written, BoardFields
  <2>3. CASE Board!SitesChange
    BY <2>3 DEF Board!SitesChange, BoardInv, Drafted, DraftsOfArea, Written, BoardFields
  <2> QED
    BY <1>13, <2>1, <2>2, <2>3 DEF Board!Colleague
<1> QED
  BY <1>1, <1>2, <1>3, <1>4, <1>5, <1>6, <1>7, <1>8, <1>9, <1>10, <1>11, <1>12, <1>13
  DEF Board!Step

-----------------------------------------------------------------------------
(* The debrief.  No lookup and no move of the replay is ahead of the count *)
(* of the panel it was clicked in.                                         *)
DebriefFields == { "at", "leaving", "visit", "newest", "pending", "lookups", "asOf", "moved" }
DebriefInv ==
  /\ DOMAIN page = DebriefFields
  /\ page.visit \in 0..DebriefVisits
  /\ page.at = "elsewhere" \/ page.visit \in Debrief!Visits
  /\ page.newest \in [ Debrief!Visits -> Nat ]
  /\ \A l \in page.lookups : /\ l.visit \in Debrief!Visits
                             /\ l.click \in 0..page.newest[l.visit]
  /\ page.moved.visit \in 0..DebriefVisits /\ page.moved.click \in Nat
  /\ page.moved.visit \in Debrief!Visits =>
       page.moved.click <= page.newest[page.moved.visit]

LEMMA DebriefInit == Debrief!Init => DebriefInv
BY ViewsAssumption
DEF Debrief!Init, DebriefInv, DebriefFields, Debrief!Visits, Debrief!DebriefAssumption

(* What a step does to the replay is done by the newest click of a panel,  *)
(* or not at all.                                                          *)
MovedForward ==
  page'.moved.visit = page.moved.visit => page'.moved.click >= page.moved.click

(* A page that keeps its bounds: the lookups and the move of a panel are   *)
(* not ahead of its count, which has only grown.                           *)
LEMMA DebriefKept ==
  ASSUME DebriefInv,
         DOMAIN page' = DebriefFields, page'.visit \in 0..DebriefVisits,
         page'.at = "elsewhere" \/ page'.visit \in Debrief!Visits,
         page'.newest \in [ Debrief!Visits -> Nat ],
         \A v \in Debrief!Visits : page'.newest[v] >= page.newest[v],
         \A l \in page'.lookups \ page.lookups :
           l.visit \in Debrief!Visits /\ l.click \in 0..page'.newest[l.visit],
         \/ page'.moved = page.moved
         \/ /\ page'.moved.visit \in Debrief!Visits
            /\ page'.moved.click = page'.newest[page'.moved.visit]
  PROVE  DebriefInv' /\ MovedForward
<1>1. DebriefVisits \in Nat /\ Debrief!Visits' = Debrief!Visits
      /\ Debrief!Visits = 1..DebriefVisits
  BY ViewsAssumption DEF Debrief!DebriefAssumption, Debrief!Visits
<1>2. ASSUME NEW l \in page'.lookups
      PROVE  l.visit \in Debrief!Visits /\ l.click \in 0..page'.newest[l.visit]
  <2>1. CASE l \in page.lookups
    <3>1. l.visit \in Debrief!Visits /\ l.click \in 0..page.newest[l.visit]
      BY <2>1 DEF DebriefInv
    <3>2. page.newest[l.visit] \in Nat /\ page'.newest[l.visit] \in Nat
      BY <3>1 DEF DebriefInv
    <3> QED
      BY <3>1, <3>2
  <2> QED
    BY <1>2, <2>1
<1>3. /\ page'.moved.visit \in 0..DebriefVisits /\ page'.moved.click \in Nat
      /\ page'.moved.visit \in Debrief!Visits =>
           page'.moved.click <= page'.newest[page'.moved.visit]
  <2>1. CASE page'.moved = page.moved
    <3>1. CASE page.moved.visit \in Debrief!Visits
      <4>1. /\ page.newest[page.moved.visit] \in Nat /\ page'.newest[page.moved.visit] \in Nat
            /\ page.moved.click <= page.newest[page.moved.visit]
            /\ page'.newest[page.moved.visit] >= page.newest[page.moved.visit]
        BY <3>1 DEF DebriefInv
      <4> QED
        BY <2>1, <4>1 DEF DebriefInv
    <3> QED
      BY <2>1, <3>1 DEF DebriefInv
  <2> QED
    BY <1>1, <2>1
<1>4. MovedForward
  <2>1. CASE page'.moved = page.moved
    BY <2>1 DEF MovedForward, DebriefInv
  <2>2. CASE /\ page'.moved.visit \in Debrief!Visits
             /\ page'.moved.click = page'.newest[page'.moved.visit]
             /\ page'.moved.visit = page.moved.visit
    <3>1. /\ page.newest[page.moved.visit] \in Nat /\ page'.newest[page.moved.visit] \in Nat
          /\ page.moved.click <= page.newest[page.moved.visit] /\ page.moved.click \in Nat
          /\ page'.newest[page.moved.visit] >= page.newest[page.moved.visit]
      BY <2>2 DEF DebriefInv
    <3> QED
      BY <2>2, <3>1 DEF MovedForward
  <2> QED
    BY <2>1, <2>2 DEF MovedForward
<1> QED
  BY <1>1, <1>2, <1>3, <1>4 DEF DebriefInv, DebriefFields

LEMMA DebriefStep == DebriefInv /\ Debrief!Step => DebriefInv' /\ MovedForward
<1> SUFFICES ASSUME DebriefInv, Debrief!Step PROVE DebriefInv' /\ MovedForward
  OBVIOUS
<1>a. /\ DebriefVisits \in Nat /\ DebriefClicks \in Nat
      /\ \A v \in Debrief!Visits : page.newest[v] \in Nat
  BY ViewsAssumption DEF Debrief!DebriefAssumption, DebriefInv
<1>1. CASE Debrief!Unmount
  BY <1>1, <1>a, DebriefKept DEF Debrief!Unmount, DebriefInv, DebriefFields
<1>2. ASSUME NEW place, Debrief!Mount(place) PROVE DebriefInv' /\ MovedForward
  BY <1>2, <1>a, DebriefKept DEF Debrief!Mount, DebriefInv, DebriefFields, Debrief!Visits
<1>3. ASSUME NEW e, Debrief!HandleReconstruct(e) PROVE DebriefInv' /\ MovedForward
  <2> DEFINE click == page.newest[page.visit] + 1
             l == [ visit |-> page.visit, click |-> click, event |-> e ]
             p == [ page EXCEPT !.newest[page.visit] = click ]
  <2>1. page.visit \in Debrief!Visits /\ click \in Nat
    BY <1>3, <1>a DEF Debrief!HandleReconstruct, DebriefInv
  <2>2. /\ DOMAIN p = DebriefFields /\ p.visit = page.visit /\ p.at = page.at
        /\ p.lookups = page.lookups /\ p.moved = page.moved
        /\ p.newest \in [ Debrief!Visits -> Nat ] /\ p.newest[page.visit] = click
        /\ \A v \in Debrief!Visits : p.newest[v] >= page.newest[v]
    BY <2>1, <1>a DEF DebriefInv, DebriefFields
  <2>3. l.visit = page.visit /\ l.click = click /\ l.click \in 0..click
    BY <2>1
  <2>4. \/ page' = Debrief!Enter(p, l)
        \/ page' = [ p EXCEPT !.pending = e, !.lookups = @ \cup { l } ]
        \/ page' = Debrief!Navigates(Debrief!Enter(p, l))
    BY <1>3 DEF Debrief!HandleReconstruct
  <2> HIDE DEF click, l, p
  <2>5. /\ DOMAIN page' = DebriefFields /\ page'.visit = p.visit /\ page'.at = p.at
        /\ page'.newest = p.newest
        /\ \/ page'.moved = p.moved /\ page'.lookups = p.lookups \cup { l }
           \/ /\ page'.lookups = p.lookups
              /\ page'.moved = [ visit |-> l.visit, click |-> l.click ]
    BY <2>2, <2>4 DEF Debrief!Enter, Debrief!Navigates, DebriefFields
  <2>6. page'.visit \in 0..DebriefVisits
    BY <2>2, <2>5 DEF DebriefInv
  <2>7. \A x \in page'.lookups \ page.lookups :
          x.visit \in Debrief!Visits /\ x.click \in 0..page'.newest[x.visit]
    BY <2>1, <2>2, <2>3, <2>5
  <2>8. \/ page'.moved = page.moved
        \/ /\ page'.moved.visit \in Debrief!Visits
           /\ page'.moved.click = page'.newest[page'.moved.visit]
    BY <2>1, <2>2, <2>3, <2>5
  <2> QED
    BY <2>1, <2>2, <2>5, <2>6, <2>7, <2>8, DebriefKept
<1>4. ASSUME NEW l \in page.lookups, Debrief!Answer(l) \/ Debrief!LookupFails(l)
      PROVE  DebriefInv' /\ MovedForward
  <2> DEFINE p == [ page EXCEPT !.lookups = @ \ { l } ]
  <2>1. /\ DOMAIN p = DebriefFields /\ p.visit = page.visit /\ p.at = page.at
        /\ p.lookups = page.lookups \ { l } /\ p.moved = page.moved /\ p.newest = page.newest
    BY DEF DebriefInv, DebriefFields
  <2>2. \/ page' = p
        \/ /\ l.click = page.newest[l.visit]
           /\ page' = Debrief!Settled(p, l) \/ page' = Debrief!Navigates(Debrief!Settled(p, l))
    BY <1>4 DEF Debrief!Answer, Debrief!LookupFails, Debrief!Superseded
  <2> HIDE DEF p
  <2>3. /\ DOMAIN page' = DebriefFields /\ page'.visit = p.visit /\ page'.at = p.at
        /\ page'.newest = p.newest /\ page'.lookups = p.lookups
        /\ \/ page'.moved = p.moved
           \/ /\ l.click = page.newest[l.visit]
              /\ page'.moved = [ visit |-> l.visit, click |-> l.click ]
    BY <2>1, <2>2 DEF Debrief!Settled, Debrief!Enter, Debrief!Navigates, DebriefFields
  <2>4. l.visit \in Debrief!Visits
    BY DEF DebriefInv
  <2> QED
    BY <1>a, <2>1, <2>3, <2>4, DebriefKept DEF DebriefInv
<1>5. ASSUME NEW position, Debrief!Pick(position) PROVE DebriefInv' /\ MovedForward
  BY <1>5, <1>a, DebriefKept DEF Debrief!Pick, DebriefInv, DebriefFields
<1> QED
  BY <1>1, <1>2, <1>3, <1>4, <1>5 DEF Debrief!Step

-----------------------------------------------------------------------------
(* The briefing.  A context names its site or none, a result carries the   *)
(* context it was asked for with, and so do the files made of it.          *)
BriefingFields ==
  { "mounted", "visit", "type", "site", "asOf", "listed", "asked", "result", "exporting",
    "pdfLoading", "files", "briefings", "exports" }
Headed(c) == c.name \in { c.site, Briefing!AllSites }
Labelled(file) ==
  /\ file.type = file.summary.type
  /\ file.name \in { file.summary.site, Briefing!AllSites }
BriefingInv ==
  /\ DOMAIN page = BriefingFields
  /\ \A c \in page.asked : Headed(c)
  /\ \A r \in page.result : Headed(r.context) /\ r.summary = Briefing!SummaryOf(r.context)
  /\ \A file \in page.exporting \cup page.files : Labelled(file)

LEMMA BriefingInit == Briefing!Init => BriefingInv
BY DEF Briefing!Init, BriefingInv, BriefingFields

LEMMA BriefingStep == BriefingInv /\ Briefing!Step => BriefingInv'
<1> SUFFICES ASSUME BriefingInv, Briefing!Step PROVE BriefingInv'
  OBVIOUS
<1> USE DEF BriefingInv, BriefingFields
<1>1. CASE Briefing!Generate
  BY <1>1 DEF Briefing!Generate, Briefing!Context, Headed
<1>2. CASE Briefing!Fails \/ Briefing!Leave \/ Briefing!Return
  BY <1>2 DEF Briefing!Fails, Briefing!Leave, Briefing!Fresh, Briefing!Return
<1>3. ASSUME NEW x, \/ Briefing!ChooseType(x) \/ Briefing!ChooseSite(x)
                    \/ Briefing!Move(x) \/ Briefing!ListArrives(x)
      PROVE  BriefingInv'
  BY <1>3 DEF Briefing!ChooseType, Briefing!ChooseSite, Briefing!Move, Briefing!ListArrives
<1>4. ASSUME NEW c, Briefing!Arrive(c) PROVE BriefingInv'
  BY <1>4 DEF Briefing!Arrive
<1>5. ASSUME NEW r, Briefing!Export(r) PROVE BriefingInv'
  <2> DEFINE file == [ type |-> r.context.type, name |-> r.context.name,
                       summary |-> r.summary, visit |-> page.visit ]
  <2>1. r \in page.result /\ page' = [ page EXCEPT !.exporting = @ \cup { file },
                              !.pdfLoading = TRUE, !.exports = @ + 1 ]
    BY <1>5 DEF Briefing!Export, Briefing!Header
  <2>a. r \in page.result
    BY <2>1
  <2>b. Headed(r.context) /\ r.summary = Briefing!SummaryOf(r.context)
    BY <2>a
  <2>2. /\ r.context.name \in { r.context.site, Briefing!AllSites }
        /\ r.summary.type = r.context.type /\ r.summary.site = r.context.site
    BY <2>b DEF Briefing!SummaryOf, Headed
  <2>3. /\ file.type = r.context.type /\ file.name = r.context.name
        /\ file.summary = r.summary
    OBVIOUS
  <2> HIDE DEF file
  <2>4. Labelled(file)
    BY <2>2, <2>3 DEF Labelled
  <2> QED
    BY <2>1, <2>4
<1>6. ASSUME NEW file, Briefing!Downloaded(file) \/ Briefing!ExportFails(file)
      PROVE  BriefingInv'
  <2> DEFINE loading == page.pdfLoading /\ file.visit # page.visit
             p == [ page EXCEPT !.exporting = @ \ { file }, !.pdfLoading = loading ]
  <2>1. file \in page.exporting /\ (page' = p \/ page' = [ p EXCEPT !.files = @ \cup { file } ])
    BY <1>6 DEF Briefing!Downloaded, Briefing!ExportFails, Briefing!Ended
  <2> HIDE DEF loading
  <2>2. /\ DOMAIN p = BriefingFields /\ p.asked = page.asked /\ p.result = page.result
        /\ p.exporting = page.exporting \ { file } /\ p.files = page.files
    OBVIOUS
  <2> HIDE DEF p
  <2>3. /\ DOMAIN page' = BriefingFields
        /\ page'.asked = page.asked /\ page'.result = page.result
        /\ page'.exporting = page.exporting \ { file }
        /\ page'.files \in { page.files, page.files \cup { file } }
    BY <2>1, <2>2
  <2>4. \A other \in page'.exporting \cup page'.files : Labelled(other)
    BY <2>1, <2>3
  <2> QED
    BY <2>3, <2>4
<1> QED
  BY <1>1, <1>2, <1>3, <1>4, <1>5, <1>6 DEF Briefing!Step

(* What the commander saved last is planned for the area shown, which is   *)
(* an area of the list; a request is made for an area.                     *)
SavedInv ==
  /\ page.listed.areas \subseteq page.server.areas
  /\ page.area \in page.listed.areas \cup { Board!None }
  /\ \A k \in Board!Kinds :
       page.request[k] = Board!NoRequest \/ page.request[k].area # Board!None
  /\ page.mine # Board!None =>
       /\ page.area # Board!None /\ page.point = page.mine
       /\ \E point \in page.server.points : point.id = page.mine /\ point.area = page.area

LEMMA SavedInit == Board!Init => SavedInv
BY DEF Board!Init, SavedInv, Board!Nobody, Board!NoRequest, Board!Kinds, Board!None

(* The effects of a render stay in the area and with the chokepoint, as    *)
(* long as the list has the one and the list or the page has the other.    *)
LEMMA RenderStays ==
  ASSUME NEW q, DOMAIN q = BoardFields, q.listed.areas \subseteq Board!Areas,
         page' = Board!Rendered(q)
  PROVE  /\ page'.area \in page'.listed.areas \cup { Board!None }
         /\ q.area \in q.listed.areas => page'.area = q.area
         /\ q.area \in q.listed.areas
              /\ (Board!Listed(q, q.point) \/ Board!IsPending(q, q.point))
              => page'.point = q.point
         /\ page'.server = q.server /\ page'.listed = q.listed
         /\ page'.request = q.request /\ page'.mine = q.mine
<1> DEFINE a == [ q EXCEPT !.area = Board!AreaOf(q) ]
           p == [ a EXCEPT !.point = Board!PointOf(a), !.pending = Board!PendingOf(a) ]
<1>1. /\ DOMAIN a = BoardFields
      /\ \A x \in BoardFields \ { "area" } : a[x] = q[x]
      /\ a.area = Board!AreaOf(q)
  BY DEF BoardFields
<1>2. /\ p.area = a.area /\ p.point = Board!PointOf(a) /\ p.server = q.server
      /\ p.listed = q.listed /\ p.request = q.request /\ p.mine = q.mine
      /\ DOMAIN p = BoardFields
  BY <1>1 DEF BoardFields
<1>3. page' = [ p EXCEPT !.key = [ k \in Board!Kinds |-> Board!KeyOf(p, k) ],
                         !.draft = [ k \in Board!Kinds |->
                              IF Board!KeyOf(p, k) = p.key[k] THEN @[k]
                              ELSE Board!Seed(p, k) ] ]
  BY DEF Board!Rendered
<1>4. /\ q.area \in q.listed.areas => a.area = q.area
      /\ a.listed = q.listed /\ a.pending = q.pending /\ a.point = q.point
  BY <1>1 DEF Board!AreaOf, BoardFields
<1>5. Board!AreaOf(q) \in q.listed.areas \cup { Board!None }
  BY LeastArea DEF Board!AreaOf
<1> HIDE DEF p, a
<1>6. /\ page'.area = p.area /\ page'.point = p.point /\ page'.server = p.server
      /\ page'.listed = p.listed /\ page'.request = p.request /\ page'.mine = p.mine
  BY <1>2, <1>3 DEF BoardFields
<1>7. q.area \in q.listed.areas
        /\ (Board!Listed(q, q.point) \/ Board!IsPending(q, q.point))
        => Board!PointOf(a) = q.point
  BY <1>4 DEF Board!PointOf, Board!Listed, Board!PointsOf, Board!IsPending
<1> QED
  BY <1>1, <1>2, <1>4, <1>5, <1>6, <1>7 DEF BoardFields

LEMMA SavedStep == BoardInv /\ SavedInv /\ Board!Step => SavedInv'
<1> SUFFICES ASSUME BoardInv, SavedInv, Board!Step PROVE SavedInv'
  OBVIOUS
<1>a. /\ DOMAIN page = BoardFields /\ DOMAIN page.request = Board!Kinds
      /\ page.listed.areas \subseteq Board!Areas /\ page.server.areas \subseteq Board!Areas
      /\ Board!None \notin Board!Areas
      /\ DOMAIN page.server = { "areas", "doctrine", "points", "sites" }
  BY DEF BoardInv, Drafted, Written, Board!None, Board!Areas
<1>1. ASSUME NEW q, DOMAIN q = BoardFields, page' = Board!Rendered(q),
             q.mine = Board!None, q.server.areas = page.server.areas,
             q.listed.areas \subseteq page.server.areas,
             \A k \in Board!Kinds :
               q.request[k] = Board!NoRequest \/ q.request[k].area # Board!None
      PROVE  SavedInv'
  BY <1>a, <1>1, RenderStays DEF SavedInv
<1>2. ASSUME NEW a, Board!Change(a) PROVE SavedInv'
  <2> DEFINE q == [ page EXCEPT !.area = a, !.pending = Board!NoPoint, !.mine = Board!None ]
  <2>1. page' = Board!Rendered(q)
    BY <1>2 DEF Board!Change
  <2>2. /\ DOMAIN q = BoardFields /\ q.mine = Board!None /\ q.server = page.server
        /\ q.listed = page.listed /\ q.request = page.request
    BY <1>a DEF BoardFields
  <2> HIDE DEF q
  <2> QED
    BY <1>1, <2>1, <2>2 DEF SavedInv
<1>3. ASSUME NEW id, Board!Pick(id) PROVE SavedInv'
  <2> DEFINE q == [ page EXCEPT !.point = id, !.pending = Board!NoPoint, !.mine = Board!None ]
  <2>1. page' = Board!Rendered(q)
    BY <1>3 DEF Board!Pick
  <2>2. /\ DOMAIN q = BoardFields /\ q.mine = Board!None /\ q.server = page.server
        /\ q.listed = page.listed /\ q.request = page.request
    BY <1>a DEF BoardFields
  <2> HIDE DEF q
  <2> QED
    BY <1>1, <2>1, <2>2 DEF SavedInv
<1>4. ASSUME NEW k \in Board!Kinds, Board!Type(k) PROVE SavedInv'
  BY <1>4, <1>a DEF Board!Type, SavedInv, BoardFields
<1>5. ASSUME NEW k \in Board!Kinds, Board!Save(k) \/ Board!Fails(k) PROVE SavedInv'
  <2>1. PICK r : /\ r = Board!NoRequest \/ r.area # Board!None
                 /\ DOMAIN page' = BoardFields
                 /\ page'.request = [ page.request EXCEPT ![k] = r ]
                 /\ \A x \in BoardFields \ { "request", "requests" } : page'[x] = page[x]
    <3>1. CASE Board!Save(k)
      <4> DEFINE r == [ area |-> page.area, id |-> Board!Target(k), text |-> page.draft[k] ]
      <4>1. r.area # Board!None
        BY <3>1 DEF Board!Save, Board!CanSend, Board!Shown
      <4>2. page' = [ page EXCEPT !.requests = @ + 1, !.request[k] = r ]
        BY <3>1 DEF Board!Save
      <4> HIDE DEF r
      <4> QED
        BY <1>a, <4>1, <4>2 DEF BoardFields
    <3>2. CASE Board!Fails(k)
      BY <1>a, <3>2 DEF Board!Fails, Board!Done, BoardFields
    <3> QED
      BY <1>5, <3>1, <3>2
  <2> QED
    BY <1>a, <2>1 DEF SavedInv, BoardFields
<1>6. CASE Board!Delete \/ Board!DeleteFails
  BY <1>6, <1>a DEF Board!Delete, Board!DeleteFails, SavedInv, BoardFields
<1>7. CASE Board!DoctrineSaved
  BY <1>7, <1>a DEF Board!DoctrineSaved, Board!Done, SavedInv, BoardFields, Board!Kinds
<1>8. CASE Board!SaluteSent
  BY <1>8, <1>a DEF Board!SaluteSent, Board!Done, SavedInv, BoardFields, Board!Kinds
<1>9. CASE Board!PointSaved
  <2> DEFINE r     == page.request["chokepoint"]
             id    == IF r.id = Board!None THEN page.points + 1 ELSE r.id
             saved == [ id |-> id, area |-> r.area, text |-> r.text ]
             kept  == { point \in page.server.points : point.id # id }
             q     == [ Board!Done("chokepoint") EXCEPT
                          !.server.points = kept \cup { saved },
                          !.points  = IF r.id = Board!None THEN @ + 1 ELSE @,
                          !.pending = saved, !.point = id,
                          !.mine    = IF r.area = page.area THEN id ELSE Board!None ]
  <2>1. page' = Board!Rendered(q) /\ r # Board!NoRequest
    BY <1>9 DEF Board!PointSaved
  <2>2. r.area # Board!None
    BY <2>1 DEF SavedInv, Board!Kinds
  <2>3. /\ DOMAIN q = BoardFields /\ q.listed = page.listed /\ q.area = page.area
        /\ q.pending = saved /\ q.point = id
        /\ q.mine = IF r.area = page.area THEN id ELSE Board!None
        /\ q.request = [ page.request EXCEPT !["chokepoint"] = Board!NoRequest ]
        /\ q.server.points = kept \cup { saved } /\ q.server.areas = page.server.areas
    BY <1>a DEF Board!Done, BoardFields
  <2>4. saved.id = id /\ saved.area = r.area
    OBVIOUS
  <2> HIDE DEF q, saved, kept, id
  <2>5. \A k \in Board!Kinds :
          q.request[k] = Board!NoRequest \/ q.request[k].area # Board!None
    BY <1>a, <2>3 DEF SavedInv
  <2>6. CASE r.area # page.area
    BY <1>1, <2>1, <2>3, <2>5, <2>6 DEF SavedInv
  <2>7. CASE r.area = page.area
    <3>1. q.area \in q.listed.areas /\ Board!IsPending(q, q.point)
      BY <2>2, <2>3, <2>4, <2>7 DEF SavedInv, Board!IsPending
    <3>2. /\ page'.area = page.area /\ page'.point = id /\ page'.mine = id
          /\ page'.server = q.server /\ page'.listed = page.listed
          /\ page'.request = q.request
      BY <1>a, <2>1, <2>3, <2>7, <3>1, RenderStays
    <3> QED
      BY <2>2, <2>3, <2>4, <2>5, <2>7, <3>1, <3>2 DEF SavedInv
  <2> QED
    BY <2>6, <2>7
<1>10. CASE Board!PointDeleted
  <2> DEFINE q == [ page EXCEPT
                      !.server.points = { point \in @ : point.id # page.deleting },
                      !.deleting = Board!None, !.pending = Board!NoPoint,
                      !.point = Board!None, !.mine = Board!None ]
  <2>1. page' = Board!Rendered(q)
    BY <1>10 DEF Board!PointDeleted
  <2>2. /\ DOMAIN q = BoardFields /\ q.mine = Board!None
        /\ q.server.areas = page.server.areas
        /\ q.listed = page.listed /\ q.request = page.request
    BY <1>a DEF BoardFields
  <2> HIDE DEF q
  <2> QED
    BY <1>1, <2>1, <2>2 DEF SavedInv
<1>11. CASE Board!Fetched
  <2> DEFINE q == [ page EXCEPT !.listed = page.server ]
  <2>1. page' = Board!Rendered(q)
    BY <1>11 DEF Board!Fetched
  <2>2. /\ DOMAIN q = BoardFields /\ q.mine = page.mine /\ q.server = page.server
        /\ q.area = page.area /\ q.point = page.point
        /\ q.listed = page.server /\ q.request = page.request
        /\ q.listed.areas \subseteq Board!Areas
    BY <1>a DEF BoardFields
  <2> HIDE DEF q
  <2>3. CASE page.mine = Board!None
    BY <1>1, <2>1, <2>2, <2>3 DEF SavedInv
  <2>4. CASE page.mine # Board!None
    <3>1. q.area \in q.listed.areas /\ Board!Listed(q, q.point)
      BY <2>2, <2>4 DEF SavedInv, Board!Listed, Board!PointsOf
    <3>2. /\ page'.area = page.area /\ page'.point = page.point /\ page'.mine = page.mine
          /\ page'.server = page.server /\ page'.listed = page.server
          /\ page'.request = page.request
      BY <1>a, <2>1, <2>2, <3>1, RenderStays
    <3> QED
      BY <2>4, <3>2, <2>2, <3>1 DEF SavedInv
  <2> QED
    BY <2>3, <2>4
<1>12. CASE Board!Travel
  <2> DEFINE q == [ page EXCEPT !.listed = Board!Nobody, !.mine = Board!None ]
  <2>1. page' = Board!Rendered(q)
    BY <1>12 DEF Board!Travel
  <2>2. /\ DOMAIN q = BoardFields /\ q.mine = Board!None /\ q.server = page.server
        /\ q.listed.areas = {} /\ q.request = page.request
    BY <1>a DEF BoardFields, Board!Nobody
  <2> HIDE DEF q
  <2> QED
    BY <1>1, <2>1, <2>2 DEF SavedInv
<1>13. CASE Board!Colleague
  <2>1. ASSUME NEW a, Board!ColleagueWrites(a) PROVE SavedInv'
    BY <1>a, <2>1 DEF Board!ColleagueWrites, SavedInv, BoardFields
  <2>2. ASSUME NEW id, Board!ColleagueDeletes(id) PROVE SavedInv'
    BY <1>a, <2>2 DEF Board!ColleagueDeletes, SavedInv, BoardFields
  <2>3. CASE Board!SitesChange
    BY <1>a, <2>3 DEF Board!SitesChange, SavedInv, BoardFields
  <2> QED
    BY <1>13, <2>1, <2>2, <2>3 DEF Board!Colleague
<1> QED
  BY <1>2, <1>3, <1>4, <1>5, <1>6, <1>7, <1>8, <1>9, <1>10, <1>11, <1>12, <1>13
  DEF Board!Step
-----------------------------------------------------------------------------
(* What is selected on the map or the globe, and the address that names    *)
(* it: an invariant of the address, what has followed it and what is due.  *)
SelectionFields ==
  { "source", "url", "meta", "back", "selected", "applied", "settled", "timer", "present",
    "loaded", "connected", "show", "wasShown", "ready", "due", "links", "updates" }

(* The address of a page that has followed it, or has just written it, is  *)
(* what the page has selected, but for a signal the globe does not show.   *)
Agrees(p) ==
  p.url \in Selection!Entities =>
    /\ \/ p.url \in p.selected
       \/ p.source = "globe" /\ p.url \in Signals /\ (~p.show \/ ~p.wasShown)
    /\ p.source = "map" => p.selected = { p.url }
Believed(p) ==
  \/ p.applied /\ "search" \notin p.due
  \/ "state" \in p.due /\ p.meta = "fresh"

(* A page that has not followed its address, and will not, cannot.         *)
Waits(p) ==
  ~p.applied /\ p.ready /\ p.due \cap { "search", "data", "ready" } = {}
    => p.url \notin p.present \cup { Selection!Nothing }

(* What the globe forgets and takes up again, and when it will.            *)
Forgets(p) ==
  p.source = "globe" =>
    /\ ~p.show /\ p.due \cap { "search", "selected", "show" } = {}
         => ~p.wasShown /\ p.selected \cap Signals = {}
    /\ p.show /\ ~p.wasShown
         => "show" \in p.due /\ p.selected \cap Signals = {}

Typed(p) ==
  /\ DOMAIN p = SelectionFields
  /\ p.source \in { "map", "globe" } /\ p.present \subseteq Selection!Entities
  /\ p.show \in BOOLEAN /\ p.wasShown \in BOOLEAN /\ p.applied \in BOOLEAN
  /\ p.ready \in BOOLEAN

SelectionInv ==
  /\ Typed(page) /\ Waits(page) /\ Forgets(page)
  /\ Believed(page) => Agrees(page)

LEMMA SelectionInit == Selection!Init => SelectionInv
BY DEF Selection!Init, Selection!Mounted, Selection!Deps, SelectionInv, SelectionFields,
  Typed, Waits, Forgets, Believed, Agrees

(* The effects before the one that follows the address leave it agreeing,  *)
(* and the rest as it was, or write an address that names nothing.         *)
LEMMA EffectsOf ==
  ASSUME SelectionInv, Selection!Render
  PROVE  SelectionInv'
<1> DEFINE now == Selection!Consumed(Selection!GraceWindow(page))
           due == page.due
           fresh == "state" \in due /\ page.meta = "fresh"
           cleared == Selection!ClearStale(now, [ now EXCEPT !.due = {} ])
           hidden == Selection!HideSignals(now, cleared)
<1>1. page' = Selection!FollowAddress(now, hidden)
  BY DEF Selection!Render, Selection!Effects
<1>2. /\ DOMAIN now = SelectionFields /\ now.source = page.source /\ now.url = page.url
      /\ now.selected = page.selected /\ now.present = page.present /\ now.due = due
      /\ now.show = page.show /\ now.wasShown = page.wasShown /\ now.ready = page.ready
      /\ now.applied = ((page.applied /\ "search" \notin due) \/ fresh)
      /\ now.meta # "fresh" \/ ~fresh
  BY DEF Selection!Consumed, Selection!GraceWindow, SelectionInv, Typed, SelectionFields
<1> HIDE DEF now
<1>3. /\ DOMAIN cleared = SelectionFields /\ cleared.source = now.source
      /\ cleared.present = now.present /\ cleared.show = now.show
      /\ cleared.wasShown = now.wasShown /\ cleared.ready = now.ready
      /\ cleared.applied = now.applied
      /\ \/ cleared.url = now.url /\ cleared.selected = now.selected /\ cleared.due = {}
         \/ /\ cleared.url = Selection!Nothing /\ cleared.selected = {}
            /\ now.url # Selection!Nothing => "search" \in cleared.due
  BY <1>2, ViewsAssumption DEF Selection!ClearStale, Selection!Select, Selection!UpdateSelectionRoute,
    Selection!SelectionAssumption, SelectionFields
<1> HIDE DEF cleared
<1>4. /\ DOMAIN hidden = SelectionFields /\ hidden.source = now.source
      /\ hidden.present = now.present /\ hidden.show = now.show /\ hidden.ready = now.ready
      /\ hidden.applied = now.applied
      /\ \/ /\ now.source = "map" \/ due \cap { "search", "selected", "show" } = {}
            /\ hidden.url = cleared.url /\ hidden.selected = cleared.selected
            /\ hidden.wasShown = now.wasShown /\ hidden.due = cleared.due
         \/ /\ now.source = "map"
            /\ hidden.url = Selection!Nothing /\ hidden.selected = {}
            /\ hidden.wasShown = now.wasShown
            /\ cleared.url # Selection!Nothing \/ "search" \in cleared.due
                 => "search" \in hidden.due
         \/ /\ now.source = "globe" /\ due \cap { "search", "selected", "show" } # {}
            /\ hidden.url = cleared.url /\ hidden.wasShown = now.show
            /\ cleared.due \subseteq hidden.due
            /\ hidden.due \subseteq cleared.due \cup { "selected" }
            /\ ~now.show => /\ hidden.selected = cleared.selected \ Signals
                            /\ now.selected \cap Signals # {} => "selected" \in hidden.due
            /\ now.show => cleared.selected \subseteq hidden.selected
            /\ now.show /\ ~now.wasShown /\ now.selected \cap Signals = {} /\ now.url \in Signals
                 => now.url \in hidden.selected
  <2>1. CASE now.source = "map"
    BY <1>2, <1>3, <2>1, ViewsAssumption DEF Selection!HideSignals, Selection!HideOnMap, Selection!Select,
      Selection!UpdateSelectionRoute, Selection!SelectionAssumption, SelectionFields
  <2>2. CASE now.source = "globe"
    BY <1>2, <1>3, <2>2 DEF Selection!HideSignals, Selection!HideOnGlobe, SelectionFields
  <2> QED
    BY <1>2, <2>1, <2>2 DEF SelectionInv, Typed
<1> HIDE DEF hidden
<1>5. /\ DOMAIN page' = SelectionFields /\ page'.source = now.source
      /\ page'.present = now.present /\ page'.show = now.show /\ page'.ready = now.ready
      /\ page'.url = hidden.url /\ page'.wasShown = hidden.wasShown
      /\ hidden.due \subseteq page'.due
      /\ page'.due \subseteq hidden.due \cup { "selected" }
      /\ \/ /\ page'.applied = now.applied /\ page'.selected = hidden.selected
            /\ \/ now.due \cap { "search", "data", "ready" } = {}
               \/ ~now.ready \/ now.applied
               \/ now.url \notin now.present \cup { Selection!Nothing }
         \/ /\ page'.applied = TRUE
            /\ page'.selected = { now.url } \cap Selection!Entities
            /\ page'.selected # now.selected => "selected" \in page'.due
  BY <1>1, <1>2, <1>3, <1>4 DEF Selection!FollowAddress, SelectionFields
<1>6. Typed(page')
  BY <1>2, <1>3, <1>4, <1>5 DEF SelectionInv, Typed
<1>7. Waits(page')
  BY <1>2, <1>3, <1>4, <1>5 DEF SelectionInv, Typed, Waits
<1>8. Forgets(page')
  BY <1>2, <1>3, <1>4, <1>5 DEF SelectionInv, Typed, Forgets
<1>9. Believed(page') => Agrees(page')
  <2> SUFFICES ASSUME Believed(page'), page'.url \in Selection!Entities PROVE Agrees(page')
    BY DEF Agrees
  <2>1. page'.url # Selection!Nothing
    BY ViewsAssumption DEF Selection!SelectionAssumption
  <2>2. /\ cleared.url = now.url /\ cleared.selected = now.selected /\ cleared.due = {}
        /\ hidden.url = now.url /\ page'.url = now.url
    BY <1>3, <1>4, <1>5, <2>1
  <2>3. page'.applied
    BY <1>4, <1>5, <2>1, <2>2 DEF Believed
  <2>4. CASE page'.selected = { now.url } \cap Selection!Entities
    BY <2>2, <2>4 DEF Agrees
  <2>5. CASE page'.applied = now.applied /\ page'.selected = hidden.selected
    <3>1. Agrees(page)
      BY <1>2, <2>3, <2>5 DEF SelectionInv, Believed
    <3>2. CASE now.source = "map"
      BY <1>2, <1>4, <1>5, <2>1, <2>2, <2>5, <3>1, <3>2 DEF Agrees
    <3>3. CASE now.source = "globe"
      BY <1>2, <1>4, <1>5, <2>2, <2>5, <3>1, <3>3 DEF Agrees, SelectionInv, Typed, Forgets
    <3> QED
      BY <1>2, <3>2, <3>3 DEF SelectionInv, Typed
  <2> QED
    BY <1>5, <2>4, <2>5
<1> QED
  BY <1>6, <1>7, <1>8, <1>9 DEF SelectionInv

(* What arrives is due, and no other effect is.                            *)
LEMMA Arrives ==
  ASSUME SelectionInv, NEW dep \in { "data", "ready", "connected", "settled" },
         DOMAIN page' = SelectionFields, page'.due = page.due \cup { dep },
         page'.present \subseteq Selection!Entities, page'.ready \in BOOLEAN,
         dep = "data" \/ page'.present = page.present,
         dep = "ready" \/ page'.ready = page.ready,
         page'.source = page.source, page'.url = page.url, page'.meta = page.meta,
         page'.selected = page.selected, page'.applied = page.applied,
         page'.show = page.show, page'.wasShown = page.wasShown
  PROVE  SelectionInv'
<1>1. Typed(page')
  BY DEF SelectionInv, Typed
<1>2. Waits(page')
  BY DEF SelectionInv, Waits
<1>3. Forgets(page')
  <2>1. /\ page'.due \cap { "search", "selected", "show" }
             = page.due \cap { "search", "selected", "show" }
        /\ "show" \in page.due => "show" \in page'.due
    OBVIOUS
  <2> QED
    BY <2>1 DEF SelectionInv, Forgets
<1>4. Believed(page') => Agrees(page')
  BY DEF SelectionInv, Believed, Agrees
<1> QED
  BY <1>1, <1>2, <1>3, <1>4 DEF SelectionInv

LEMMA SelectionStep == SelectionInv /\ Selection!Step => SelectionInv'
<1> SUFFICES ASSUME SelectionInv, Selection!Step PROVE SelectionInv'
  OBVIOUS
<1> USE DEF SelectionInv, Typed, Waits, Forgets, Believed, Agrees, SelectionFields
<1>1. CASE Selection!Render
  BY <1>1, EffectsOf
<1>2. CASE Selection!Back
  BY <1>2 DEF Selection!Back
<1>3. CASE Selection!ToggleSignals
  <2>1. /\ DOMAIN page' = SelectionFields /\ page.due = {} /\ page'.due = { "show" }
        /\ page'.show = ~page.show
        /\ \A x \in SelectionFields \ { "show", "due" } : page'[x] = page[x]
    BY <1>3 DEF Selection!ToggleSignals
  <2>2. Waits(page')
    BY <2>1
  <2>3. Forgets(page')
    BY <2>1
  <2>4. Believed(page') => Agrees(page')
    BY <2>1
  <2> QED
    BY <2>1, <2>2, <2>3, <2>4
<1>4. CASE Selection!BecomeReady \/ Selection!SwitchStyle
  <2>1. /\ DOMAIN page' = SelectionFields /\ page'.due = page.due \cup { "ready" }
        /\ page'.ready \in BOOLEAN
        /\ \A x \in SelectionFields \ { "ready", "due", "updates" } : page'[x] = page[x]
    BY <1>4 DEF Selection!BecomeReady, Selection!SwitchStyle, Selection!Updated
  <2> QED
    BY <2>1, Arrives
<1>5. CASE Selection!Connect \/ Selection!Disconnect
  <2>1. /\ DOMAIN page' = SelectionFields /\ page'.due = page.due \cup { "connected" }
        /\ \A x \in SelectionFields \ { "connected", "due", "updates" } : page'[x] = page[x]
    <3>1. CASE Selection!Connect
      BY <3>1 DEF Selection!Connect
    <3>2. CASE Selection!Disconnect
      BY <3>2 DEF Selection!Disconnect, Selection!Updated
    <3> QED
      BY <1>5, <3>1, <3>2
  <2> QED
    BY <2>1, Arrives
<1>10. CASE Selection!GraceEnds
  <2>1. /\ DOMAIN page' = SelectionFields /\ page'.due = page.due \cup { "settled" }
        /\ \A x \in SelectionFields \ { "settled", "timer", "due" } : page'[x] = page[x]
    BY <1>10 DEF Selection!GraceEnds
  <2> QED
    BY <2>1, Arrives
<1>6. ASSUME NEW e \in Selection!Entities \cup { Selection!Nothing }, Selection!Click(e)
      PROVE  SelectionInv'
  <2>1. /\ page.due = {} /\ page' = Selection!Select(page, e)
        /\ e \in Signals => page.show
    BY <1>6 DEF Selection!Click
  <2>2. /\ DOMAIN page' = SelectionFields
        /\ \A x \in { "source", "present", "applied", "show", "wasShown", "ready" } :
             page'[x] = page[x]
        /\ page'.selected = { e } \cap Selection!Entities /\ page'.url = e
        /\ "data" \notin page'.due /\ "ready" \notin page'.due
        /\ page'.selected = page.selected \/ "selected" \in page'.due
        /\ \/ page'.url = page.url /\ "search" \notin page'.due
           \/ "search" \in page'.due
    BY <2>1 DEF Selection!Select, Selection!UpdateSelectionRoute
  <2>3. Typed(page') /\ Waits(page')
    BY <2>2, <2>1
  <2>4. Forgets(page')
    BY <2>1, <2>2
  <2>5. Agrees(page')
    BY <2>2
  <2> QED
    BY <2>3, <2>4, <2>5
<1>7. ASSUME NEW e \in Selection!Entities \cup { Selection!Nothing }, Selection!FollowLink(e)
      PROVE  SelectionInv'
  BY <1>7 DEF Selection!FollowLink
<1>8. ASSUME NEW e \in Selection!Entities, Selection!Change(e) PROVE SelectionInv'
  <2>1. /\ DOMAIN page' = SelectionFields /\ page'.due = page.due \cup { "data" }
        /\ page'.present \subseteq Selection!Entities
        /\ \A x \in SelectionFields \ { "present", "due", "updates" } : page'[x] = page[x]
    BY <1>8 DEF Selection!Change, Selection!Updated
  <2> QED
    BY <2>1, Arrives
<1>9. ASSUME NEW kind, NEW es \in SUBSET Selection!Entities, Selection!Load(kind, es)
      PROVE  SelectionInv'
  <2>1. /\ DOMAIN page' = SelectionFields /\ page'.due = page.due \cup { "data" }
        /\ page'.present \subseteq Selection!Entities
        /\ \A x \in SelectionFields \ { "present", "due", "loaded" } : page'[x] = page[x]
    BY <1>9 DEF Selection!Load
  <2> QED
    BY <2>1, Arrives
<1>11. Sites \subseteq Selection!Entities /\ Assets \subseteq Selection!Entities
  BY DEF Selection!Entities
<1> QED
  BY <1>1, <1>2, <1>3, <1>4, <1>5, <1>6, <1>7, <1>8, <1>9, <1>10, <1>11 DEF Selection!Step
LEMMA Follows == SelectionInv => Selection!AddressIsFollowed
BY DEF SelectionInv, Typed, Waits, Forgets, Believed, Agrees, Selection!AddressIsFollowed, Selection!Quiet
-----------------------------------------------------------------------------
(* The globe: what a layer was drawn from changes only with something its  *)
(* effect depends on, so a layer is current or has something due.          *)
GlobeFields ==
  { "engine", "watched", "near", "data", "on", "selected", "evidence", "drawn", "outline",
    "due", "faults", "updates" }

(* A layer, and an outline, that agree with the data and the selection.    *)
Current(p, layer) ==
  IF layer \in { "signal", "trail" }
  THEN (layer = "signal" => Globe!Visible(p, layer))
         => (p.drawn[layer] # "absent" <=> Globe!InData(p, layer))
  ELSE p.drawn[layer] = IF ~Globe!InData(p, layer) THEN "absent"
                        ELSE IF Globe!Visible(p, layer) THEN "shown" ELSE "hidden"
Marked(p, e) == p.drawn[e] # "absent" => p.outline[e] = Globe!MarkOf(p, e)

(* Once the viewer is there, what is not current has something due.        *)
GlobeInv ==
  /\ DOMAIN page = GlobeFields
  /\ page.engine = "ready" =>
       /\ \A layer \in page.watched :
            page.due \cap Globe!DepsOf(layer) = {} => Current(page, layer)
       /\ \A e \in (Globe!Picked \cap page.watched) \ { "signal" } :
            page.due \cap Globe!OutlineDeps(e) = {} => Marked(page, e)

LEMMA GlobeInit == Globe!Init => GlobeInv
BY DEF Globe!Init, GlobeInv, GlobeFields

(* A change that is due to every layer it concerns.                        *)
LEMMA GlobeChanges ==
  ASSUME GlobeInv, page.engine = "ready", NEW dep,
         DOMAIN page' = GlobeFields, page'.due = page.due \cup { dep },
         page'.watched = page.watched, page'.drawn = page.drawn,
         page'.outline = page.outline,
         \A layer : dep \notin Globe!DepsOf(layer) =>
           /\ Globe!InData(page', layer) = Globe!InData(page, layer)
           /\ layer # "trail" => Globe!Visible(page', layer) = Globe!Visible(page, layer),
         \A e : dep \notin Globe!OutlineDeps(e) => Globe!MarkOf(page', e) = Globe!MarkOf(page, e)
  PROVE  GlobeInv'
<1>1. ASSUME NEW layer \in page.watched, page'.due \cap Globe!DepsOf(layer) = {}
      PROVE  Current(page', layer)
  <2>1. page.due \cap Globe!DepsOf(layer) = {} /\ dep \notin Globe!DepsOf(layer)
    BY <1>1
  <2> QED
    BY <2>1 DEF GlobeInv, Current
<1>2. ASSUME NEW e \in (Globe!Picked \cap page.watched) \ { "signal" },
             page'.due \cap Globe!OutlineDeps(e) = {}
      PROVE  Marked(page', e)
  <2>1. page.due \cap Globe!OutlineDeps(e) = {} /\ dep \notin Globe!OutlineDeps(e)
    BY <1>2
  <2> QED
    BY <2>1 DEF GlobeInv, Marked
<1> QED
  BY <1>1, <1>2 DEF GlobeInv

(* Before the viewer is there nothing is promised.                         *)
LEMMA GlobeAbsent ==
  ASSUME DOMAIN page' = GlobeFields, page'.engine # "ready" PROVE GlobeInv'
BY DEF GlobeInv

LEMMA GlobeRender == ASSUME GlobeInv, Globe!Render PROVE GlobeInv'
<1>1. /\ page.engine = "ready" /\ DOMAIN page' = GlobeFields /\ page'.watched = page.watched
      /\ page'.drawn = [ layer \in page.watched |->
                           Globe!Drawn(page, layer, page.drawn[layer]) ]
      /\ page'.outline = [ e \in Globe!Picked \cap page.watched |->
           Globe!Outline(page, e, Globe!Drawn(page, e, page.drawn[e]), page.outline[e]) ]
      /\ page'.data = page.data /\ page'.on = page.on /\ page'.selected = page.selected
      /\ page'.near = page.near /\ page'.evidence = page.evidence
  BY DEF Globe!Render, GlobeInv, GlobeFields
<1>2. \A layer : /\ Globe!InData(page', layer) = Globe!InData(page, layer)
                 /\ Globe!Visible(page', layer) = Globe!Visible(page, layer)
                 /\ Globe!MarkOf(page', layer) = Globe!MarkOf(page, layer)
  BY <1>1 DEF Globe!InData, Globe!Visible, Globe!VisibleSignal, Globe!MarkOf
<1>3. ASSUME NEW layer \in page.watched PROVE Current(page', layer)
  <2>1. page'.drawn[layer] = Globe!Drawn(page, layer, page.drawn[layer])
    BY <1>1
  <2>2. page.due \cap Globe!DepsOf(layer) = {} => Current(page, layer)
    BY <1>1 DEF GlobeInv
  <2>3. CASE layer = "trail"
    BY <1>2, <2>1, <2>2, <2>3 DEF Globe!Drawn, Globe!TrailDrawn, Current
  <2>4. CASE layer = "signal"
    BY <1>2, <2>1, <2>2, <2>4 DEF Globe!Drawn, Globe!SignalDrawn, Current
  <2>5. CASE layer \notin { "trail", "signal" }
    BY <1>2, <2>1, <2>2, <2>5 DEF Globe!Drawn, Current
  <2> QED
    BY <2>3, <2>4, <2>5
<1>4. ASSUME NEW e \in (Globe!Picked \cap page.watched) \ { "signal" } PROVE Marked(page', e)
  <2>1. /\ page'.drawn[e] = Globe!Drawn(page, e, page.drawn[e])
        /\ page'.outline[e] = Globe!Outline(page, e, page'.drawn[e], page.outline[e])
    BY <1>1
  <2>2. CASE page.due \cap Globe!OutlineDeps(e) # {}
    BY <1>2, <2>1, <2>2 DEF Globe!Outline, Marked
  <2>3. CASE page.due \cap Globe!OutlineDeps(e) = {}
    <3>1. Marked(page, e)
      BY <1>1, <2>3 DEF GlobeInv
    <3>2. page.due \cap Globe!DepsOf(e) = {}
      <4>1. Globe!DepsOf(e) = { "ready", e }
        BY DEF Globe!DepsOf, Globe!Needs, Globe!Mounting, Globe!Showing, Globe!Picked
      <4> QED
        BY <2>3, <4>1 DEF Globe!OutlineDeps
    <3>3. page'.drawn[e] = page.drawn[e]
      BY <2>1, <3>2 DEF Globe!Drawn, Globe!Picked
    <3> QED
      BY <1>2, <2>1, <2>3, <3>1, <3>3 DEF Globe!Outline, Marked
  <2> QED
    BY <2>2, <2>3
<1> QED
  BY <1>1, <1>3, <1>4 DEF GlobeInv

LEMMA GlobeSelected ==
  ASSUME GlobeInv, NEW e, page' = Globe!Selected(page, e) PROVE GlobeInv'
<1>1. CASE e = page.selected
  BY <1>1 DEF Globe!Selected, GlobeInv, Current, Marked, Globe!InData, Globe!Visible, Globe!VisibleSignal, Globe!MarkOf
<1>2. CASE e # page.selected
  <2> DEFINE p == [ page EXCEPT !.selected = e, !.evidence = FALSE ]
  <2>1. page' = Globe!Changed(p, "selected")
    BY <1>2 DEF Globe!Selected
  <2>2. /\ DOMAIN p = GlobeFields /\ p.selected = e
        /\ \A x \in GlobeFields \ { "selected", "evidence" } : p[x] = page[x]
    BY DEF GlobeInv, GlobeFields
  <2> HIDE DEF p
  <2>3. CASE page.engine # "ready"
    BY <2>1, <2>2, <2>3, GlobeAbsent DEF Globe!Changed, GlobeFields
  <2>4. CASE page.engine = "ready"
    <3>1. /\ DOMAIN page' = GlobeFields /\ page'.due = page.due \cup { "selected" }
          /\ \A x \in GlobeFields \ { "selected", "evidence", "due" } : page'[x] = page[x]
      BY <2>1, <2>2, <2>4 DEF Globe!Changed, GlobeFields
    <3>2. \A layer : "selected" \notin Globe!DepsOf(layer) =>
            /\ Globe!InData(page', layer) = Globe!InData(page, layer)
            /\ Globe!Visible(page', layer) = Globe!Visible(page, layer)
      <4>1. "selected" \in Globe!DepsOf("signal")
        BY DEF Globe!DepsOf, Globe!VisibleSignalDeps
      <4> QED
        BY <3>1, <4>1 DEF Globe!InData, Globe!Visible, GlobeFields
    <3>3. \A x : "selected" \in Globe!OutlineDeps(x)
      BY DEF Globe!OutlineDeps
    <3> QED
      BY <2>4, <3>1, <3>2, <3>3, GlobeChanges DEF GlobeFields
  <2> QED
    BY <2>3, <2>4
<1> QED
  BY <1>1, <1>2

LEMMA GlobeStep == GlobeInv /\ Globe!Step => GlobeInv'
<1> SUFFICES ASSUME GlobeInv, Globe!Step PROVE GlobeInv'
  OBVIOUS
<1>1. CASE Globe!Render
  BY <1>1, GlobeRender
<1>2. CASE Globe!Start
  <2>1. page'.due = { "ready" } /\ DOMAIN page' = GlobeFields
    BY <1>2 DEF Globe!Start, GlobeInv, GlobeFields
  <2>2. \A x : "ready" \in Globe!DepsOf(x) /\ "ready" \in Globe!OutlineDeps(x)
    BY DEF Globe!DepsOf, Globe!OutlineDeps
  <2> QED
    BY <2>1, <2>2 DEF GlobeInv
<1>3. CASE Globe!StartFails \/ Globe!RetryEngine
  BY <1>3, GlobeAbsent DEF Globe!StartFails, Globe!RetryEngine, GlobeInv, GlobeFields
<1>4. CASE Globe!EvidenceArrives
  <2> DEFINE p == [ page EXCEPT !.evidence = TRUE ]
  <2>1. page' = Globe!Changed(p, "evidence")
    BY <1>4 DEF Globe!EvidenceArrives
  <2>2. /\ DOMAIN p = GlobeFields
        /\ \A x \in GlobeFields \ { "evidence" } : p[x] = page[x]
    BY DEF GlobeInv, GlobeFields
  <2> HIDE DEF p
  <2>3. CASE page.engine # "ready"
    BY <2>1, <2>2, <2>3, GlobeAbsent DEF Globe!Changed, GlobeFields
  <2>4. CASE page.engine = "ready"
    <3>1. /\ DOMAIN page' = GlobeFields /\ page'.due = page.due \cup { "evidence" }
          /\ \A x \in GlobeFields \ { "evidence", "due" } : page'[x] = page[x]
      BY <2>1, <2>2, <2>4 DEF Globe!Changed, GlobeFields
    <3>2. \A layer : /\ Globe!InData(page', layer) = Globe!InData(page, layer)
                     /\ Globe!Visible(page', layer) = Globe!Visible(page, layer)
      BY <3>1 DEF Globe!InData, Globe!Visible, Globe!VisibleSignal, GlobeFields
    <3>3. \A x : "evidence" \in Globe!OutlineDeps(x)
      BY DEF Globe!OutlineDeps
    <3> QED
      BY <2>4, <3>1, <3>2, <3>3, GlobeChanges DEF GlobeFields
  <2> QED
    BY <2>3, <2>4
<1>5. ASSUME NEW d, Globe!DataChanges(d) PROVE GlobeInv'
  <2> DEFINE p == [ page EXCEPT !.updates = @ + 1,
                      !.data = IF d \in @ THEN @ \ { d } ELSE @ \cup { d } ]
  <2>1. page' = Globe!Changed(p, d)
    BY <1>5 DEF Globe!DataChanges
  <2>2. /\ DOMAIN p = GlobeFields
        /\ p.data = IF d \in page.data THEN page.data \ { d } ELSE page.data \cup { d }
        /\ \A x \in GlobeFields \ { "data", "updates" } : p[x] = page[x]
    BY DEF GlobeInv, GlobeFields
  <2> HIDE DEF p
  <2>3. CASE page.engine # "ready"
    BY <2>1, <2>2, <2>3, GlobeAbsent DEF Globe!Changed, GlobeFields
  <2>4. CASE page.engine = "ready"
    <3>1. /\ DOMAIN page' = GlobeFields /\ page'.due = page.due \cup { d }
          /\ page'.data = IF d \in page.data THEN page.data \ { d } ELSE page.data \cup { d }
          /\ \A x \in GlobeFields \ { "data", "updates", "due" } : page'[x] = page[x]
      BY <2>1, <2>2, <2>4 DEF Globe!Changed, GlobeFields
    <3>2. ASSUME NEW layer, d \notin Globe!DepsOf(layer)
          PROVE  /\ Globe!InData(page', layer) = Globe!InData(page, layer)
                 /\ Globe!Visible(page', layer) = Globe!Visible(page, layer)
      <4>1. d \notin Globe!Needs(layer)
        BY <3>2 DEF Globe!DepsOf
      <4>2. Globe!Needs(layer) \subseteq page'.data <=> Globe!Needs(layer) \subseteq page.data
        BY <3>1, <4>1
      <4> QED
        BY <3>1, <4>2 DEF Globe!InData, Globe!Visible, Globe!VisibleSignal, GlobeFields
    <3>3. \A x : Globe!MarkOf(page', x) = Globe!MarkOf(page, x)
      BY <3>1 DEF Globe!MarkOf, GlobeFields
    <3> QED
      BY <2>4, <3>1, <3>2, <3>3, GlobeChanges DEF GlobeFields
  <2> QED
    BY <2>3, <2>4
<1>6. ASSUME NEW t, Globe!Toggle(t) PROVE GlobeInv'
  <2> DEFINE p == [ page EXCEPT !.on = IF t \in @ THEN @ \ { t } ELSE @ \cup { t } ]
  <2>1. page' = Globe!Changed(p, t)
    BY <1>6 DEF Globe!Toggle
  <2>2. /\ DOMAIN p = GlobeFields
        /\ p.on = IF t \in page.on THEN page.on \ { t } ELSE page.on \cup { t }
        /\ \A x \in GlobeFields \ { "on" } : p[x] = page[x]
    BY DEF GlobeInv, GlobeFields
  <2> HIDE DEF p
  <2>3. CASE page.engine # "ready"
    BY <2>1, <2>2, <2>3, GlobeAbsent DEF Globe!Changed, GlobeFields
  <2>4. CASE page.engine = "ready"
    <3>1. /\ DOMAIN page' = GlobeFields /\ page'.due = page.due \cup { t }
          /\ page'.on = IF t \in page.on THEN page.on \ { t } ELSE page.on \cup { t }
          /\ \A x \in GlobeFields \ { "on", "due" } : page'[x] = page[x]
      BY <2>1, <2>2, <2>4 DEF Globe!Changed, GlobeFields
    <3>2. ASSUME NEW layer, t \notin Globe!DepsOf(layer)
          PROVE  /\ Globe!InData(page', layer) = Globe!InData(page, layer)
                 /\ layer # "trail" =>
                      Globe!Visible(page', layer) = Globe!Visible(page, layer)
      <4>1. t \notin Globe!Mounting(layer)
        BY <3>2 DEF Globe!DepsOf
      <4>2. Globe!Mounting(layer) \subseteq page'.on <=> Globe!Mounting(layer) \subseteq page.on
        BY <3>1, <4>1
      <4>3. ASSUME layer # "trail" PROVE t \notin Globe!Showing(layer)
        BY <3>2, <4>3 DEF Globe!DepsOf
      <4>4. ASSUME layer # "trail"
            PROVE  Globe!Showing(layer) \subseteq page'.on <=> Globe!Showing(layer) \subseteq page.on
        BY <3>1, <4>3, <4>4
      <4>5. layer = "heatmap" => ("isCloseView" \in page'.on <=> "isCloseView" \in page.on)
        BY <3>1, <3>2 DEF Globe!DepsOf
      <4> QED
        BY <3>1, <4>2, <4>4, <4>5 DEF Globe!InData, Globe!Visible, Globe!VisibleSignal, GlobeFields
    <3>3. \A x : Globe!MarkOf(page', x) = Globe!MarkOf(page, x)
      BY <3>1 DEF Globe!MarkOf, GlobeFields
    <3> QED
      BY <2>4, <3>1, <3>2, <3>3, GlobeChanges DEF GlobeFields
  <2> QED
    BY <2>3, <2>4
<1>7. ASSUME NEW e, Globe!Select(e) PROVE GlobeInv'
  BY <1>7, GlobeSelected DEF Globe!Select
<1>8. ASSUME NEW stack, Globe!Click(stack) PROVE GlobeInv'
  BY <1>8, GlobeSelected DEF Globe!Click
<1> QED
  BY <1>1, <1>2, <1>3, <1>4, <1>5, <1>6, <1>7, <1>8 DEF Globe!Step

LEMMA GlobeFollows == GlobeInv => Globe!GlobeIsCurrent
BY DEF GlobeInv, Current, Marked, Globe!GlobeIsCurrent, Globe!Quiet
-----------------------------------------------------------------------------
(* Any set of natural numbers with a member has a least one.               *)
LEMMA Least == ASSUME NEW S \in SUBSET Nat, S # {} PROVE \E x \in S : \A y \in S : x <= y
<1> DEFINE R == OpToRel(<, Nat)
<1>1. IsWellFoundedOn(R, Nat)
  BY NatLessThanWellFounded
<1>2. R = { ss \in Nat \X Nat : ss[1] < ss[2] }
  BY DEF OpToRel
<1> HIDE DEF R
<1>3. \E x \in S : \A y \in S : ~ (<<y, x>> \in R)
  BY <1>1, WFMin
<1>4. \A x, y \in Nat : <<y, x>> \in R <=> y < x
  BY <1>2
<1>5. PICK x \in S : \A y \in S : ~ (<<y, x>> \in R)
  BY <1>3
<1>6. ASSUME NEW y \in S PROVE x <= y
  <2>1. x \in Nat /\ y \in Nat
    OBVIOUS
  <2>2. ~ (y < x)
    BY <1>4, <1>5, <2>1
  <2> QED
    BY <2>1, <2>2
<1> QED
  BY <1>6

(* The live feed: the newest signals are the highest numbers, as many as   *)
(* are kept, and every connection is covered by its snapshot and stream.   *)
FeedFields ==
  { "phase", "seen", "seed", "since", "owed", "got", "connection", "baseline", "delay",
    "snapshots", "stored", "faults", "visits" }
SnapshotFields == { "status", "fetching", "asked", "upTo" }

FeedTyped(p) ==
  /\ DOMAIN p = FeedFields
  /\ { p.seen, p.seed, p.since, p.connection, p.stored, p.visits } \subseteq Nat
  /\ p.owed \subseteq 1..p.stored /\ p.got \subseteq 1..p.stored
  /\ DOMAIN p.snapshots = Feed!Connections
  /\ \A c \in Feed!Connections :
       /\ DOMAIN p.snapshots[c] = SnapshotFields
       /\ p.snapshots[c].asked \in Nat /\ p.snapshots[c].upTo \in 0..p.stored

(* Of the signals stored since there were n, the newest are held or owed.  *)
HeldSince(p, n) ==
  \A s \in 1..p.stored : s > n /\ p.stored - s < Limit => s \in p.owed \cup p.got

(* At the first visit every connection asks for a snapshot of its own, and *)
(* the stream owes what it may leave out.                                  *)
Covered(p) ==
  p.visits = 1 /\ p.phase = "open" /\ Feed!Current(p) =>
    /\ Feed!Snapshot(p).fetching => HeldSince(p, Feed!Snapshot(p).asked)
    /\ Feed!Snapshot(p).status \in { "ok", "stale" } => HeldSince(p, Feed!Snapshot(p).upTo)
Unasked(p) ==
  p.visits = 0 \/ (p.visits = 1 /\ p.phase # "off") =>
    /\ p.visits = 0 => p.phase = "off" /\ p.connection = 0
    /\ \A c \in Feed!Connections :
         c > p.connection => p.snapshots[c].status = "none" /\ ~p.snapshots[c].fetching

FeedInv == FeedTyped(page) /\ Covered(page) /\ Unasked(page)

LEMMA FeedInit == Feed!Init => FeedInv
BY DEF Feed!Init, Feed!Off, Feed!NoSnapshot, Feed!Connections, FeedInv, FeedTyped, FeedFields,
  SnapshotFields, Covered, Unasked

LEMMA LimitIsPositive == Limit \in Nat /\ Limit >= 1
BY ViewsAssumption DEF Feed!FeedAssumption

LEMMA FewerNewer ==
  ASSUME NEW n \in Nat, NEW signals \in SUBSET (1..n), NEW s \in 1..n
  PROVE  Feed!Cardinality({ t \in signals : t > s }) <= n - s
<1>1. Feed!Cardinality({ t \in signals : t > s }) = Cardinality({ t \in signals : t > s })
  BY DEF Feed!Cardinality, Cardinality
<1>2. IsFiniteSet(s + 1..n) /\ Cardinality(s + 1..n) <= n - s
  <2>1. s + 1 \in Int /\ n \in Int
    OBVIOUS
  <2>2. IsFiniteSet(s + 1..n) /\ Cardinality(s + 1..n) = IF s + 1 > n THEN 0 ELSE n - (s + 1) + 1
    BY <2>1, FS_Interval
  <2> QED
    BY <2>1, <2>2
<1>3. { t \in signals : t > s } \subseteq s + 1..n
  <2>1. ASSUME NEW t \in signals, t > s PROVE t \in s + 1..n
    <3>1. t \in 1..n
      OBVIOUS
    <3> QED
      BY <2>1, <3>1
  <2> QED
    BY <2>1
<1>4. Cardinality({ t \in signals : t > s }) \in Nat /\ Cardinality(s + 1..n) \in Nat
  BY <1>2, <1>3, FS_Subset, FS_CardinalityType
<1>5. Cardinality({ t \in signals : t > s }) <= Cardinality(s + 1..n)
  BY <1>2, <1>3, FS_Subset
<1> QED
  BY <1>1, <1>2, <1>4, <1>5

LEMMA CountIsNat ==
  ASSUME NEW n \in Nat, NEW signals \in SUBSET (1..n), NEW s
  PROVE  Feed!Cardinality({ t \in signals : t > s }) \in Nat
<1>1. Feed!Cardinality({ t \in signals : t > s }) = Cardinality({ t \in signals : t > s })
  BY DEF Feed!Cardinality, Cardinality
<1>2. IsFiniteSet(1..n)
  BY FS_Interval
<1>3. IsFiniteSet({ t \in signals : t > s })
  BY <1>2, FS_Subset
<1> QED
  BY <1>1, <1>3, FS_CardinalityType

(* The newest of the signals, and of any that hold the newest of them.     *)
LEMMA NewestHeld ==
  ASSUME NEW n \in Nat, NEW signals \in SUBSET (1..n),
         \A s \in 1..n : n - s < Limit => s \in signals
  PROVE  Feed!Newest(signals) = { s \in 1..n : n - s < Limit }
<1>1. ASSUME NEW s \in 1..n, n - s < Limit PROVE s \in Feed!Newest(signals)
  <2>1. Feed!Cardinality({ t \in signals : t > s }) <= n - s
    BY FewerNewer
  <2>2. Feed!Cardinality({ t \in signals : t > s }) \in Nat
    BY CountIsNat
  <2> QED
    BY <1>1, <2>1, <2>2, LimitIsPositive DEF Feed!Newest
<1>2. ASSUME NEW s \in signals, n - s >= Limit PROVE s \notin Feed!Newest(signals)
  <2> DEFINE newer == { t \in signals : t > s }
             top == (n - Limit) + 1..n
  <2>1. IsFiniteSet(top) /\ Cardinality(top) = Limit
    BY LimitIsPositive, FS_Interval
  <2>2. top \subseteq newer
    BY <1>2, LimitIsPositive
  <2>3. IsFiniteSet(1..n)
    BY FS_Interval
  <2>4. IsFiniteSet(newer)
    BY <2>3, FS_Subset
  <2>5. Cardinality(top) <= Cardinality(newer) /\ Cardinality(newer) \in Nat
    BY <2>2, <2>4, FS_Subset, FS_CardinalityType
  <2>6. Feed!Cardinality(newer) = Cardinality(newer)
    BY DEF Feed!Cardinality, Cardinality
  <2>7. ~(Feed!Cardinality(newer) < Limit)
    BY <2>1, <2>5, <2>6, LimitIsPositive
  <2> QED
    BY <2>7 DEF Feed!Newest
<1>3. \A s \in signals : n - s < Limit \/ n - s >= Limit
  BY LimitIsPositive
<1>4. Feed!Newest(signals) \subseteq signals
  BY DEF Feed!Newest
<1> QED
  BY <1>1, <1>2, <1>3, <1>4

LEMMA NewestOfAll ==
  ASSUME NEW n \in Nat PROVE Feed!Newest(1..n) = { s \in 1..n : n - s < Limit }
BY NewestHeld

LEMMA LatestIsNat ==
  ASSUME NEW n \in Nat PROVE Feed!LatestOf(Feed!Newest(1..n)) \in Nat
<1>1. CASE n = 0
  BY <1>1, NewestOfAll DEF Feed!LatestOf
<1>2. CASE n # 0
  <2>1. n \in Feed!Newest(1..n) /\ \A t \in Feed!Newest(1..n) : t <= n
    BY <1>2, NewestOfAll, LimitIsPositive
  <2> QED
    BY <2>1, NewestOfAll DEF Feed!LatestOf
<1> QED
  BY <1>1, <1>2

LEMMA FeedShows == FeedInv => Feed!FeedIsComplete
<1> SUFFICES ASSUME FeedInv, page.phase = "open", page.owed = {}, page.visits = 1,
                    Feed!Succeeded(page), ~Feed!Snapshot(page).fetching
             PROVE  Feed!Shown = Feed!Newest(1..page.stored)
  BY DEF Feed!FeedIsComplete
<1> DEFINE u == Feed!Snapshot(page).upTo
           held == Feed!Newest(1..u) \cup page.got
<1>1. u \in 0..page.stored /\ page.stored \in Nat /\ page.got \subseteq 1..page.stored
  BY DEF FeedInv, FeedTyped, Feed!Succeeded, Feed!Current, Feed!Snapshot
<1>2. HeldSince(page, u)
  BY DEF FeedInv, Covered, Feed!Succeeded
<1>3. Feed!Shown = Feed!Newest(held)
  BY DEF Feed!Shown, Feed!Ready, Feed!Data, Feed!Succeeded
<1>4. Feed!Newest(1..u) = { s \in 1..u : u - s < Limit }
  BY <1>1, NewestOfAll
<1>5. held \subseteq 1..page.stored
  BY <1>1, <1>4
<1>6. ASSUME NEW s \in 1..page.stored, page.stored - s < Limit PROVE s \in held
  BY <1>1, <1>2, <1>4, <1>6, LimitIsPositive DEF HeldSince
<1> HIDE DEF held
<1>7. Feed!Newest(held) = { s \in 1..page.stored : page.stored - s < Limit }
  BY <1>1, <1>5, <1>6, NewestHeld
<1> QED
  BY <1>1, <1>3, <1>7, NewestOfAll

(* The snapshot of another connection, or what is stored and sent on a     *)
(* stream that is not open, is nothing to the promise of an open one.      *)
LEMMA SeededKeeps ==
  ASSUME NEW p, FeedTyped(p), NEW q, q = Feed!Seeded(p)
  PROVE  /\ FeedTyped(q)
         /\ \A x \in FeedFields \ { "baseline", "seed", "seen" } : q[x] = p[x]
<1> DEFINE seed == Feed!Later(p.seed, Feed!LatestOf(Feed!Data(p)))
<1>1. Feed!LatestOf(Feed!Data(p)) \in Nat
  <2>1. CASE Feed!Current(p)
    <3>1. Feed!Snapshot(p).upTo \in Nat
      BY <2>1 DEF Feed!Current, Feed!Snapshot, FeedTyped
    <3> QED
      BY <2>1, <3>1, LatestIsNat DEF Feed!Data
  <2>2. CASE ~Feed!Current(p)
    BY <2>2 DEF Feed!Data, Feed!LatestOf
  <2> QED
    BY <2>1, <2>2
<1>2. seed \in Nat
  BY <1>1 DEF Feed!Later, FeedTyped
<1> HIDE DEF seed
<1>3. q = [ p EXCEPT !.baseline = @ \/ Feed!Succeeded(p), !.seed = seed,
                     !.seen = Feed!Later(@, seed) ]
  BY DEF Feed!Seeded, seed
<1>4. /\ DOMAIN q = FeedFields /\ q.seed = seed /\ q.seen = Feed!Later(p.seen, seed)
      /\ \A x \in FeedFields \ { "baseline", "seed", "seen" } : q[x] = p[x]
  BY <1>3 DEF FeedTyped, FeedFields
<1>5. q.seen \in Nat
  BY <1>2, <1>4 DEF Feed!Later, FeedTyped
<1> QED
  BY <1>2, <1>4, <1>5 DEF FeedTyped, FeedFields

LEMMA AskKeeps ==
  ASSUME NEW p, FeedTyped(p), NEW q, q = Feed!Ask(p)
  PROVE  /\ FeedTyped(q)
         /\ \A x \in FeedFields \ { "snapshots" } : q[x] = p[x]
         /\ \A c \in Feed!Connections :
              IF c = p.connection
              THEN /\ q.snapshots[c].fetching /\ q.snapshots[c].asked = p.stored
                   /\ q.snapshots[c].status = p.snapshots[c].status
                   /\ q.snapshots[c].upTo = p.snapshots[c].upTo
              ELSE q.snapshots[c] = p.snapshots[c]
<1> DEFINE c0 == p.connection
           asked == [ p.snapshots EXCEPT ![c0] =
                        [ @ EXCEPT !.fetching = TRUE, !.asked = p.stored ] ]
<1>1. /\ DOMAIN q = FeedFields /\ q.snapshots = asked
      /\ \A x \in FeedFields \ { "snapshots" } : q[x] = p[x]
  BY DEF Feed!Ask, FeedTyped, FeedFields
<1>2. DOMAIN asked = Feed!Connections
  BY DEF FeedTyped
<1>3. ASSUME NEW c \in Feed!Connections, c = c0
      PROVE  /\ DOMAIN asked[c] = SnapshotFields
             /\ asked[c].fetching /\ asked[c].asked = p.stored
             /\ asked[c].status = p.snapshots[c].status
             /\ asked[c].upTo = p.snapshots[c].upTo
  BY <1>3 DEF FeedTyped, SnapshotFields
<1>4. ASSUME NEW c \in Feed!Connections, c # c0 PROVE asked[c] = p.snapshots[c]
  BY <1>4 DEF FeedTyped
<1> HIDE DEF asked
<1>5. FeedTyped(q)
  BY <1>1, <1>2, <1>3, <1>4 DEF FeedTyped, FeedFields
<1> QED
  BY <1>1, <1>3, <1>4, <1>5

(* A snapshot that is asked for again misses nothing stored so far.        *)
LEMMA AskIsSafe ==
  ASSUME NEW p, FeedTyped(p), Covered(p), Unasked(p), page' = Feed!Ask(p)
  PROVE  FeedInv'
<1>1. /\ FeedTyped(page')
      /\ \A x \in FeedFields \ { "snapshots" } : page'[x] = p[x]
      /\ \A c \in Feed!Connections :
           IF c = p.connection
           THEN /\ page'.snapshots[c].fetching /\ page'.snapshots[c].asked = p.stored
                /\ page'.snapshots[c].status = p.snapshots[c].status
                /\ page'.snapshots[c].upTo = p.snapshots[c].upTo
           ELSE page'.snapshots[c] = p.snapshots[c]
  BY AskKeeps
<1>2. /\ \A x \in { "visits", "phase", "connection", "stored", "owed", "got" } :
           page'[x] = p[x]
      /\ p.connection \in Nat /\ p.stored \in Nat
  BY <1>1 DEF FeedTyped, FeedFields
<1>3. Unasked(page')
  BY <1>1, <1>2 DEF Unasked, Feed!Connections
<1>4. HeldSince(page', p.stored)
  BY <1>2 DEF HeldSince
<1>5. ASSUME NEW m, HeldSince(p, m) PROVE HeldSince(page', m)
  BY <1>2, <1>5 DEF HeldSince
<1>6. Covered(page')
  BY <1>1, <1>2, <1>4, <1>5 DEF Covered, Feed!Current, Feed!Snapshot
<1> QED
  BY <1>1, <1>3, <1>6 DEF FeedInv

LEMMA FeedStep == FeedInv /\ Feed!Step => FeedInv'
<1> SUFFICES ASSUME FeedInv, Feed!Step PROVE FeedInv'
  OBVIOUS
<1>a. FeedTyped(page)
  BY DEF FeedInv
<1>1. CASE Feed!Enter
  BY <1>1, <1>a DEF Feed!Enter, FeedInv, FeedTyped, FeedFields, Covered, Unasked
<1>2. CASE Feed!Leave
  BY <1>2, <1>a DEF Feed!Leave, Feed!Off, FeedInv, FeedTyped, FeedFields, Covered, Unasked
<1>3. CASE Feed!TokenArrives \/ Feed!Broken \/ Feed!Reconnect
  <2>1. /\ DOMAIN page' = FeedFields /\ page.phase # "off"
        /\ page'.phase \in { "opening", "waiting", "token" }
        /\ page'.since \in Nat /\ page'.owed \subseteq page.owed
        /\ \A x \in FeedFields \ { "phase", "since", "owed", "delay", "faults" } :
             page'[x] = page[x]
    <3>1. CASE Feed!TokenArrives
      BY <3>1, <1>a DEF Feed!TokenArrives, FeedTyped, FeedFields
    <3>2. CASE Feed!Broken
      BY <3>2, <1>a DEF Feed!Broken, FeedTyped, FeedFields
    <3>3. CASE Feed!Reconnect
      BY <3>3, <1>a DEF Feed!Reconnect, FeedTyped, FeedFields
    <3> QED
      BY <1>3, <3>1, <3>2, <3>3
  <2> QED
    BY <1>a, <2>1 DEF FeedInv, FeedTyped, FeedFields, Covered, Unasked
<1>4. CASE Feed!Opened
  <2> DEFINE q    == [ page EXCEPT !.owed = Feed!CatchUp(page) ]
             next == [ q EXCEPT !.phase = "open", !.connection = @ + 1, !.delay = 1 ]
  <2>1. page' = Feed!Seeded(IF Feed!Snapshot(next).status \in { "ok", "stale" }
                            THEN next ELSE Feed!Ask(next))
    BY <1>4 DEF Feed!Opened, Feed!Connected
  <2>2. page.phase = "opening"
    BY <1>4 DEF Feed!Opened
  <2>3. Feed!CatchUp(page) \subseteq 1..page.stored
    BY <1>a DEF Feed!CatchUp, FeedTyped
  <2>4. /\ DOMAIN next = FeedFields /\ next.phase = "open"
        /\ next.connection = page.connection + 1 /\ next.owed = Feed!CatchUp(page)
        /\ \A x \in FeedFields \ { "phase", "connection", "delay", "owed" } :
             next[x] = page[x]
    BY <1>a DEF FeedTyped, FeedFields
  <2> HIDE DEF next
  <2>5. FeedTyped(next)
    BY <1>a, <2>3, <2>4 DEF FeedTyped, FeedFields
  <2>6. CASE Feed!Snapshot(next).status \in { "ok", "stale" }
    <3>1. page' = Feed!Seeded(next)
      BY <2>1, <2>6
    <3>2. /\ FeedTyped(page')
          /\ \A x \in FeedFields \ { "baseline", "seed", "seen" } : page'[x] = next[x]
      BY <2>5, <3>1, SeededKeeps
    <3>3. /\ page'.visits = page.visits /\ page'.phase = "open"
          /\ page'.connection = page.connection + 1 /\ page'.snapshots = page.snapshots
          /\ page.connection \in Nat
      BY <1>a, <2>4, <3>2 DEF FeedFields, FeedTyped
    <3>4. Unasked(page')
      BY <2>2, <3>3 DEF FeedInv, Unasked, Feed!Connections
    <3>5. ~(page'.visits = 1 /\ Feed!Current(page'))
      BY <2>2, <2>4, <2>6, <3>3 DEF FeedInv, Unasked, Feed!Current, Feed!Snapshot, FeedFields
    <3> QED
      BY <3>2, <3>4, <3>5 DEF FeedInv, Covered
  <2>7. CASE Feed!Snapshot(next).status \notin { "ok", "stale" }
    <3> DEFINE asked == Feed!Ask(next)
    <3>1. page' = Feed!Seeded(asked)
      BY <2>1, <2>7
    <3>2. /\ FeedTyped(asked)
          /\ \A x \in FeedFields \ { "snapshots" } : asked[x] = next[x]
          /\ \A c \in Feed!Connections :
               IF c = next.connection
               THEN /\ asked.snapshots[c].fetching /\ asked.snapshots[c].asked = next.stored
                    /\ asked.snapshots[c].status = next.snapshots[c].status
                    /\ asked.snapshots[c].upTo = next.snapshots[c].upTo
               ELSE asked.snapshots[c] = next.snapshots[c]
      BY <2>5, AskKeeps
    <3> HIDE DEF asked
    <3>3. /\ FeedTyped(page')
          /\ \A x \in FeedFields \ { "baseline", "seed", "seen" } : page'[x] = asked[x]
      BY <3>1, <3>2, SeededKeeps
    <3>4. /\ page'.visits = page.visits /\ page'.phase = "open"
          /\ page'.connection = page.connection + 1 /\ page'.snapshots = asked.snapshots
          /\ page'.stored = page.stored /\ next.stored = page.stored
          /\ next.snapshots = page.snapshots /\ next.connection = page.connection + 1
          /\ page.connection \in Nat /\ page.stored \in Nat
      BY <1>a, <2>4, <3>2, <3>3 DEF FeedFields, FeedTyped
    <3>5. Unasked(page')
      BY <2>2, <3>2, <3>4 DEF FeedInv, Unasked, Feed!Connections
    <3>6. HeldSince(page', page.stored)
      BY <3>4 DEF HeldSince
    <3>7. Covered(page')
      BY <2>7, <3>2, <3>4, <3>6 DEF Covered, Feed!Current, Feed!Snapshot
    <3> QED
      BY <3>3, <3>5, <3>7 DEF FeedInv
  <2> QED
    BY <2>6, <2>7
<1>5. CASE Feed!Deliver
  <2> DEFINE s == CHOOSE x \in page.owed : \A t \in page.owed : x <= t
  <2>1. page.owed \in SUBSET Nat /\ page.owed # {}
    BY <1>5, <1>a DEF Feed!Deliver, FeedTyped
  <2>2. s \in page.owed
    BY <2>1, Least
  <2> HIDE DEF s
  <2>3. page' = [ page EXCEPT !.owed = @ \ { s }, !.got = Feed!Kept(@, s),
                              !.seen = Feed!Later(@, s) ]
    BY <1>5 DEF Feed!Deliver, s
  <2> DEFINE all == page.got \cup { s }
  <2>4. /\ DOMAIN page' = FeedFields /\ page'.owed = page.owed \ { s }
        /\ page'.got = Feed!Newest(all) /\ page'.seen = Feed!Later(page.seen, s)
        /\ \A x \in FeedFields \ { "owed", "got", "seen" } : page'[x] = page[x]
    BY <1>a, <2>3 DEF FeedTyped, FeedFields, Feed!Kept
  <2>5. all \in SUBSET (1..page.stored) /\ page.stored \in Nat
    BY <1>a, <2>2 DEF FeedTyped
  <2>6. Feed!Newest(all) \subseteq all
    BY DEF Feed!Newest
  <2>7. FeedTyped(page')
    BY <1>a, <2>2, <2>4, <2>5, <2>6 DEF FeedTyped, FeedFields, Feed!Later
  <2>8. ASSUME NEW n, HeldSince(page, n) PROVE HeldSince(page', n)
    <3> SUFFICES ASSUME NEW x \in 1..page.stored, x > n, page.stored - x < Limit
                 PROVE  x \in page'.owed \cup page'.got
      BY <2>4 DEF HeldSince, FeedFields
    <3>1. x \in page.owed \cup page.got
      BY <2>8 DEF HeldSince
    <3>2. x \in page'.owed \/ x \in all
      BY <2>4, <3>1
    <3>3. ASSUME x \in all PROVE x \in Feed!Newest(all)
      <4>1. Feed!Cardinality({ t \in all : t > x }) <= page.stored - x
        BY <2>5, FewerNewer
      <4>2. Feed!Cardinality({ t \in all : t > x }) \in Nat
        BY <2>5, CountIsNat
      <4> QED
        BY <2>5, <3>3, <4>1, <4>2, LimitIsPositive DEF Feed!Newest
    <3> QED
      BY <2>4, <3>2, <3>3
  <2> QED
    BY <1>a, <2>4, <2>7, <2>8 DEF FeedInv, Covered, Unasked, Feed!Current, Feed!Snapshot,
      FeedFields
<1>6. CASE Feed!Store
  <2>1. /\ DOMAIN page' = FeedFields /\ page'.stored = page.stored + 1
        /\ page'.owed = IF page.phase = "open" THEN page.owed \cup { page.stored + 1 }
                        ELSE page.owed
        /\ \A x \in FeedFields \ { "stored", "owed" } : page'[x] = page[x]
    BY <1>6, <1>a DEF Feed!Store, FeedTyped, FeedFields
  <2>2. FeedTyped(page')
    BY <1>a, <2>1 DEF FeedTyped, FeedFields
  <2>3. ASSUME NEW n, page.phase = "open", HeldSince(page, n) PROVE HeldSince(page', n)
    BY <1>a, <2>1, <2>3, LimitIsPositive DEF HeldSince, FeedTyped, FeedFields
  <2> QED
    BY <1>a, <2>1, <2>2, <2>3 DEF FeedInv, Covered, Unasked, Feed!Current, Feed!Snapshot,
      FeedFields
<1>7. CASE Feed!Inject
  <2> DEFINE next == [ page EXCEPT !.stored = page.stored + 1,
                                   !.owed = @ \cup { page.stored + 1 } ]
  <2>1. /\ DOMAIN next = FeedFields /\ next.stored = page.stored + 1
        /\ next.owed = page.owed \cup { page.stored + 1 }
        /\ \A x \in FeedFields \ { "stored", "owed" } : next[x] = page[x]
    BY <1>a DEF FeedTyped, FeedFields
  <2>2. /\ page.phase = "open"
        /\ page' = IF Feed!Snapshot(page).fetching THEN next ELSE Feed!Ask(next)
    BY <1>7 DEF Feed!Inject
  <2> HIDE DEF next
  <2>3. FeedTyped(next)
    BY <1>a, <2>1 DEF FeedTyped, FeedFields
  <2>4. ASSUME NEW n, HeldSince(page, n) PROVE HeldSince(next, n)
    BY <1>a, <2>1, <2>4, LimitIsPositive DEF HeldSince, FeedTyped, FeedFields
  <2>5. Covered(next) /\ Unasked(next)
    BY <1>a, <2>1, <2>2, <2>4 DEF FeedInv, Covered, Unasked, Feed!Current, Feed!Snapshot,
      FeedFields
  <2>6. CASE Feed!Snapshot(page).fetching
    BY <2>2, <2>3, <2>5, <2>6 DEF FeedInv
  <2>7. CASE ~Feed!Snapshot(page).fetching
    <3>1. page' = Feed!Ask(next)
      BY <2>2, <2>7
    <3> QED
      BY <2>1, <2>2, <2>3, <2>5, <3>1, AskIsSafe DEF FeedFields
  <2> QED
    BY <2>6, <2>7
<1>8. CASE Feed!RetrySnapshot
  <2>1. page' = Feed!Ask(page) /\ page.phase # "off"
    BY <1>8 DEF Feed!RetrySnapshot
  <2> QED
    BY <1>a, <2>1, AskIsSafe DEF FeedInv
<1>9. ASSUME NEW c \in Feed!Connections, Feed!SnapshotArrives(c) PROVE FeedInv'
  <2>1. PICK n \in page.snapshots[c].asked..page.stored :
          page' = Feed!Seeded(Feed!Answered(c, [ Feed!NoSnapshot EXCEPT
                                !.status = "ok", !.upTo = n ]))
    BY <1>9 DEF Feed!SnapshotArrives
  <2>2. page.snapshots[c].fetching
    BY <1>9 DEF Feed!SnapshotArrives
  <2> DEFINE new == [ Feed!NoSnapshot EXCEPT !.status = "ok", !.upTo = n ]
             p   == Feed!Answered(c, new)
  <2>3. /\ DOMAIN new = SnapshotFields /\ new.status = "ok" /\ new.fetching = FALSE
        /\ new.asked = 0 /\ new.upTo = n
    BY DEF Feed!NoSnapshot, SnapshotFields
  <2> HIDE DEF new
  <2>4. /\ DOMAIN p = FeedFields /\ p.snapshots = [ page.snapshots EXCEPT ![c] = new ]
        /\ \A x \in FeedFields \ { "snapshots" } : p[x] = page[x]
    BY <1>a DEF Feed!Answered, FeedTyped, FeedFields
  <2>5. page' = Feed!Seeded(p)
    BY <2>1 DEF new
  <2> HIDE DEF p
  <2>6. n \in 0..page.stored /\ n >= page.snapshots[c].asked
        /\ page.snapshots[c].asked \in Nat
    BY <1>a DEF FeedTyped
  <2>7. FeedTyped(p)
    BY <1>a, <2>3, <2>4, <2>6 DEF FeedTyped, FeedFields
  <2>8. /\ FeedTyped(page')
        /\ \A x \in FeedFields \ { "baseline", "seed", "seen" } : page'[x] = p[x]
    BY <2>5, <2>7, SeededKeeps
  <2>9. /\ page'.snapshots = [ page.snapshots EXCEPT ![c] = new ]
        /\ \A x \in { "visits", "phase", "connection", "stored", "owed", "got" } :
             page'[x] = page[x]
    BY <2>4, <2>8 DEF FeedFields
  <2>10. Unasked(page')
    BY <1>a, <2>2, <2>3, <2>9 DEF FeedInv, Unasked, FeedTyped
  <2>11. ASSUME HeldSince(page, page.snapshots[c].asked) PROVE HeldSince(page', n)
    BY <1>a, <2>6, <2>9, <2>11 DEF HeldSince, FeedTyped
  <2>12. ASSUME NEW m, HeldSince(page, m) PROVE HeldSince(page', m)
    BY <2>9, <2>12 DEF HeldSince
  <2>13. Covered(page')
    <3> SUFFICES ASSUME page'.visits = 1, page'.phase = "open", Feed!Current(page')
                 PROVE  /\ Feed!Snapshot(page').fetching =>
                             HeldSince(page', Feed!Snapshot(page').asked)
                        /\ Feed!Snapshot(page').status \in { "ok", "stale" } =>
                             HeldSince(page', Feed!Snapshot(page').upTo)
      BY DEF Covered
    <3>1. /\ Feed!Current(page) /\ page.visits = 1 /\ page.phase = "open"
          /\ page.connection \in Feed!Connections /\ page'.connection = page.connection
      BY <2>9 DEF Feed!Current
    <3>2. CASE c = page.connection
      BY <1>a, <2>2, <2>3, <2>9, <2>11, <3>1, <3>2 DEF FeedInv, Covered, Feed!Snapshot, FeedTyped
    <3>3. CASE c # page.connection
      <4>1. Feed!Snapshot(page') = Feed!Snapshot(page)
        BY <1>a, <2>9, <3>1, <3>3 DEF Feed!Snapshot, FeedTyped
      <4> QED
        BY <2>12, <3>1, <4>1 DEF FeedInv, Covered
    <3> QED
      BY <3>2, <3>3
  <2> QED
    BY <2>8, <2>10, <2>13 DEF FeedInv
<1>10. ASSUME NEW c \in Feed!Connections, Feed!SnapshotFails(c) \/ Feed!Forget(c)
       PROVE  FeedInv'
  <2>1. PICK new :
          /\ DOMAIN page' = FeedFields /\ page'.snapshots = [ page.snapshots EXCEPT ![c] = new ]
          /\ \A x \in FeedFields \ { "snapshots", "faults" } : page'[x] = page[x]
          /\ DOMAIN new = SnapshotFields /\ ~new.fetching
          /\ new.asked \in Nat /\ new.upTo \in 0..page.stored
          /\ new.status = "none" \/ page.snapshots[c].fetching
          /\ new.status \in { "ok", "stale" } =>
               /\ page.snapshots[c].status \in { "ok", "stale" }
               /\ new.upTo = page.snapshots[c].upTo
    <3>1. CASE Feed!SnapshotFails(c)
      <4> DEFINE new == [ page.snapshots[c] EXCEPT !.fetching = FALSE,
                            !.status = IF page.snapshots[c].status \in { "ok", "stale" }
                                       THEN "stale" ELSE "failed" ]
      <4>1. /\ DOMAIN new = SnapshotFields /\ ~new.fetching
            /\ new.asked \in Nat /\ new.upTo \in 0..page.stored
            /\ new.status \in { "ok", "stale" } =>
                 /\ page.snapshots[c].status \in { "ok", "stale" }
                 /\ new.upTo = page.snapshots[c].upTo
        BY <1>a DEF FeedTyped, SnapshotFields
      <4>2. /\ page' = [ Feed!Answered(c, new) EXCEPT !.faults = @ + 1 ]
            /\ page.snapshots[c].fetching
        BY <3>1 DEF Feed!SnapshotFails
      <4> HIDE DEF new
      <4>3. /\ DOMAIN page' = FeedFields
            /\ page'.snapshots = [ page.snapshots EXCEPT ![c] = new ]
            /\ \A x \in FeedFields \ { "snapshots", "faults" } : page'[x] = page[x]
        BY <1>a, <4>2 DEF Feed!Answered, FeedTyped, FeedFields
      <4> QED
        BY <4>1, <4>2, <4>3
    <3>2. CASE Feed!Forget(c)
      <4>1. /\ DOMAIN page' = FeedFields
            /\ page'.snapshots = [ page.snapshots EXCEPT ![c] = Feed!NoSnapshot ]
            /\ \A x \in FeedFields \ { "snapshots", "faults" } : page'[x] = page[x]
        BY <1>a, <3>2 DEF Feed!Forget, Feed!Answered, FeedTyped, FeedFields
      <4>2. /\ DOMAIN Feed!NoSnapshot = SnapshotFields /\ ~Feed!NoSnapshot.fetching
            /\ Feed!NoSnapshot.asked = 0 /\ Feed!NoSnapshot.upTo = 0
            /\ Feed!NoSnapshot.status = "none"
        BY DEF Feed!NoSnapshot, SnapshotFields
      <4>3. 0 \in 0..page.stored
        BY <1>a DEF FeedTyped
      <4> QED
        BY <4>1, <4>2, <4>3
    <3> QED
      BY <1>10, <3>1, <3>2
  <2>2. FeedTyped(page')
    BY <1>a, <2>1 DEF FeedTyped, FeedFields
  <2>3. \A d \in Feed!Connections :
          page'.snapshots[d] = IF d = c THEN new ELSE page.snapshots[d]
    BY <1>a, <2>1 DEF FeedTyped
  <2>4. Unasked(page')
    BY <2>1, <2>3 DEF FeedInv, Unasked, FeedFields
  <2>5. ASSUME NEW m, HeldSince(page, m) PROVE HeldSince(page', m)
    BY <2>1, <2>5 DEF HeldSince, FeedFields
  <2>6. Covered(page')
    BY <2>1, <2>3, <2>5 DEF FeedInv, Covered, Feed!Current, Feed!Snapshot, FeedFields
  <2> QED
    BY <2>2, <2>4, <2>6 DEF FeedInv
<1> QED
  BY <1>1, <1>2, <1>3, <1>4, <1>5, <1>6, <1>7, <1>8, <1>9, <1>10 DEF Feed!Step
-----------------------------------------------------------------------------
(* Ranks in a finite set under a strict total order R: what lies before an *)
(* element is less than what lies before a later one.                      *)
StrictOrder(R, S) ==
  /\ \A a \in S : <<a, a>> \notin R
  /\ \A a, b, c \in S : <<a, b>> \in R /\ <<b, c>> \in R => <<a, c>> \in R
  /\ \A a, b \in S : a # b => <<a, b>> \in R \/ <<b, a>> \in R
Preceding(R, S, c) == { d \in S : <<d, c>> \in R }

LEMMA RankBounds ==
  ASSUME NEW S, IsFiniteSet(S), NEW R, StrictOrder(R, S), NEW c \in S
  PROVE  /\ IsFiniteSet(Preceding(R, S, c)) /\ Cardinality(S) \in Nat
         /\ Cardinality(Preceding(R, S, c)) \in 0..Cardinality(S) - 1
<1>1. Preceding(R, S, c) \subseteq S /\ c \notin Preceding(R, S, c)
  BY DEF Preceding, StrictOrder
<1>2. /\ IsFiniteSet(Preceding(R, S, c))
      /\ Cardinality(Preceding(R, S, c)) <= Cardinality(S)
      /\ Cardinality(S) = Cardinality(Preceding(R, S, c)) => S = Preceding(R, S, c)
  BY <1>1, FS_Subset
<1>3. Cardinality(S) \in Nat /\ Cardinality(Preceding(R, S, c)) \in Nat
  BY <1>2, FS_CardinalityType
<1>4. Cardinality(S) # Cardinality(Preceding(R, S, c))
  BY <1>1, <1>2
<1> QED
  BY <1>2, <1>3, <1>4

LEMMA RankLess ==
  ASSUME NEW S, IsFiniteSet(S), NEW R, StrictOrder(R, S), NEW a \in S, NEW b \in S,
         <<a, b>> \in R
  PROVE  Cardinality(Preceding(R, S, a)) < Cardinality(Preceding(R, S, b))
<1>1. /\ Preceding(R, S, a) \subseteq Preceding(R, S, b)
      /\ a \in Preceding(R, S, b) /\ a \notin Preceding(R, S, a)
  BY DEF Preceding, StrictOrder
<1>2. /\ IsFiniteSet(Preceding(R, S, b)) /\ IsFiniteSet(Preceding(R, S, a))
      /\ Cardinality(Preceding(R, S, a)) \in Nat /\ Cardinality(Preceding(R, S, b)) \in Nat
  BY RankBounds
<1>3. /\ Cardinality(Preceding(R, S, a)) <= Cardinality(Preceding(R, S, b))
      /\ Cardinality(Preceding(R, S, b)) = Cardinality(Preceding(R, S, a))
           => Preceding(R, S, b) = Preceding(R, S, a)
  BY <1>1, <1>2, FS_Subset
<1>4. Cardinality(Preceding(R, S, b)) # Cardinality(Preceding(R, S, a))
  BY <1>1, <1>3
<1> QED
  BY <1>2, <1>3, <1>4

(* Every rank below the number of elements is taken.                       *)
LEMMA RankTaken ==
  ASSUME NEW S, IsFiniteSet(S), NEW R, StrictOrder(R, S),
         NEW k \in Nat, k < Cardinality(S)
  PROVE  \E c \in S : Cardinality(Preceding(R, S, c)) = k
<1> DEFINE ranks == 0..Cardinality(S) - 1
           f == [ c \in S |-> Cardinality(Preceding(R, S, c)) ]
<1>1. Cardinality(S) \in Nat
  BY FS_CardinalityType
<1>2. IsFiniteSet(ranks) /\ Cardinality(ranks) = Cardinality(S)
  <2>1. 0 \in Int /\ Cardinality(S) - 1 \in Int
    BY <1>1
  <2>2. /\ IsFiniteSet(ranks)
        /\ Cardinality(ranks) = IF 0 > Cardinality(S) - 1 THEN 0 ELSE Cardinality(S) - 1 - 0 + 1
    BY <2>1, FS_Interval
  <2> QED
    BY <1>1, <2>2
<1>3. f \in [S -> ranks]
  BY RankBounds
<1>4. ASSUME NEW a \in S, NEW b \in S, a # b PROVE f[a] # f[b]
  <2>1. f[a] \in Int /\ f[b] \in Int
    BY <1>1, <1>3
  <2>2. CASE <<a, b>> \in R
    BY <2>1, <2>2, RankLess
  <2>3. CASE <<b, a>> \in R
    BY <2>1, <2>3, RankLess
  <2> QED
    BY <1>4, <2>2, <2>3 DEF StrictOrder
<1>5. f \in Injection(S, ranks)
  BY <1>3, <1>4 DEF Injection, IsInjective
<1>6. f \in Surjection(S, ranks)
  BY <1>2, <1>5, FS_Injection
<1>7. k \in ranks
  BY <1>1
<1>8. PICK c \in S : f[c] = k
  BY <1>6, <1>7 DEF Surjection
<1> QED
  BY <1>8
-----------------------------------------------------------------------------
(* The palette.  The highlight stays among the results, and is -1 only for *)
(* want of any.                                                            *)
PaletteFields == { "open", "commander", "typed", "query", "lists", "selected", "ran" }
Asked(p) ==
  /\ DOMAIN p = PaletteFields
  /\ p.query \in [ Palette!Candidates -> 0..5 ] /\ p.lists \subseteq Palette!Fetched
Within(p, i) ==
  /\ i \in Int /\ i >= -1
  /\ i = -1 => Palette!Count(p) = 0
  /\ i > 0 => i < Palette!Count(p)
PaletteInv == Asked(page) /\ page.selected \in Int /\ (page.open => Within(page, page.selected))

LEMMA PlacesInOrder ==
  /\ \A c \in Palette!Candidates :
       /\ Palette!Index(c) \in 1..6 /\ Palette!Order[Palette!Index(c)] = c
       /\ Palette!Group(c) \in 1..4
  /\ IsFiniteSet(Palette!Candidates)
<1>1. ASSUME NEW c \in Palette!Candidates
      PROVE  /\ Palette!Index(c) \in 1..6 /\ Palette!Order[Palette!Index(c)] = c
             /\ Palette!Group(c) \in 1..4
  <2>1. DOMAIN Palette!Order = 1..6 /\ DOMAIN Palette!Types = 1..4
    BY DEF Palette!Order, Palette!Types
  <2>2. \E i \in DOMAIN Palette!Order : Palette!Order[i] = c
    BY DEF Palette!Candidates
  <2>3. \E i \in DOMAIN Palette!Types : Palette!Types[i] = Palette!TypeOf(c)
    <3>1. Palette!TypeOf(c) \in { "command", "site", "task", "asset" }
      BY DEF Palette!TypeOf
    <3> QED
      BY <3>1 DEF Palette!Types
  <2> QED
    BY <2>1, <2>2, <2>3 DEF Palette!Index, Palette!Group
<1>2. [ c \in Palette!Candidates |-> Palette!Index(c) ] \in Injection(Palette!Candidates, 1..6)
  BY <1>1 DEF Injection, IsInjective
<1>3. IsFiniteSet(1..6)
  <2>1. 1 \in Int /\ 6 \in Int
    OBVIOUS
  <2> QED
    BY <2>1, FS_Interval
<1> QED
  BY <1>1, <1>2, <1>3, FS_Injection

(* The results are finitely many, in a strict order by relevance and in    *)
(* one by type.                                                            *)
LEMMA ResultsOrdered ==
  ASSUME NEW p, Asked(p)
  PROVE  LET S == Palette!Results(p)
             byType == { x \in S \X S : Palette!ShownBefore(p, x[1], x[2]) }
         IN /\ S \subseteq Palette!Candidates /\ IsFiniteSet(S)
            /\ Palette!Count(p) = Cardinality(S) /\ Palette!Count(p) \in Nat
            /\ StrictOrder(byType, S)
            /\ \A i : Palette!Shown(p, i)
                        = { c \in S : Cardinality(Preceding(byType, S, c)) = i }
<1> DEFINE S == Palette!Results(p)
           byType == { x \in S \X S : Palette!ShownBefore(p, x[1], x[2]) }
<1>1. S \subseteq Palette!Candidates
  <2>1. Palette!Found(p) \subseteq Palette!Candidates
    <3>1. Palette!Fetched \subseteq Palette!Candidates
      BY DEF Palette!Fetched, Palette!Candidates, Palette!Order
    <3> QED
      BY <3>1 DEF Palette!Found, Palette!Commands, Asked
  <2> QED
    BY <2>1 DEF Palette!Results
<1>2. IsFiniteSet(S)
  BY <1>1, PlacesInOrder, FS_Subset
<1>3. Palette!Count(p) = Cardinality(S) /\ Palette!Count(p) \in Nat
  BY <1>2, FS_CardinalityType DEF Palette!Count, Palette!Cardinality, Cardinality
<1>4. \A a, b \in S : <<a, b>> \in byType <=> Palette!ShownBefore(p, a, b)
  OBVIOUS
<1>5. \A a \in S : Palette!Relevance(p, a) \in Int
  BY <1>1 DEF Asked, Palette!Relevance
<1>6. \A a, b \in S : a # b => Palette!Index(a) # Palette!Index(b)
  BY <1>1, PlacesInOrder
<1>7. \A a \in S : Palette!Index(a) \in Int /\ Palette!Group(a) \in Int
  BY <1>1, PlacesInOrder
<1>8. \A a, b \in S : Palette!ShownBefore(p, a, b) <=>
        IF Palette!Group(a) = Palette!Group(b)
        THEN IF ~p.typed \/ Palette!Relevance(p, a) = Palette!Relevance(p, b)
             THEN Palette!Index(a) < Palette!Index(b)
             ELSE Palette!Relevance(p, a) > Palette!Relevance(p, b)
        ELSE Palette!Group(a) < Palette!Group(b)
  BY DEF Palette!ShownBefore, Palette!Before
<1>9. StrictOrder(byType, S)
  <2> HIDE DEF S, byType
  <2>1. \A a \in S : <<a, a>> \notin byType
    BY <1>4, <1>7, <1>8
  <2>2. \A a, b, c \in S : <<a, b>> \in byType /\ <<b, c>> \in byType => <<a, c>> \in byType
    BY <1>4, <1>5, <1>7, <1>8
  <2>3. \A a, b \in S : a # b => <<a, b>> \in byType \/ <<b, a>> \in byType
    BY <1>4, <1>5, <1>6, <1>7, <1>8
  <2> QED
    BY <2>1, <2>2, <2>3 DEF StrictOrder
<1>10. ASSUME NEW i
       PROVE  Palette!Shown(p, i) = { c \in S : Cardinality(Preceding(byType, S, c)) = i }
  <2>1. ASSUME NEW c \in S
        PROVE  { d \in S : Palette!ShownBefore(p, d, c) } = Preceding(byType, S, c)
    BY <1>4 DEF Preceding
  <2>2. \A c \in S : Palette!Cardinality({ d \in S : Palette!ShownBefore(p, d, c) })
                       = Cardinality(Preceding(byType, S, c))
    BY <2>1 DEF Palette!Cardinality, Cardinality
  <2> QED
    BY <2>2 DEF Palette!Shown
<1> QED
  BY <1>1, <1>2, <1>3, <1>9, <1>10

(* What decides the results.                                               *)
LEMMA SameResults ==
  ASSUME NEW p, NEW q, p.typed = q.typed, p.query = q.query, p.commander = q.commander,
         p.lists = q.lists
  PROVE  Palette!Count(p) = Palette!Count(q)
<1>1. Palette!Found(p) = Palette!Found(q)
  BY DEF Palette!Found, Palette!Commands
<1>2. \A c, d : Palette!Before(p, d, c) <=> Palette!Before(q, d, c)
  BY DEF Palette!Before, Palette!Relevance
<1>3. \A c : { d \in Palette!Found(p) : Palette!Before(p, d, c) }
               = { d \in Palette!Found(q) : Palette!Before(q, d, c) }
  BY <1>1, <1>2
<1>4. Palette!Results(p) = Palette!Results(q)
  BY <1>1, <1>3 DEF Palette!Results
<1> QED
  BY <1>4 DEF Palette!Count

LEMMA PaletteInit == Palette!Init => PaletteInv
<1> SUFFICES ASSUME Palette!Init PROVE PaletteInv
  OBVIOUS
<1>1. Palette!Blank \in [ Palette!Candidates -> 0..5 ]
  BY DEF Palette!Blank
<1> QED
  BY <1>1 DEF Palette!Init, PaletteInv, Asked, PaletteFields

LEMMA WithKeeps ==
  ASSUME PaletteInv, page.open, NEW q, Asked(q), q.commander = page.commander,
         q.selected = page.selected, page' = Palette!With(page, q)
  PROVE  PaletteInv'
<1>1. Palette!Count(page') = Palette!Count(q) /\ Palette!Count(q) \in Nat
  BY SameResults, ResultsOrdered DEF Palette!With, Asked, PaletteFields
<1>2. CASE page' = q /\ Palette!Count(q) = Palette!Count(page)
  BY <1>1, <1>2 DEF PaletteInv, Within
<1>3. CASE page' = [ q EXCEPT !.selected = 0 ]
  BY <1>1, <1>3 DEF PaletteInv, Within, Asked, PaletteFields
<1> QED
  BY <1>2, <1>3 DEF Palette!With

LEMMA PaletteStep == PaletteInv /\ Palette!Step => PaletteInv'
<1> SUFFICES ASSUME PaletteInv, Palette!Step PROVE PaletteInv'
  OBVIOUS
<1>a. Asked(page) /\ page.selected \in Int /\ Palette!Count(page) \in Nat
  BY ResultsOrdered DEF PaletteInv
<1>b. Palette!Blank \in [ Palette!Candidates -> 0..5 ]
  BY DEF Palette!Blank
<1>1. CASE Palette!Open
  <2>1. Asked(page')
    BY <1>1, <1>a, <1>b DEF Palette!Open, Asked, PaletteFields
  <2>2. page'.selected = 0
    BY <1>1, <1>a DEF Palette!Open, Asked, PaletteFields
  <2> QED
    BY <2>1, <2>2 DEF PaletteInv, Within
<1>2. ASSUME NEW c, Palette!Close \/ Palette!Execute(c) PROVE PaletteInv'
  BY <1>2, <1>a DEF Palette!Close, Palette!Execute, PaletteInv, Asked, PaletteFields
<1>3. ASSUME NEW query \in Queries, Palette!Type(query) PROVE PaletteInv'
  <2> DEFINE q == [ page EXCEPT !.typed = TRUE, !.query = query ]
  <2>1. Asked(q) /\ q.commander = page.commander /\ q.selected = page.selected
    BY <1>3, <1>a, ViewsAssumption DEF Palette!PaletteAssumption, Asked, PaletteFields
  <2>2. page' = Palette!With(page, q) /\ page.open
    BY <1>3 DEF Palette!Type
  <2> HIDE DEF q
  <2> QED
    BY <2>1, <2>2, WithKeeps
<1>4. CASE Palette!Erase
  <2> DEFINE q == [ page EXCEPT !.typed = FALSE, !.query = Palette!Blank ]
  <2>1. Asked(q) /\ q.commander = page.commander /\ q.selected = page.selected
    BY <1>4, <1>a, <1>b DEF Asked, PaletteFields
  <2>2. page' = Palette!With(page, q) /\ page.open
    BY <1>4 DEF Palette!Erase
  <2> HIDE DEF q
  <2> QED
    BY <2>1, <2>2, WithKeeps
<1>5. ASSUME NEW t \in Palette!Fetched, Palette!Refresh(t) PROVE PaletteInv'
  <2> DEFINE q == [ page EXCEPT !.lists = IF t \in @ THEN @ \ { t } ELSE @ \cup { t } ]
  <2>1. Asked(q) /\ q.commander = page.commander /\ q.selected = page.selected
    BY <1>5, <1>a DEF Asked, PaletteFields
  <2>2. page' = Palette!With(page, q) /\ page.open
    BY <1>5 DEF Palette!Refresh
  <2> HIDE DEF q
  <2> QED
    BY <2>1, <2>2, WithKeeps
<1>6. ASSUME NEW i \in Int, page.open, page' = [ page EXCEPT !.selected = i ], Within(page, i)
      PROVE  PaletteInv'
  <2>1. Palette!Count(page') = Palette!Count(page) /\ Asked(page') /\ page'.selected = i
    BY <1>6, <1>a, SameResults DEF Asked, PaletteFields
  <2> QED
    BY <1>6, <2>1 DEF PaletteInv, Within
<1>7. CASE Palette!Down
  <2> DEFINE last == Palette!Count(page) - 1
             i == IF page.selected + 1 > last THEN last ELSE page.selected + 1
  <2>1. page.open /\ page' = [ page EXCEPT !.selected = i ]
    BY <1>7 DEF Palette!Down
  <2>2. i \in Int /\ Within(page, i)
    BY <1>a, <2>1 DEF PaletteInv, Within
  <2> HIDE DEF i
  <2> QED
    BY <2>1, <2>2, <1>6
<1>8. CASE Palette!Up
  <2> DEFINE i == IF page.selected > 0 THEN page.selected - 1 ELSE 0
  <2>1. page.open /\ page' = [ page EXCEPT !.selected = i ]
    BY <1>8 DEF Palette!Up
  <2>2. i \in Int /\ Within(page, i)
    BY <1>a, <2>1 DEF PaletteInv, Within
  <2> HIDE DEF i
  <2> QED
    BY <2>1, <2>2, <1>6
<1>9. ASSUME NEW i \in Nat, Palette!Hover(i) PROVE PaletteInv'
  <2> DEFINE S == Palette!Results(page)
             byType == { x \in S \X S : Palette!ShownBefore(page, x[1], x[2]) }
  <2>1. PICK c \in S : Cardinality(Preceding(byType, S, c)) = i
    BY <1>9, <1>a, ResultsOrdered DEF Palette!Hover
  <2>2. IsFiniteSet(S) /\ StrictOrder(byType, S) /\ Palette!Count(page) = Cardinality(S)
    BY <1>a, ResultsOrdered
  <2> HIDE DEF S, byType
  <2>3. i \in 0..Cardinality(S) - 1 /\ Cardinality(S) \in Nat
    BY <2>1, <2>2, RankBounds
  <2>4. Within(page, i)
    BY <2>2, <2>3 DEF Within
  <2> QED
    BY <1>6, <1>9, <2>4 DEF Palette!Hover
<1>10. \A i : Palette!Click(i) => \E c : Palette!Execute(c)
  BY DEF Palette!Click
<1>11. Palette!Enter => \E c : Palette!Execute(c)
  BY DEF Palette!Enter
<1>12. \A i \in 0..Palette!Len(Palette!Order) - 1 : i \in Nat
  OBVIOUS
<1> QED
  BY <1>1, <1>2, <1>3, <1>4, <1>5, <1>7, <1>8, <1>9, <1>10, <1>11, <1>12 DEF Palette!Step

(* So a result is always in the row that is highlighted.                   *)
LEMMA Highlights == PaletteInv => Palette!SomethingHighlighted
<1> SUFFICES ASSUME PaletteInv, page.open, Palette!Results(page) # {}
             PROVE  Palette!Highlighted(page) # {}
  BY DEF Palette!SomethingHighlighted
<1> DEFINE S == Palette!Results(page)
           byType == { x \in S \X S : Palette!ShownBefore(page, x[1], x[2]) }
<1>1. /\ IsFiniteSet(S) /\ Palette!Count(page) = Cardinality(S)
      /\ StrictOrder(byType, S) /\ Cardinality(S) \in Nat
  BY ResultsOrdered DEF PaletteInv
<1>2. Cardinality(S) # 0
  BY <1>1, FS_EmptySet
<1>3. page.selected \in Nat /\ page.selected < Cardinality(S)
  BY <1>1, <1>2 DEF PaletteInv, Within
<1> HIDE DEF S, byType
<1>4. PICK c \in S : Cardinality(Preceding(byType, S, c)) = page.selected
  BY <1>1, <1>3, RankTaken
<1> USE DEF S, byType
<1>5. c \in Palette!Shown(page, page.selected)
  BY <1>4, ResultsOrdered DEF PaletteInv
<1> QED
  BY <1>5 DEF Palette!Highlighted
-----------------------------------------------------------------------------
(* The timeline of a debrief.  The pages held, and those fetched again so  *)
(* far, are each a timeline that goes on where it says so.                 *)
TimelineFields == { "now", "known", "shown", "cache" }
EntryFields    == { "anchor", "pages", "fetch", "got", "failed" }
TimelinePages  ==
  [ ids : SUBSET Timeline!Events, more : BOOLEAN, known : SUBSET Timeline!Events ]
InSpan(s, anchor, i) ==
  Timeline!Moment(i) + s >= anchor /\ Timeline!Moment(i) <= anchor
Whole(s, anchor, pages, known) ==
  /\ pages \in Seq(TimelinePages)
  /\ \A n \in 1..Len(pages) : pages[n].more => pages[n].ids # {}
  /\ \A m, n \in 1..Len(pages) : m < n =>
       \A i \in pages[m].ids, j \in pages[n].ids : i > j
  /\ pages # <<>> =>
       /\ pages[1].known \subseteq known
       /\ \A i \in pages[1].known :
            InSpan(s, anchor, i) /\ (pages[Len(pages)].more =>
                                       \E j \in pages[Len(pages)].ids : i > j)
              => \E n \in 1..Len(pages) : i \in pages[n].ids
GoesOn(pages) == pages # <<>> => pages[Len(pages)].more
EntryInv(s, t, known) ==
  /\ DOMAIN t = EntryFields
  /\ Whole(s, t.anchor, t.pages, known)
  /\ Whole(s, t.anchor, t.got, known) /\ GoesOn(t.got)
  /\ t.got # <<>> => t.pages # <<>>
  /\ t.fetch = "more" => t.pages # <<>> /\ GoesOn(t.pages)
TimelineInv ==
  /\ DOMAIN page = TimelineFields /\ DOMAIN page.cache = Spans
  /\ page.known \subseteq Timeline!Events
  /\ \A s \in Spans : EntryInv(s, page.cache[s], page.known)

LEMMA Appended ==
  ASSUME NEW T, NEW q \in Seq(T), NEW x \in T
  PROVE  /\ Append(q, x) \in Seq(T) /\ Len(Append(q, x)) = Len(q) + 1 /\ Len(q) \in Nat
         /\ \A n \in 1..Len(q) : Append(q, x)[n] = q[n]
         /\ Append(q, x)[Len(q) + 1] = x /\ Append(q, x) # <<>>
OBVIOUS

LEMMA AfterIsOlder ==
  ASSUME NEW i \in Nat \ { 0 }, NEW c \in Nat \ { 0 }
  PROVE  Timeline!After(i, c) <=> i < c
<1>1. PICK m \in Nat, d \in 0..1 : i + 1 = 2 * m + d /\ Timeline!Moment(i) = m
  BY DEF Timeline!Moment
<1>2. PICK n \in Nat, e \in 0..1 : c + 1 = 2 * n + e /\ Timeline!Moment(c) = n
  BY DEF Timeline!Moment
<1> QED
  BY <1>1, <1>2 DEF Timeline!After

(* A page of the rows after a cursor holds the newest of them.             *)
LEMMA PageOfRows ==
  ASSUME NEW s, NEW cursor, page.known \subseteq Timeline!Events
  PROVE  LET rows == { i \in page.known : Timeline!InRange(s, i) /\ Timeline!After(i, cursor) }
             next == Timeline!Index(s, cursor)
         IN /\ next \in TimelinePages /\ next.known = page.known /\ next.ids \subseteq rows
            /\ next.more => next.ids # {}
            /\ \A i \in rows : (next.more => \E j \in next.ids : i > j) => i \in next.ids
<1> DEFINE rows == { i \in page.known : Timeline!InRange(s, i) /\ Timeline!After(i, cursor) }
           next == Timeline!Index(s, cursor)
           newer == { x \in rows \X rows : x[1] > x[2] }
<1>1. MaxEvents \in Nat /\ PageLimit \in Nat /\ PageLimit >= 1
  BY ViewsAssumption DEF Timeline!TimelineAssumption
<1>2. rows \subseteq 1..MaxEvents
  BY DEF Timeline!Events
<1>3. IsFiniteSet(rows) /\ Cardinality(rows) \in Nat
  <2>1. IsFiniteSet(1..MaxEvents)
    BY <1>1, FS_Interval
  <2> QED
    BY <1>2, <2>1, FS_Subset, FS_CardinalityType
<1>4. StrictOrder(newer, rows)
  BY <1>2 DEF StrictOrder
<1>5. \A i \in rows : Timeline!Cardinality({ j \in rows : j > i })
                        = Cardinality(Preceding(newer, rows, i))
  <2>1. \A i \in rows : { j \in rows : j > i } = Preceding(newer, rows, i)
    BY DEF Preceding
  <2> QED
    BY <2>1 DEF Timeline!Cardinality, Cardinality
<1>6. /\ next.ids = { i \in rows : Cardinality(Preceding(newer, rows, i)) < PageLimit }
      /\ next.more <=> Cardinality(rows) > PageLimit
      /\ next.known = page.known
  <2>1. Timeline!Cardinality(rows) = Cardinality(rows)
    BY DEF Timeline!Cardinality, Cardinality
  <2> QED
    BY <1>5, <2>1 DEF Timeline!Index
<1>7. next \in TimelinePages
  <2>1. rows \subseteq Timeline!Events /\ page.known \subseteq Timeline!Events
    OBVIOUS
  <2> HIDE DEF rows
  <2> QED
    BY <2>1 DEF TimelinePages, Timeline!Index
<1> HIDE DEF rows, newer, next
<1>8. ASSUME next.more PROVE next.ids # {}
  <2>1. 0 < Cardinality(rows)
    BY <1>1, <1>3, <1>6, <1>8
  <2>2. PICK i \in rows : Cardinality(Preceding(newer, rows, i)) = 0
    BY <1>3, <1>4, <2>1, RankTaken
  <2> QED
    BY <1>1, <1>6, <2>2
<1>9. ASSUME NEW i \in rows, next.more => \E j \in next.ids : i > j PROVE i \in next.ids
  <2>1. /\ Cardinality(Preceding(newer, rows, i)) \in 0..Cardinality(rows) - 1
        /\ \A j \in rows : Cardinality(Preceding(newer, rows, j)) \in 0..Cardinality(rows) - 1
    BY <1>3, <1>4, RankBounds
  <2>2. CASE ~next.more
    BY <1>1, <1>3, <1>6, <2>1, <2>2
  <2>3. CASE next.more
    <3>1. PICK j \in next.ids : i > j
      BY <1>9, <2>3
    <3>2. j \in rows /\ <<i, j>> \in newer
      BY <1>6, <3>1 DEF newer
    <3>3. Cardinality(Preceding(newer, rows, i)) < Cardinality(Preceding(newer, rows, j))
      BY <1>3, <1>4, <3>2, RankLess
    <3> QED
      BY <1>1, <1>3, <1>6, <2>1, <3>1, <3>2, <3>3
  <2> QED
    BY <1>6, <2>2, <2>3
<1>10. next.ids \subseteq rows
  BY <1>6
<1> QED
  BY <1>6, <1>7, <1>8, <1>9, <1>10 DEF rows, next

(* The page after those that go on makes a longer timeline.                *)
LEMMA PageAppended ==
  ASSUME NEW s, NEW pages, Whole(s, page.cache[s].anchor, pages, page.known), GoesOn(pages),
         page.known \subseteq Timeline!Events
  PROVE  LET next == Timeline!Index(s, Timeline!Cursor(pages))
         IN /\ Append(pages, next) \in Seq(TimelinePages)
            /\ Append(pages, next) # <<>>
            /\ Append(pages, next)[Len(Append(pages, next))] = next
            /\ Whole(s, page.cache[s].anchor, Append(pages, next), page.known)
<1> DEFINE next == Timeline!Index(s, Timeline!Cursor(pages))
           rows == { i \in page.known : /\ Timeline!InRange(s, i)
                                        /\ Timeline!After(i, Timeline!Cursor(pages)) }
           all == Append(pages, next)
           anchor == page.cache[s].anchor
<1>1. /\ next \in TimelinePages /\ next.known = page.known /\ next.ids \subseteq rows
      /\ next.more => next.ids # {}
      /\ \A i \in rows : (next.more => \E j \in next.ids : i > j) => i \in next.ids
  BY PageOfRows
<1>2. \A i \in page.known : /\ i \in Nat \ { 0 }
                            /\ Timeline!InRange(s, i) <=> InSpan(s, anchor, i)
  BY DEF Timeline!Events, Timeline!InRange, InSpan
<1>3. \A i \in page.known :
        i \in rows <=> InSpan(s, anchor, i) /\ Timeline!After(i, Timeline!Cursor(pages))
  BY <1>2
<1> HIDE DEF next, rows
<1>4. /\ pages \in Seq(TimelinePages) /\ Len(pages) \in Nat
      /\ \A n \in 1..Len(pages) : pages[n] \in TimelinePages
      /\ pages # <<>> => Len(pages) >= 1
  BY DEF Whole
<1>5. /\ all \in Seq(TimelinePages) /\ Len(all) = Len(pages) + 1
      /\ \A n \in 1..Len(pages) : all[n] = pages[n]
      /\ all[Len(all)] = next /\ all # <<>>
  BY <1>1, <1>4, Appended
<1>6. ASSUME NEW i \in page.known, pages # <<>>
      PROVE  i \in rows <=> InSpan(s, anchor, i) /\ \A j \in pages[Len(pages)].ids : i < j
  <2> DEFINE final == pages[Len(pages)].ids
  <2>1. final \subseteq Timeline!Events /\ final # {}
    <3>1. pages[Len(pages)] \in TimelinePages /\ pages[Len(pages)].more
      BY <1>4, <1>6 DEF GoesOn
    <3> QED
      BY <1>4, <1>6, <3>1 DEF Whole, TimelinePages
  <2>2. final \subseteq Nat /\ \A j \in final : j \in Nat \ { 0 }
    BY <2>1 DEF Timeline!Events
  <2>3. \E j \in final : \A k \in final : j <= k
    BY <2>1, <2>2, Least
  <2>4. Timeline!Cursor(pages) \in final /\ \A k \in final : Timeline!Cursor(pages) <= k
    BY <1>6, <2>3 DEF Timeline!Cursor, Timeline!Final
  <2>5. Timeline!After(i, Timeline!Cursor(pages)) <=> i < Timeline!Cursor(pages)
    BY <1>2, <2>2, <2>4, AfterIsOlder
  <2> QED
    BY <1>2, <1>3, <2>2, <2>4, <2>5
<1>7. ASSUME pages = <<>> PROVE \A i \in page.known : i \in rows <=> InSpan(s, anchor, i)
  BY <1>3, <1>7 DEF Timeline!Cursor, Timeline!After
<1>8. \A n \in 1..Len(all) : all[n].more => all[n].ids # {}
  BY <1>1, <1>4, <1>5 DEF Whole
<1>9. ASSUME NEW m \in 1..Len(all), NEW n \in 1..Len(all), m < n,
             NEW i \in all[m].ids, NEW j \in all[n].ids
      PROVE  i > j
  <2>1. CASE n \in 1..Len(pages)
    BY <1>4, <1>5, <1>9, <2>1 DEF Whole
  <2>2. CASE n = Len(pages) + 1
    <3>1. m \in 1..Len(pages) /\ i \in pages[m].ids /\ pages # <<>> /\ j \in rows
      BY <1>1, <1>4, <1>5, <1>9, <2>2
    <3>2. j \in page.known
      BY <3>1 DEF rows
    <3>3. \A k \in pages[Len(pages)].ids : j < k
      BY <1>6, <3>1, <3>2
    <3>4. CASE m = Len(pages)
      <4>1. i \in Timeline!Events
        BY <1>4, <3>1 DEF TimelinePages
      <4> QED
        BY <1>2, <3>1, <3>2, <3>3, <3>4, <4>1 DEF Timeline!Events
    <3>5. CASE m < Len(pages)
      <4>1. pages[Len(pages)].more /\ Len(pages) \in 1..Len(pages)
        BY <1>4, <3>1 DEF GoesOn
      <4>2. PICK k \in pages[Len(pages)].ids : TRUE
        BY <4>1 DEF Whole
      <4>3. i > k /\ j < k
        BY <3>1, <3>3, <3>5, <4>1, <4>2 DEF Whole
      <4>4. i \in Timeline!Events /\ k \in Timeline!Events
        BY <1>4, <3>1, <4>1, <4>2 DEF TimelinePages
      <4> QED
        BY <1>2, <3>2, <4>3, <4>4 DEF Timeline!Events
    <3> QED
      BY <1>4, <3>1, <3>4, <3>5
  <2> QED
    BY <1>4, <1>5, <2>1, <2>2
<1>10. all[1].known \subseteq page.known
  BY <1>1, <1>4, <1>5 DEF Whole
<1>11. ASSUME NEW i \in all[1].known, InSpan(s, anchor, i),
              next.more => \E j \in next.ids : i > j
       PROVE  \E n \in 1..Len(all) : i \in all[n].ids
  <2>1. i \in page.known
    BY <1>10
  <2>2. CASE i \in rows
    BY <1>1, <1>4, <1>5, <1>11, <2>2
  <2>3. CASE i \notin rows
    <3>1. pages # <<>>
      BY <1>7, <1>11, <2>1, <2>3
    <3>2. PICK k \in pages[Len(pages)].ids : ~(i < k)
      BY <1>6, <1>11, <2>1, <2>3, <3>1
    <3>3. k \in Nat /\ Len(pages) \in 1..Len(pages)
      BY <1>4, <3>1 DEF TimelinePages, Timeline!Events
    <3>4. CASE i = k
      BY <1>4, <1>5, <3>2, <3>3, <3>4
    <3>5. CASE i > k
      <4>1. i \in pages[1].known
        BY <1>4, <1>5, <1>11, <3>1
      <4>2. \E n \in 1..Len(pages) : i \in pages[n].ids
        BY <1>11, <3>1, <3>2, <3>5, <4>1 DEF Whole
      <4> QED
        BY <1>4, <1>5, <4>2
    <3> QED
      BY <1>2, <2>1, <3>2, <3>3, <3>4, <3>5
  <2> QED
    BY <2>2, <2>3
<1>12. Whole(s, anchor, all, page.known)
  BY <1>5, <1>8, <1>9, <1>10, <1>11 DEF Whole
<1> QED
  BY <1>5, <1>12 DEF next

LEMMA NoPages ==
  ASSUME NEW s, NEW anchor, NEW known
  PROVE  Whole(s, anchor, <<>>, known) /\ GoesOn(<<>>)
<1>1. <<>> \in Seq(TimelinePages) /\ Len(<<>>) = 0
  OBVIOUS
<1> QED
  BY <1>1 DEF Whole, GoesOn

LEMMA TimelineInit == Timeline!Init => TimelineInv
<1> SUFFICES ASSUME Timeline!Init PROVE TimelineInv
  OBVIOUS
<1>1. \A s \in Spans : EntryInv(s, Timeline!Unset, {})
  BY NoPages DEF EntryInv, Timeline!Unset, EntryFields
<1> QED
  BY <1>1 DEF Timeline!Init, TimelineInv, TimelineFields

LEMMA EntryKept ==
  ASSUME TimelineInv, NEW s \in Spans, NEW t, EntryInv(s, t, page.known),
         DOMAIN page' = TimelineFields, page'.known = page.known,
         page'.cache = [ page.cache EXCEPT ![s] = t ]
  PROVE  TimelineInv'
<1>1. DOMAIN page'.cache = Spans
  BY DEF TimelineInv
<1>2. ASSUME NEW r \in Spans PROVE EntryInv(r, page'.cache[r], page'.known)
  <2>1. CASE r = s
    BY <2>1 DEF TimelineInv
  <2>2. CASE r # s
    BY <2>2 DEF TimelineInv
  <2> QED
    BY <2>1, <2>2
<1>3. page'.known \subseteq Timeline!Events
  BY DEF TimelineInv
<1> QED
  BY <1>1, <1>2, <1>3 DEF TimelineInv

LEMMA TimelineStep == TimelineInv /\ Timeline!Step => TimelineInv'
<1> SUFFICES ASSUME TimelineInv, Timeline!Step PROVE TimelineInv'
  OBVIOUS
<1>a. /\ DOMAIN page = TimelineFields /\ DOMAIN page.cache = Spans
      /\ page.known \subseteq Timeline!Events
      /\ \A s \in Spans : EntryInv(s, page.cache[s], page.known)
  BY DEF TimelineInv
<1>1. ASSUME DOMAIN page' = TimelineFields, page'.cache = page.cache, page'.known = page.known
      PROVE  TimelineInv'
  BY <1>1, <1>a DEF TimelineInv
<1>2. CASE Timeline!Close \/ Timeline!Tick
  BY <1>1, <1>2, <1>a DEF Timeline!Close, Timeline!Tick, TimelineFields
<1>3. ASSUME NEW s \in Spans, NEW aged \in BOOLEAN, Timeline!Choose(s, aged) PROVE TimelineInv'
  <2> DEFINE p == [ page EXCEPT !.shown = { s } ]
             fresh == [ Timeline!Unset EXCEPT !.anchor = p.now, !.fetch = "all" ]
             old == [ page.cache[s] EXCEPT !.fetch = "all" ]
  <2>1. /\ DOMAIN p = TimelineFields /\ p.cache = page.cache /\ p.known = page.known
        /\ page' = Timeline!Opened(p, s, aged)
    BY <1>3, <1>a DEF Timeline!Choose, TimelineFields
  <2>2. EntryInv(s, fresh, page.known)
    BY NoPages DEF EntryInv, Timeline!Unset, EntryFields
  <2>3. EntryInv(s, old, page.known)
    BY <1>a DEF EntryInv, EntryFields
  <2> HIDE DEF p, fresh
  <2>4. CASE page' = p
    BY <1>1, <2>1, <2>4
  <2>5. CASE page' = [ p EXCEPT !.cache[s] = fresh ]
    BY <2>1, <2>2, <2>5, EntryKept DEF TimelineFields
  <2>6. CASE page' = [ p EXCEPT !.cache[s].fetch = "all" ]
    <3>1. page'.cache = [ page.cache EXCEPT ![s] = old ]
      BY <2>1, <2>6, <1>a DEF TimelineFields
    <3> QED
      BY <2>1, <2>3, <2>6, <3>1, EntryKept DEF TimelineFields
  <2> QED
    BY <2>1, <2>4, <2>5, <2>6 DEF Timeline!Opened, fresh
<1>4. ASSUME NEW s \in Spans, Timeline!Forget(s) PROVE TimelineInv'
  <2>1. EntryInv(s, Timeline!Unset, page.known)
    BY NoPages DEF EntryInv, Timeline!Unset, EntryFields
  <2> QED
    BY <1>4, <1>a, <2>1, EntryKept DEF Timeline!Forget, TimelineFields
<1>5. ASSUME NEW s \in Spans, Timeline!Focus(s) PROVE TimelineInv'
  <2> DEFINE old == [ page.cache[s] EXCEPT !.fetch = "all" ]
  <2>1. EntryInv(s, old, page.known)
    BY <1>a DEF EntryInv, EntryFields
  <2>2. page'.cache = [ page.cache EXCEPT ![s] = old ]
    BY <1>5, <1>a DEF Timeline!Focus, TimelineFields
  <2> HIDE DEF old
  <2> QED
    BY <1>5, <1>a, <2>1, <2>2, EntryKept DEF Timeline!Focus, TimelineFields
<1>6. ASSUME NEW s \in Spans, Timeline!LoadMore(s) PROVE TimelineInv'
  <2> DEFINE new == [ page.cache[s] EXCEPT !.fetch = "more", !.got = <<>> ]
  <2>1. page.cache[s].pages # <<>> /\ GoesOn(page.cache[s].pages)
    BY <1>6 DEF Timeline!LoadMore, Timeline!Final, GoesOn
  <2>2. EntryInv(s, new, page.known)
    BY <1>a, <2>1, NoPages DEF EntryInv, EntryFields
  <2>3. page'.cache = [ page.cache EXCEPT ![s] = new ]
    BY <1>6, <1>a DEF Timeline!LoadMore, TimelineFields
  <2> HIDE DEF new
  <2> QED
    BY <1>6, <1>a, <2>2, <2>3, EntryKept DEF Timeline!LoadMore, TimelineFields
<1>7. ASSUME NEW s \in Spans, Timeline!Arrive(s) PROVE TimelineInv'
  <2> DEFINE t == page.cache[s]
             next(pages) == Timeline!Index(s, Timeline!Cursor(pages))
  <2>1. EntryInv(s, t, page.known)
    BY <1>a
  <2>2. ASSUME NEW pages, pages # <<>>, Whole(s, t.anchor, pages, page.known)
        PROVE  EntryInv(s, Timeline!Fetched(t, pages), page.known)
    BY <2>1, <2>2, NoPages DEF EntryInv, EntryFields, Timeline!Fetched
  <2>3. CASE /\ t.fetch = "more"
             /\ page' = [ page EXCEPT !.cache[s] =
                            Timeline!Fetched(t, Append(t.pages, next(t.pages))) ]
    <3>1. /\ Append(t.pages, next(t.pages)) # <<>>
          /\ Whole(s, t.anchor, Append(t.pages, next(t.pages)), page.known)
      BY <1>a, <2>1, <2>3, PageAppended DEF EntryInv
    <3>2. EntryInv(s, Timeline!Fetched(t, Append(t.pages, next(t.pages))), page.known)
      BY <2>2, <3>1
    <3> QED
      BY <1>a, <2>3, <3>2, EntryKept DEF TimelineFields
  <2>4. CASE /\ t.fetch = "all"
             /\ page' = [ page EXCEPT !.cache[s] =
                  IF next(t.got).more /\ Len(Append(t.got, next(t.got))) < Len(t.pages)
                  THEN [ t EXCEPT !.got = Append(t.got, next(t.got)) ]
                  ELSE Timeline!Fetched(t, Append(t.got, next(t.got))) ]
    <3> DEFINE got == Append(t.got, next(t.got))
    <3>1. /\ got # <<>> /\ got[Len(got)] = next(t.got) /\ got \in Seq(TimelinePages)
          /\ Whole(s, t.anchor, got, page.known)
      BY <1>a, <2>1, PageAppended DEF EntryInv
    <3>2. EntryInv(s, Timeline!Fetched(t, got), page.known)
      BY <2>2, <3>1
    <3>3. ASSUME next(t.got).more, Len(got) < Len(t.pages)
          PROVE  EntryInv(s, [ t EXCEPT !.got = got ], page.known)
      <4>1. t.pages # <<>>
        <5>1. Len(got) \in Nat
          BY <3>1
        <5> QED
          BY <3>3, <5>1
      <4>2. GoesOn(got)
        BY <3>1, <3>3 DEF GoesOn
      <4> HIDE DEF got
      <4> QED
        BY <2>1, <3>1, <4>1, <4>2 DEF EntryInv, EntryFields
    <3> DEFINE new == IF next(t.got).more /\ Len(got) < Len(t.pages)
                      THEN [ t EXCEPT !.got = got ] ELSE Timeline!Fetched(t, got)
    <3>4. EntryInv(s, new, page.known)
      BY <3>2, <3>3
    <3>5. page' = [ page EXCEPT !.cache[s] = new ]
      BY <2>4
    <3> HIDE DEF new
    <3> QED
      BY <1>a, <3>4, <3>5, EntryKept DEF TimelineFields
  <2> QED
    BY <1>7, <2>3, <2>4 DEF Timeline!Arrive
<1>8. ASSUME NEW s \in Spans, Timeline!FetchFails(s) PROVE TimelineInv'
  <2> DEFINE t == page.cache[s]
             new == [ t EXCEPT !.fetch = "idle", !.got = <<>>, !.failed = TRUE,
                               !.anchor = IF t.pages = <<>> THEN page.now ELSE @ ]
  <2>1. EntryInv(s, new, page.known)
    <3>1. /\ DOMAIN new = EntryFields /\ new.fetch = "idle" /\ new.got = <<>>
          /\ new.pages = t.pages /\ (t.pages # <<>> => new.anchor = t.anchor)
      BY <1>a DEF EntryInv, EntryFields
    <3> HIDE DEF new
    <3> QED
      BY <1>a, <3>1, NoPages DEF EntryInv
  <2>2. page' = [ page EXCEPT !.cache[s] = new ]
    BY <1>8 DEF Timeline!FetchFails
  <2> HIDE DEF new
  <2> QED
    BY <1>a, <2>1, <2>2, EntryKept DEF TimelineFields
<1>9. ASSUME NEW i \in Timeline!Events, Timeline!Commit(i) PROVE TimelineInv'
  <2>1. /\ DOMAIN page' = TimelineFields /\ page'.cache = page.cache
        /\ page'.known = page.known \cup { i }
    BY <1>9, <1>a DEF Timeline!Commit, TimelineFields
  <2>2. ASSUME NEW s, NEW anchor, NEW pages, Whole(s, anchor, pages, page.known)
        PROVE  Whole(s, anchor, pages, page'.known)
    BY <2>1, <2>2 DEF Whole
  <2> QED
    BY <1>a, <2>1, <2>2 DEF TimelineInv, EntryInv
<1> QED
  BY <1>2, <1>3, <1>4, <1>5, <1>6, <1>7, <1>8, <1>9 DEF Timeline!Step

LEMMA TimelineShows == TimelineInv => Timeline!TimelineIsWhole
<1> SUFFICES ASSUME TimelineInv, NEW s \in Spans, page.cache[s].pages # <<>>
             PROVE  LET pages == page.cache[s].pages
                    IN /\ \A m, n \in DOMAIN pages : m < n =>
                            \A i \in pages[m].ids, j \in pages[n].ids : i > j
                       /\ \A i \in pages[1].known :
                            /\ Timeline!InRange(s, i)
                            /\ (Timeline!Final(pages).more =>
                                  \E j \in Timeline!Final(pages).ids : i > j)
                            => \E n \in DOMAIN pages : i \in pages[n].ids
  BY DEF Timeline!TimelineIsWhole
<1>1. Whole(s, page.cache[s].anchor, page.cache[s].pages, page.known)
  BY DEF TimelineInv, EntryInv
<1>2. DOMAIN page.cache[s].pages = 1..Len(page.cache[s].pages)
  BY <1>1 DEF Whole
<1>3. \A i : Timeline!InRange(s, i) <=> InSpan(s, page.cache[s].anchor, i)
  BY DEF Timeline!InRange, InSpan
<1> QED
  BY <1>1, <1>2, <1>3 DEF Whole, Timeline!Final
-----------------------------------------------------------------------------
(* The lists.  Page n, of the rows held or of those fetched again so far,  *)
(* is the one that the list had when it was fetched, no earlier than the   *)
(* page before it and under the same filter; and the filter of the tasks   *)
(* is the AI's last answer while it is tagged so.                          *)
ListPages == [ ids : SUBSET Lists!Items, known : SUBSET Lists!Items, more : BOOLEAN ]
Scrolled(filter, pages, known) ==
  /\ pages \in Seq(ListPages)
  /\ \A n \in 1..Len(pages) :
       /\ pages[n].known \subseteq known
       /\ \E up \in BOOLEAN : pages[n].ids = Lists!Page(filter, pages[n].known, n, up).ids
  /\ \A m, n \in 1..Len(pages) : m < n => pages[m].known \subseteq pages[n].known
ListsInv ==
  /\ DOMAIN page = { "list", "replaying", "commander", "filter", "answer", "applied",
                     "loading", "asked", "out", "known", "pages", "fetch", "failed" }
  /\ page.known \subseteq Lists!Items
  /\ Scrolled(page.filter, page.pages, page.known)
  /\ DOMAIN page.fetch = { "kind", "got" }
  /\ Scrolled(page.filter, page.fetch.got, page.known)
  /\ Lists!AppliedIsTheAnswer

LEMMA NoneScrolled == ASSUME NEW filter, NEW known PROVE Scrolled(filter, <<>>, known)
<1>1. <<>> \in Seq(ListPages) /\ Len(<<>>) = 0
  OBVIOUS
<1> QED
  BY <1>1 DEF Scrolled

LEMMA ListsInit == Lists!Init => ListsInv
BY NoneScrolled DEF Lists!Init, ListsInv, Lists!AppliedIsTheAnswer, Lists!Idle

(* A page more.                                                            *)
LEMMA ScrolledOn ==
  ASSUME NEW filter, NEW pages, NEW up \in BOOLEAN, Scrolled(filter, pages, page.known),
         page.known \subseteq Lists!Items, filter = page.filter
  PROVE  Scrolled(filter, Append(pages, Lists!NextPage(pages, up)), page.known)
<1> DEFINE next == Lists!NextPage(pages, up)
           all == Append(pages, next)
<1>1. /\ next = Lists!Page(filter, page.known, Len(pages) + 1, up)
      /\ next.known = page.known /\ next \in ListPages
  BY DEF Lists!NextPage, Lists!Page, ListPages
<1>2. pages \in Seq(ListPages) /\ Len(pages) \in Nat
  BY DEF Scrolled
<1> HIDE DEF next
<1>3. /\ all \in Seq(ListPages) /\ Len(all) = Len(pages) + 1
      /\ \A n \in 1..Len(pages) : all[n] = pages[n]
      /\ all[Len(pages) + 1] = next
  BY <1>1, <1>2, Appended
<1> HIDE DEF all
<1>4. ASSUME NEW n \in 1..Len(all)
      PROVE  /\ all[n].known \subseteq page.known
             /\ \E u \in BOOLEAN : all[n].ids = Lists!Page(filter, all[n].known, n, u).ids
  <2>1. CASE n \in 1..Len(pages)
    BY <1>3, <2>1 DEF Scrolled
  <2>2. CASE n = Len(pages) + 1
    BY <1>1, <1>3, <2>2
  <2> QED
    BY <1>2, <1>3, <2>1, <2>2
<1>5. ASSUME NEW m \in 1..Len(all), NEW n \in 1..Len(all), m < n
      PROVE  all[m].known \subseteq all[n].known
  <2>1. CASE n \in 1..Len(pages)
    BY <1>2, <1>3, <1>5, <2>1 DEF Scrolled
  <2>2. CASE n = Len(pages) + 1
    BY <1>1, <1>3, <1>4, <2>2
  <2> QED
    BY <1>2, <1>3, <2>1, <2>2
<1> QED
  BY <1>3, <1>4, <1>5 DEF Scrolled, all, next

(* A filter that changes drops the pages fetched under the old one.        *)
LEMMA WithDrops ==
  ASSUME ListsInv, NEW filter
  PROVE  LET q == Lists!With(page, filter)
         IN /\ DOMAIN q = DOMAIN page /\ q.filter = filter /\ DOMAIN q.fetch = { "kind", "got" }
            /\ Scrolled(filter, q.pages, page.known) /\ Scrolled(filter, q.fetch.got, page.known)
            /\ \A x \in DOMAIN page \ { "filter", "pages", "fetch", "failed" } : q[x] = page[x]
BY NoneScrolled DEF ListsInv, Lists!With, Lists!Idle

LEMMA ListsStep == ListsInv /\ Lists!Step => ListsInv'
<1> SUFFICES ASSUME ListsInv, Lists!Step PROVE ListsInv'
  OBVIOUS
<1> USE DEF ListsInv, Lists!AppliedIsTheAnswer
<1>1. ASSUME NEW main, Lists!Choose(main) PROVE ListsInv'
  <2> DEFINE filter == [ main |-> main, scope |-> FALSE ]
             q == Lists!With(page, filter)
  <2>1. page' = [ q EXCEPT !.applied = FALSE, !.loading = @ /\ page.list = "signals" ]
    BY <1>1 DEF Lists!Choose
  <2> HIDE DEF filter
  <2>2. /\ DOMAIN q = DOMAIN page /\ q.filter = filter /\ DOMAIN q.fetch = { "kind", "got" }
        /\ Scrolled(filter, q.pages, page.known) /\ Scrolled(filter, q.fetch.got, page.known)
        /\ \A x \in DOMAIN page \ { "filter", "pages", "fetch", "failed" } : q[x] = page[x]
    BY WithDrops
  <2> HIDE DEF q
  <2> QED
    BY <2>1, <2>2
<1>2. CASE Lists!Ask
  BY <1>2 DEF Lists!Ask
<1>3. CASE Lists!Clear
  <2> DEFINE q == Lists!With(page, Lists!NoFilter)
  <2>1. page' = [ q EXCEPT !.applied = FALSE, !.loading = @ /\ page.list = "signals" ]
    BY <1>3 DEF Lists!Clear
  <2>2. /\ DOMAIN q = DOMAIN page /\ q.filter = Lists!NoFilter
        /\ DOMAIN q.fetch = { "kind", "got" }
        /\ Scrolled(Lists!NoFilter, q.pages, page.known)
        /\ Scrolled(Lists!NoFilter, q.fetch.got, page.known)
        /\ \A x \in DOMAIN page \ { "filter", "pages", "fetch", "failed" } : q[x] = page[x]
    BY WithDrops
  <2> HIDE DEF q
  <2> QED
    BY <2>1, <2>2
<1>4. ASSUME NEW f, Lists!Answer(f) PROVE ListsInv'
  <2> DEFINE filter == Lists!Answered(page, f)
             q == Lists!With(page, filter)
  <2>1. page' = [ q EXCEPT !.answer = f, !.applied = TRUE, !.loading = FALSE, !.out = @ - 1 ]
    BY <1>4 DEF Lists!Answer
  <2>2. page.list = "tasks" => filter = f
    BY DEF Lists!Answered
  <2> HIDE DEF filter
  <2>3. /\ DOMAIN q = DOMAIN page /\ q.filter = filter /\ DOMAIN q.fetch = { "kind", "got" }
        /\ Scrolled(filter, q.pages, page.known) /\ Scrolled(filter, q.fetch.got, page.known)
        /\ \A x \in DOMAIN page \ { "filter", "pages", "fetch", "failed" } : q[x] = page[x]
    BY WithDrops
  <2> HIDE DEF q
  <2> QED
    BY <2>1, <2>2, <2>3
<1>5. CASE Lists!AskFails
  BY <1>5 DEF Lists!AskFails
<1>6. CASE Lists!Refetch \/ Lists!Inject \/ Lists!More \/ Lists!FetchFails
  <2>1. ASSUME NEW kind, page' = [ page EXCEPT !.fetch = [ kind |-> kind, got |-> <<>> ] ]
        PROVE  ListsInv'
    BY <2>1, NoneScrolled
  <2>2. CASE Lists!FetchFails
    BY <2>2, NoneScrolled DEF Lists!FetchFails, Lists!Idle
  <2>3. CASE Lists!Inject
    BY <2>1, <2>3 DEF Lists!Inject
  <2> QED
    BY <1>6, <2>1, <2>2, <2>3 DEF Lists!Refetch, Lists!More
<1>7. ASSUME NEW up \in BOOLEAN, Lists!Arrive(up) PROVE ListsInv'
  <2>1. ASSUME NEW pages, Scrolled(page.filter, pages, page.known),
               page' = Lists!Fetched(page, pages)
        PROVE  ListsInv'
    BY <2>1, NoneScrolled DEF Lists!Fetched, Lists!Idle
  <2>2. CASE page' = Lists!Fetched(page, Append(page.pages, Lists!NextPage(page.pages, up)))
    BY <2>1, <2>2, ScrolledOn
  <2> DEFINE got == Append(page.fetch.got, Lists!NextPage(page.fetch.got, up))
  <2>3. Scrolled(page.filter, got, page.known)
    BY ScrolledOn
  <2> HIDE DEF got
  <2>4. CASE page' = Lists!Fetched(page, got)
    BY <2>1, <2>3, <2>4
  <2>5. CASE page' = [ page EXCEPT !.fetch.got = got ]
    BY <2>3, <2>5
  <2> QED
    BY <1>7, <2>2, <2>4, <2>5 DEF Lists!Arrive, Lists!Renewed, got
<1>8. ASSUME NEW i \in Lists!Items, Lists!Occur(i) PROVE ListsInv'
  <2>1. page' = [ page EXCEPT !.known = @ \cup { i } ]
    BY <1>8 DEF Lists!Occur
  <2>2. ASSUME NEW pages, Scrolled(page.filter, pages, page.known)
        PROVE  Scrolled(page.filter, pages, page.known \cup { i })
    BY <2>2 DEF Scrolled
  <2> QED
    BY <2>1, <2>2
<1> QED
  BY <1>1, <1>2, <1>3, <1>4, <1>5, <1>6, <1>7, <1>8 DEF Lists!Step

(* An item of a moment of its own has a place that does not depend on how  *)
(* a page orders the others, and before that of any older one.             *)
LEMMA PlaceOfItem ==
  ASSUME NEW all \in SUBSET Lists!Items, NEW up \in BOOLEAN, NEW i \in all,
         \A j \in Lists!Items \ { i } : Lists!Moment(j) # Lists!Moment(i)
  PROVE  /\ Lists!Place(all, up, i) = Cardinality({ j \in all : j > i })
         /\ Lists!Place(all, up, i) \in Nat
         /\ \A r \in all : r < i => Lists!Place(all, up, i) < Lists!Place(all, up, r)
<1> DEFINE R == { x \in all \X all : Lists!Before(up, x[1], x[2]) }
<1>1. MaxItems \in Nat /\ all \subseteq 1..MaxItems
  BY ViewsAssumption DEF Lists!ListsAssumption, Lists!Items
<1>2. IsFiniteSet(all)
  <2>1. IsFiniteSet(1..MaxItems)
    BY <1>1, FS_Interval
  <2> QED
    BY <1>1, <2>1, FS_Subset
<1>3. StrictOrder(R, all)
  BY <1>1 DEF StrictOrder, Lists!Before, Lists!Moment
<1>4. ASSUME NEW c \in all
      PROVE  Lists!Place(all, up, c) = Cardinality(Preceding(R, all, c))
  <2>1. { j \in all : Lists!Before(up, j, c) } = Preceding(R, all, c)
    BY DEF Preceding
  <2> QED
    BY <2>1 DEF Lists!Place, Lists!Cardinality, Cardinality
<1>5. i >= 3 \/ all \subseteq { 1 }
  <2>1. ASSUME i = 2 PROVE FALSE
    BY <1>1, <2>1 DEF Lists!Items, Lists!Moment
  <2>2. ASSUME i = 1, NEW j \in all, j # 1 PROVE FALSE
    <3>1. 2 \in Lists!Items \ { i }
      BY <1>1, <2>2 DEF Lists!Items
    <3> QED
      BY <2>2, <3>1 DEF Lists!Moment
  <2> QED
    BY <1>1, <2>1, <2>2
<1>6. \A j \in all : <<j, i>> \in R <=> j > i
  BY <1>1, <1>5 DEF Lists!Before, Lists!Moment
<1>7. Preceding(R, all, i) = { j \in all : j > i }
  BY <1>6 DEF Preceding
<1>8. ASSUME NEW r \in all, r < i PROVE <<i, r>> \in R
  BY <1>1, <1>5, <1>8 DEF Lists!Before, Lists!Moment
<1> HIDE DEF R
<1>9. ASSUME NEW r \in all, r < i PROVE Lists!Place(all, up, i) < Lists!Place(all, up, r)
  BY <1>2, <1>3, <1>4, <1>8, <1>9, RankLess
<1>10. Lists!Place(all, up, i) \in Nat
  BY <1>2, <1>3, <1>4, RankBounds
<1> QED
  BY <1>4, <1>7, <1>9, <1>10

LEMMA ListsShow == ListsInv => Lists!NothingSkipped
<1> SUFFICES ASSUME ListsInv, NEW i \in page.pages[1].known, page.pages # <<>>,
                    Lists!Matches(page.filter, i),
                    NEW r \in Lists!Rows(page.pages), r < i,
                    \A j \in Lists!Items \ { i } : Lists!Moment(j) # Lists!Moment(i)
             PROVE  i \in Lists!Rows(page.pages)
  BY DEF Lists!NothingSkipped
<1> DEFINE pages == page.pages
           all(n) == { j \in pages[n].known : Lists!Matches(page.filter, j) }
           newer(n) == Cardinality({ j \in all(n) : j > i })
<1>1. /\ pages \in Seq(ListPages) /\ Len(pages) \in Nat /\ DOMAIN pages = 1..Len(pages)
      /\ Scrolled(page.filter, pages, page.known)
  BY DEF ListsInv, Scrolled
<1>2. PageSize \in Nat /\ PageSize >= 1 /\ MaxItems \in Nat
  BY ViewsAssumption DEF Lists!ListsAssumption
<1>3. ASSUME NEW n \in 1..Len(pages)
      PROVE  /\ i \in all(n) /\ all(n) \subseteq Lists!Items
             /\ \E up \in BOOLEAN : pages[n].ids =
                  { j \in all(n) : Lists!Place(all(n), up, j)
                                     \in (n - 1) * PageSize..n * PageSize - 1 }
  <2>1. i \in pages[n].known
    <3>1. 1 \in 1..Len(pages) /\ (n = 1 \/ 1 < n)
      BY <1>1
    <3> QED
      BY <1>1, <3>1 DEF Scrolled
  <2>2. pages[n] \in ListPages
    BY <1>1
  <2>3. pages[n].known \subseteq Lists!Items
    BY <2>2 DEF ListPages
  <2> QED
    BY <1>1, <2>1, <2>3 DEF Scrolled, Lists!Page
<1>4. ASSUME NEW n \in 1..Len(pages), NEW up \in BOOLEAN
      PROVE  /\ Lists!Place(all(n), up, i) = newer(n) /\ newer(n) \in Nat
             /\ \A x \in all(n) : x < i => newer(n) < Lists!Place(all(n), up, x)
  <2>1. all(n) \in SUBSET Lists!Items /\ i \in all(n)
    BY <1>3
  <2> HIDE DEF all
  <2>2. /\ Lists!Place(all(n), up, i) = newer(n) /\ Lists!Place(all(n), up, i) \in Nat
        /\ \A x \in all(n) : x < i => Lists!Place(all(n), up, i) < Lists!Place(all(n), up, x)
    BY <2>1, PlaceOfItem
  <2> QED
    BY <2>2
<1>5. PICK n \in 1..Len(pages) : r \in pages[n].ids
  BY <1>1 DEF Lists!Rows
<1>numbers. ASSUME NEW k \in 1..Len(pages)
      PROVE  /\ k \in Int /\ newer(k) \in Nat
             /\ k * PageSize \in Int /\ (k - 1) * PageSize \in Int
  <2>1. newer(k) \in Nat
    BY <1>4
  <2>2. k \in Int /\ k - 1 \in Int /\ PageSize \in Int
    BY <1>1, <1>2
  <2> HIDE DEF newer
  <2> QED
    BY <2>1, <2>2
<1>items. \A k \in 1..Len(pages) : { j \in all(k) : j > i } \subseteq Lists!Items
  BY <1>3
<1>grows. \A k, l \in 1..Len(pages) :
        k < l => { j \in all(k) : j > i } \subseteq { j \in all(l) : j > i }
  BY <1>1 DEF Scrolled
<1>count. \A k \in 1..Len(pages) : newer(k) = Cardinality({ j \in all(k) : j > i })
  OBVIOUS
<1> HIDE DEF all, newer
<1>6. newer(n) < n * PageSize
  <2>1. PICK up \in BOOLEAN : r \in all(n) /\ Lists!Place(all(n), up, r)
                                \in (n - 1) * PageSize..n * PageSize - 1
    BY <1>3, <1>5
  <2>2. newer(n) < Lists!Place(all(n), up, r)
    BY <1>4, <2>1
  <2> QED
    BY <1>numbers, <2>1, <2>2
<1>7. PICK m \in 1..Len(pages) :
        newer(m) < m * PageSize /\ (m = 1 \/ newer(m - 1) >= (m - 1) * PageSize)
  <2> DEFINE M == { m \in 1..Len(pages) : newer(m) < m * PageSize }
  <2>1. M \in SUBSET Nat
    BY <1>1
  <2>4. n \in M
    BY <1>6
  <2>2. PICK m \in M : \A k \in M : m <= k
    BY <2>1, <2>4, Least
  <2>3. ASSUME m # 1 PROVE newer(m - 1) >= (m - 1) * PageSize
    <3>1. m - 1 \in 1..Len(pages) /\ m - 1 \notin M
      BY <1>1, <2>2, <2>3
    <3>2. newer(m - 1) \in Nat /\ (m - 1) * PageSize \in Int
      BY <1>numbers, <3>1
    <3> QED
      BY <3>1, <3>2
  <2> QED
    BY <2>2, <2>3
<1>8. newer(m) >= (m - 1) * PageSize
  <2>1. CASE m = 1
    <3>1. (1 - 1) * PageSize = 0
      BY <1>2
    <3> QED
      BY <1>numbers, <2>1, <3>1
  <2>2. CASE m # 1
    <3>1. m - 1 \in 1..Len(pages) /\ m - 1 < m
      BY <1>1, <2>2
    <3>2. { j \in all(m - 1) : j > i } \subseteq { j \in all(m) : j > i }
      BY <1>grows, <3>1
    <3>3. IsFiniteSet({ j \in all(m) : j > i })
      <4>1. 1 \in Int /\ MaxItems \in Int
        BY <1>2
      <4>2. IsFiniteSet(Lists!Items)
        BY <4>1, FS_Interval DEF Lists!Items
      <4> QED
        BY <1>items, <4>2, FS_Subset
    <3>4. Cardinality({ j \in all(m - 1) : j > i }) <= Cardinality({ j \in all(m) : j > i })
      BY <3>2, <3>3, FS_Subset
    <3>5. newer(m - 1) <= newer(m)
      BY <1>count, <3>1, <3>4
    <3>6. newer(m - 1) \in Nat /\ newer(m) \in Nat /\ (m - 1) * PageSize \in Int
      BY <1>numbers, <3>1
    <3> QED
      BY <1>7, <2>2, <3>5, <3>6
  <2> QED
    BY <2>1, <2>2
<1>9. PICK up \in BOOLEAN : i \in all(m) /\ pages[m].ids =
        { j \in all(m) : Lists!Place(all(m), up, j) \in (m - 1) * PageSize..m * PageSize - 1 }
  BY <1>3
<1>10. Lists!Place(all(m), up, i) = newer(m)
  BY <1>4, <1>9
<1>11. newer(m) \in (m - 1) * PageSize..m * PageSize - 1
  BY <1>numbers, <1>7, <1>8
<1>12. i \in pages[m].ids
  BY <1>9, <1>10, <1>11
<1> QED
  BY <1>1, <1>12 DEF Lists!Rows
-----------------------------------------------------------------------------
(* The lengths of the map, in centimetres.  Where the two units are written *)
(* to different steps, a length written to the coarser one comes back      *)
(* unchanged from the finer: it is settled.  From ten nautical miles on    *)
(* that is a tenth of a mile (18520), from ten kilometres a tenth of a     *)
(* kilometre (10000), and below a hundredth of a mile (1852).              *)
Apart(a, b, d) == a <= b + d /\ b <= a + d

(* Settled near what was meant, with all that may be written for it.       *)
SettledMiles(w, m) ==
  /\ w \in Nat /\ w >= 101 /\ Apart(18520 * w, m, 14900)
  /\ \A k \in Nat : Apart(10000 * k, 18520 * w, 5000) => Apart(10000 * k, m, 15000)
SettledKilometres(k, m) ==
  /\ k \in Nat /\ 100 <= k /\ k <= 185 /\ Apart(10000 * k, m, 15000)
  /\ \A v \in Nat : Apart(1852 * v, 10000 * k, 926) => Apart(1852 * v, m, 14900)
SettledSmall(w, m) == w \in Nat /\ w <= 539 /\ Apart(1852 * w, m, 14000)

(* What a length may read, v in this unit, when m was meant: as typed,     *)
(* converted once to the finer step, settled, written for what is settled, *)
(* or ten nautical miles, which settle as 18.5 kilometres.                 *)
Reads(unit, v, m) ==
  \/ Measures!Centimetres(v, unit) = m
  \/ unit = "km" /\ \E k \in Nat : k >= 186 /\ v = 10 * k /\ Apart(10000 * k, m, 5000)
  \/ unit = "nm" /\ 540 <= v /\ v <= 999 /\ Apart(1852 * v, m, 926)
  \/ unit = "km" /\ v < 1000 /\ Apart(1000 * v, m, 500)
  \/ \E w \in Nat : /\ SettledMiles(w, m)
                    /\ \/ unit = "nm" /\ v = 10 * w
                       \/ unit = "km" /\ \E k \in Nat : /\ v = 10 * k
                                                        /\ Apart(10000 * k, 18520 * w, 5000)
  \/ \E k \in Nat : /\ SettledKilometres(k, m)
                    /\ \/ unit = "km" /\ v = 10 * k
                       \/ unit = "nm" /\ 540 <= v /\ v <= 999 /\ Apart(1852 * v, 10000 * k, 926)
  \/ \E w \in Nat : /\ SettledSmall(w, m)
                    /\ \/ unit = "nm" /\ v = w
                       \/ unit = "km" /\ v < 1000 /\ Apart(1000 * v, 1852 * w, 500)
  \/ unit = "nm" /\ v = 1000 /\ 1838000 <= m /\ m <= 1865000

MeasureFields == { "unit", "lengths", "anchor", "typed", "meant" }
MeasuresInv ==
  /\ DOMAIN page = MeasureFields
  /\ page.unit \in Measures!Units
  /\ DOMAIN page.meant = DOMAIN page.lengths
  /\ \A i \in DOMAIN page.lengths :
       /\ page.lengths[i] \in Nat /\ page.meant[i] \in Nat
       /\ page.lengths[i] = 0 <=> page.meant[i] = 0
       /\ Reads(page.unit, page.lengths[i], page.meant[i])

LEMMA ReadsNearby ==
  ASSUME NEW unit \in Measures!Units, NEW v \in Nat, NEW m \in Nat, Reads(unit, v, m)
  PROVE  LET drawn == Measures!Metres(Measures!Centimetres(v, unit))
         IN drawn <= m + 15000 /\ m <= drawn + 15000
<1> DEFINE x == Measures!Centimetres(v, unit)
           drawn == Measures!Metres(x)
<1> SUFFICES drawn <= m + 15000 /\ m <= drawn + 15000
  OBVIOUS
<1>1. x \in Nat /\ Apart(Measures!Metres(x), x, 50) /\ Measures!Metres(x) \in Nat
  <2>1. x \in Nat
    BY DEF Measures!Centimetres, Measures!Units
  <2> HIDE DEF x
  <2> QED
    BY <2>1 DEF Apart, Measures!Metres
<1>2. CASE unit = "km"
  <2>1. x = 1000 * v /\ Apart(x, m, 15000)
    BY <1>2 DEF Reads, Apart, SettledMiles, SettledKilometres, SettledSmall,
      Measures!Centimetres
  <2>2. Measures!Metres(x) = x
    <3>1. (1000 * v + 50) \div 100 = 10 * v
      OBVIOUS
    <3> QED
      BY <2>1, <3>1 DEF Measures!Metres
  <2> HIDE DEF x
  <2> QED
    BY <1>1, <2>1, <2>2 DEF Apart
<1>3. CASE unit = "nm"
  <2>1. x = 1852 * v /\ Apart(x, m, 14950)
    BY <1>3 DEF Reads, Apart, SettledMiles, SettledKilometres, SettledSmall,
      Measures!Centimetres
  <2> HIDE DEF x
  <2> QED
    BY <1>1, <2>1 DEF Apart
<1> QED
  BY <1>2, <1>3 DEF Measures!Units

(* A conversion errs by half a step: a tenth from ten on, below it a       *)
(* hundredth.                                                              *)
Scale(unit) == IF unit = "km" THEN 1000 ELSE 1852
LEMMA ConversionErrs ==
  ASSUME NEW from \in Measures!Units, NEW to \in Measures!Units, NEW v \in Nat, v # 0,
         NEW y \in Measures!ConvertRangeRingInputValue(v, from, to)
  PROVE  LET x == Scale(from) * v
         IN /\ y \in Nat /\ y # 0
            /\ \/ x >= 1000 * Scale(to) /\ \E t \in Nat : /\ y = 10 * t
                                                         /\ Apart(10 * Scale(to) * t, x, 5 * Scale(to))
               \/ x < 1000 * Scale(to) /\ Apart(2 * Scale(to) * y, 2 * x, Scale(to))
<1> DEFINE c == Measures!Converted(v, from, to)
<1>1. ASSUME NEW n \in Nat, NEW d \in Nat, d # 0, NEW q \in Measures!Rounded(n, d)
      PROVE  q \in Nat /\ Apart(2 * q * d, 2 * n, d)
  <2>1. n \div d \in Nat
    BY <1>1, SMT
  <2> QED
    BY <1>1, <2>1 DEF Measures!Rounded, Apart
<1>2. y \in Measures!FormatRangeRingInputValue(c)
  BY DEF Measures!ConvertRangeRingInputValue, Measures!Nil
<1>3. c[1] \in Nat /\ c[2] \in { 1, 250, 463 }
  BY DEF Measures!Converted, Measures!Units
<1>4. CASE c[1] >= 1000 * c[2]
  <2>1. PICK t \in Measures!Rounded(c[1], 10 * c[2]) : y = 10 * t
    BY <1>2, <1>4 DEF Measures!FormatRangeRingInputValue
  <2>2. t \in Nat /\ Apart(2 * t * (10 * c[2]), 2 * c[1], 10 * c[2])
    BY <1>1, <1>3, <2>1
  <2> QED
    <3>1. CASE from = to
      <4>1. c[1] = v /\ c[2] = 1
        BY <3>1 DEF Measures!Converted
      <4>2. CASE from = "km"
        BY <1>4, <2>1, <2>2, <3>1, <4>1, <4>2 DEF Scale, Apart
      <4>3. CASE from = "nm"
        BY <1>4, <2>1, <2>2, <3>1, <4>1, <4>3 DEF Scale, Apart
      <4> QED
        BY <4>2, <4>3 DEF Measures!Units
    <3>2. CASE from = "nm" /\ to = "km"
      BY <1>4, <2>1, <2>2, <3>2 DEF Measures!Converted, Scale, Apart
    <3>3. CASE from = "km" /\ to = "nm"
      BY <1>4, <2>1, <2>2, <3>3 DEF Measures!Converted, Scale, Apart
    <3> QED
      BY <3>1, <3>2, <3>3 DEF Measures!Units
<1>5. CASE c[1] < 1000 * c[2]
  <2>1. y \in Nat /\ Apart(2 * y * c[2], 2 * c[1], c[2])
    BY <1>1, <1>2, <1>3, <1>5 DEF Measures!FormatRangeRingInputValue
  <2> QED
    <3>1. CASE from = to
      <4>1. c[1] = v /\ c[2] = 1
        BY <3>1 DEF Measures!Converted
      <4>2. CASE from = "km"
        BY <1>5, <2>1, <3>1, <4>1, <4>2 DEF Scale, Apart
      <4>3. CASE from = "nm"
        BY <1>5, <2>1, <3>1, <4>1, <4>3 DEF Scale, Apart
      <4> QED
        BY <4>2, <4>3 DEF Measures!Units
    <3>2. CASE from = "nm" /\ to = "km"
      BY <1>5, <2>1, <3>2 DEF Measures!Converted, Scale, Apart
    <3>3. CASE from = "km" /\ to = "nm"
      BY <1>5, <2>1, <3>3 DEF Measures!Converted, Scale, Apart
    <3> QED
      BY <3>1, <3>2, <3>3 DEF Measures!Units
<1> QED
  BY <1>3, <1>4, <1>5

(* What is written to the coarser step is settled.                         *)
LEMMA MilesSettle ==
  ASSUME NEW t \in Nat, NEW m \in Nat, t >= 101,
         \/ Apart(18520 * t, m, 9260)
         \/ \E k \in Nat : Apart(10000 * k, m, 5000) /\ Apart(18520 * t, 10000 * k, 9260)
  PROVE  SettledMiles(t, m)
<1>1. CASE Apart(18520 * t, m, 9260)
  BY <1>1 DEF SettledMiles, Apart
<1>2. ASSUME NEW k \in Nat, Apart(10000 * k, m, 5000), Apart(18520 * t, 10000 * k, 9260)
      PROVE  SettledMiles(t, m)
  <2>1. ASSUME NEW l \in Nat, Apart(10000 * l, 18520 * t, 5000)
        PROVE  Apart(10000 * l, m, 15000)
    <3>1. l <= k + 1 /\ k <= l + 1
      BY <1>2, <2>1 DEF Apart
    <3> QED
      BY <1>2, <3>1 DEF Apart
  <2> QED
    BY <1>2, <2>1 DEF SettledMiles, Apart
<1> QED
  BY <1>1, <1>2

LEMMA KilometresSettle ==
  ASSUME NEW t \in Nat, 100 <= t, t <= 185, NEW m \in Nat,
         \/ Apart(10000 * t, m, 5926)
         \/ t = 185 /\ 1838000 <= m /\ m <= 1865000
  PROVE  SettledKilometres(t, m)
<1>1. CASE Apart(10000 * t, m, 5926)
  BY <1>1 DEF SettledKilometres, Apart
<1>2. CASE t = 185 /\ 1838000 <= m /\ m <= 1865000
  <2>1. ASSUME NEW v \in Nat, Apart(1852 * v, 1850000, 926) PROVE v = 999
    BY <2>1 DEF Apart
  <2>2. Apart(1852 * 999, m, 14900)
    BY <1>2 DEF Apart
  <2>3. t = 185 /\ Apart(1850000, m, 15000)
    BY <1>2 DEF Apart
  <2> QED
    BY <2>1, <2>2, <2>3 DEF SettledKilometres
<1> QED
  BY <1>1, <1>2

(* Each reading of a length is converted to a reading of what was meant.   *)
LEMMA ReadsKept ==
  ASSUME NEW from \in Measures!Units, NEW to \in Measures!Units, NEW v \in Nat, v # 0,
         NEW m \in Nat, Reads(from, v, m),
         NEW y \in Measures!ConvertRangeRingInputValue(v, from, to)
  PROVE  y \in Nat /\ y # 0 /\ Reads(to, y, m)
<1> DEFINE x == Measures!Centimetres(v, from)
<1>1. x = Scale(from) * v /\ x \in Nat /\ y \in Nat /\ y # 0
  BY ConversionErrs DEF Measures!Centimetres, Scale, Measures!Units
<1> SUFFICES Reads(to, y, m)
  BY <1>1
<1>2. ASSUME to = "km"
      PROVE  \/ x >= 1000000 /\ \E t \in Nat : y = 10 * t /\ Apart(10000 * t, x, 5000)
             \/ x < 1000000 /\ Apart(1000 * y, x, 500)
  BY <1>1, <1>2, ConversionErrs DEF Scale, Apart
<1>3. ASSUME to = "nm"
      PROVE  \/ x >= 1852000 /\ \E t \in Nat : y = 10 * t /\ Apart(18520 * t, x, 9260)
             \/ x < 1852000 /\ Apart(1852 * y, x, 926)
  BY <1>1, <1>3, ConversionErrs DEF Scale, Apart
<1>4. /\ from = "km" => x = 1000 * v
      /\ from = "nm" => x = 1852 * v
  BY DEF Measures!Centimetres
<1> HIDE DEF x
(* What a kilometre reading may be.                                        *)
<1>5. ASSUME NEW k \in Nat, NEW w \in Nat, to = "km", y = 10 * k, SettledMiles(w, m),
             Apart(10000 * k, 18520 * w, 5000)
      PROVE  Reads(to, y, m)
  BY <1>5 DEF Reads
<1>6. ASSUME NEW k \in Nat, to = "km", y = 10 * k, SettledKilometres(k, m)
      PROVE  Reads(to, y, m)
  BY <1>6 DEF Reads
<1>7. ASSUME NEW k \in Nat, to = "nm", 540 <= y /\ y <= 999, SettledKilometres(k, m),
             Apart(1852 * y, 10000 * k, 926)
      PROVE  Reads(to, y, m)
  BY <1>7 DEF Reads
<1>8. ASSUME NEW w \in Nat, to = "nm", y = 10 * w, SettledMiles(w, m)
      PROVE  Reads(to, y, m)
  BY <1>8 DEF Reads
<1>9. ASSUME NEW w \in Nat, SettledSmall(w, m),
             \/ to = "nm" /\ y = w
             \/ to = "km" /\ y < 1000 /\ Apart(1000 * y, 1852 * w, 500)
      PROVE  Reads(to, y, m)
  BY <1>9 DEF Reads
<1>10. CASE x = m
  <2>1. CASE to = "km" /\ m >= 1000000
    <3>1. PICK t \in Nat : y = 10 * t /\ Apart(10000 * t, m, 5000)
      BY <1>2, <1>10, <2>1
    <3>2. CASE t >= 186
      BY <2>1, <3>1, <3>2 DEF Reads
    <3>3. CASE t < 186
      <4>1. 100 <= t /\ t <= 185 /\ Apart(10000 * t, m, 5926)
        BY <2>1, <3>1, <3>3 DEF Apart
      <4>2. SettledKilometres(t, m)
        BY <4>1, KilometresSettle
      <4> QED
        BY <1>6, <2>1, <3>1, <4>2
    <3> QED
      BY <3>2, <3>3
  <2>2. CASE to = "km" /\ m < 1000000
    <3>1. Apart(1000 * y, m, 500)
      BY <1>2, <1>10, <2>2
    <3>2. CASE y < 1000
      BY <2>2, <3>1, <3>2 DEF Reads
    <3>3. CASE y >= 1000
      <4>1. y = 10 * 100 /\ Apart(10000 * 100, m, 5926)
        BY <1>1, <2>2, <3>1, <3>3 DEF Apart
      <4>2. 100 <= 100 /\ 100 <= 185 /\ 100 \in Nat
        OBVIOUS
      <4>3. SettledKilometres(100, m)
        BY <4>1, <4>2, KilometresSettle
      <4> QED
        BY <1>6, <2>2, <4>1, <4>2, <4>3
    <3> QED
      BY <1>1, <3>2, <3>3
  <2>3. CASE to = "nm" /\ m >= 1852000
    <3>1. PICK t \in Nat : y = 10 * t /\ Apart(18520 * t, m, 9260)
      BY <1>3, <1>10, <2>3
    <3>2. CASE t >= 101
      <4>1. SettledMiles(t, m)
        BY <3>1, <3>2, MilesSettle
      <4> QED
        BY <1>8, <2>3, <3>1, <4>1
    <3>3. CASE t < 101
      <4>1. t = 100
        BY <2>3, <3>1, <3>3 DEF Apart
      <4>2. y = 1000 /\ Apart(1852000, m, 9260)
        BY <3>1, <4>1
      <4>3. 1838000 <= m /\ m <= 1865000
        BY <4>2 DEF Apart
      <4> QED
        BY <2>3, <4>2, <4>3 DEF Reads
    <3> QED
      BY <3>2, <3>3
  <2>4. CASE to = "nm" /\ m < 1852000
    <3>1. Apart(1852 * y, m, 926)
      BY <1>3, <1>10, <2>4
    <3>2. CASE y >= 1000
      <4>1. y = 1000
        BY <1>1, <2>4, <3>1, <3>2 DEF Apart
      <4>2. 1838000 <= m /\ m <= 1865000
        BY <2>4, <3>1, <4>1 DEF Apart
      <4> QED
        BY <2>4, <4>1, <4>2 DEF Reads
    <3>3. CASE 540 <= y /\ y <= 999
      BY <2>4, <3>1, <3>3 DEF Reads
    <3>4. CASE y < 540
      <4>1. SettledSmall(y, m)
        BY <1>1, <3>1, <3>4 DEF SettledSmall, Apart
      <4> QED
        BY <1>1, <1>9, <2>4, <4>1
    <3> QED
      BY <1>1, <3>2, <3>3, <3>4
  <2> QED
    BY <2>1, <2>2, <2>3, <2>4 DEF Measures!Units
<1>11. ASSUME NEW k \in Nat, from = "km", k >= 186, v = 10 * k, Apart(10000 * k, m, 5000)
       PROVE  Reads(to, y, m)
  <2>1. CASE to = "km"
    <3>1. PICK t \in Nat : y = 10 * t /\ Apart(10000 * t, 10000 * k, 5000)
      BY <1>2, <1>4, <1>11, <2>1
    <3>2. t = k
      BY <3>1 DEF Apart
    <3> QED
      BY <1>11, <2>1, <3>1, <3>2 DEF Reads
  <2>2. CASE to = "nm"
    <3>1. PICK t \in Nat : y = 10 * t /\ Apart(18520 * t, 10000 * k, 9260)
      BY <1>3, <1>4, <1>11, <2>2
    <3>2. CASE t >= 101
      <4>1. SettledMiles(t, m)
        BY <1>11, <3>1, <3>2, MilesSettle
      <4> QED
        BY <1>8, <2>2, <3>1, <4>1
    <3>3. CASE t < 101
      <4>1. k = 186 /\ t = 100
        BY <1>11, <3>1, <3>3 DEF Apart
      <4>2. y = 1000 /\ Apart(1860000, m, 5000)
        BY <1>11, <3>1, <4>1
      <4>3. 1838000 <= m /\ m <= 1865000
        BY <4>2 DEF Apart
      <4> QED
        BY <2>2, <4>2, <4>3 DEF Reads
    <3> QED
      BY <3>2, <3>3
  <2> QED
    BY <2>1, <2>2 DEF Measures!Units
<1>12. ASSUME from = "nm", 540 <= v /\ v <= 999, Apart(1852 * v, m, 926) PROVE Reads(to, y, m)
  <2>1. CASE to = "km"
    <3>1. PICK t \in Nat : y = 10 * t /\ Apart(10000 * t, 1852 * v, 5000)
      BY <1>2, <1>4, <1>12, <2>1
    <3>2. 100 <= t /\ t <= 185 /\ Apart(10000 * t, m, 5926)
      BY <1>12, <3>1 DEF Apart
    <3>3. SettledKilometres(t, m)
      BY <3>2, KilometresSettle
    <3> QED
      BY <1>6, <2>1, <3>1, <3>3
  <2>2. CASE to = "nm"
    <3>1. Apart(1852 * y, 1852 * v, 926)
      BY <1>3, <1>4, <1>12, <2>2
    <3>2. y = v \/ y = v + 1 \/ y + 1 = v
      BY <1>1, <3>1 DEF Apart
    <3>3. y = v
      BY <1>1, <1>12, <3>1, <3>2 DEF Apart
    <3> QED
      BY <1>12, <2>2, <3>3 DEF Reads
  <2> QED
    BY <2>1, <2>2 DEF Measures!Units
<1>13. ASSUME from = "km", v < 1000, Apart(1000 * v, m, 500) PROVE Reads(to, y, m)
  <2>1. CASE to = "km"
    <3>1. Apart(1000 * y, 1000 * v, 500)
      BY <1>2, <1>4, <1>13, <2>1
    <3>2. y = v
      BY <1>1, <3>1 DEF Apart
    <3> QED
      BY <1>13, <2>1, <3>2 DEF Reads
  <2>2. CASE to = "nm"
    <3>1. Apart(1852 * y, 1000 * v, 926)
      BY <1>3, <1>4, <1>13, <2>2
    <3>2. SettledSmall(y, m)
      BY <1>1, <1>13, <3>1 DEF SettledSmall, Apart
    <3> QED
      BY <1>1, <1>9, <2>2, <3>2
  <2> QED
    BY <2>1, <2>2 DEF Measures!Units
<1>14. ASSUME NEW w \in Nat, SettledMiles(w, m),
              \/ from = "nm" /\ v = 10 * w
              \/ from = "km" /\ \E k \in Nat : v = 10 * k /\ Apart(10000 * k, 18520 * w, 5000)
       PROVE  Reads(to, y, m)
  <2>1. w >= 101
    BY <1>14 DEF SettledMiles
  <2>2. Apart(x, 18520 * w, 5000) /\ x >= 1852000
    BY <1>4, <1>14, <2>1 DEF Apart
  <2>3. CASE to = "nm"
    <3>1. PICK t \in Nat : y = 10 * t /\ Apart(18520 * t, x, 9260)
      BY <1>1, <1>3, <2>2, <2>3
    <3>2. t = w
      BY <1>1, <2>2, <3>1 DEF Apart
    <3> QED
      BY <1>8, <1>14, <2>3, <3>1, <3>2
  <2>4. CASE to = "km"
    <3>1. PICK t \in Nat : y = 10 * t /\ Apart(10000 * t, x, 5000)
      BY <1>1, <1>2, <2>2, <2>4
    <3>2. CASE from = "nm"
      BY <1>4, <1>5, <1>14, <2>4, <3>1, <3>2
    <3>3. CASE from = "km"
      <4>1. PICK k \in Nat : v = 10 * k /\ Apart(10000 * k, 18520 * w, 5000)
        BY <1>14, <3>3
      <4>2. t = k
        BY <1>4, <3>1, <3>3, <4>1 DEF Apart
      <4> QED
        BY <1>5, <1>14, <2>4, <3>1, <4>1, <4>2
    <3> QED
      BY <3>2, <3>3 DEF Measures!Units
  <2> QED
    BY <2>3, <2>4 DEF Measures!Units
<1>15. ASSUME NEW k \in Nat, SettledKilometres(k, m),
              \/ from = "km" /\ v = 10 * k
              \/ from = "nm" /\ 540 <= v /\ v <= 999 /\ Apart(1852 * v, 10000 * k, 926)
       PROVE  Reads(to, y, m)
  <2>1. k \in Nat /\ 100 <= k /\ k <= 185
    BY <1>15 DEF SettledKilometres
  <2>2. Apart(x, 10000 * k, 926) /\ x >= 1000000 /\ x < 1852000
    BY <1>4, <1>15, <2>1 DEF Apart
  <2>3. CASE to = "km"
    <3>1. PICK t \in Nat : y = 10 * t /\ Apart(10000 * t, x, 5000)
      BY <1>1, <1>2, <2>2, <2>3
    <3>2. t = k
      BY <1>1, <2>2, <3>1 DEF Apart
    <3> QED
      BY <1>6, <1>15, <2>3, <3>1, <3>2
  <2>4. CASE to = "nm"
    <3>1. Apart(1852 * y, x, 926)
      BY <1>1, <1>3, <2>2, <2>4
    <3>2. CASE from = "km"
      <4>1. Apart(1852 * y, 10000 * k, 926)
        BY <1>4, <1>15, <3>1, <3>2 DEF Apart
      <4>2. 540 <= y /\ y <= 999
        BY <1>1, <2>1, <4>1 DEF Apart
      <4> QED
        BY <1>7, <1>15, <2>4, <4>1, <4>2
    <3>3. CASE from = "nm"
      <4>1. y = v \/ y = v + 1 \/ y + 1 = v
        BY <1>1, <1>4, <3>1, <3>3 DEF Apart
      <4>2. 540 <= v /\ v <= 999 /\ Apart(1852 * v, 10000 * k, 926)
        BY <1>15, <3>3
      <4>3. y = v
        BY <1>1, <1>4, <3>1, <3>3, <4>1, <4>2 DEF Apart
      <4> QED
        BY <1>7, <1>15, <2>4, <4>2, <4>3
    <3> QED
      BY <3>2, <3>3 DEF Measures!Units
  <2> QED
    BY <2>3, <2>4 DEF Measures!Units
<1>16. ASSUME NEW w \in Nat, SettledSmall(w, m),
              \/ from = "nm" /\ v = w
              \/ from = "km" /\ v < 1000 /\ Apart(1000 * v, 1852 * w, 500)
       PROVE  Reads(to, y, m)
  <2>1. w \in Nat /\ w <= 539
    BY <1>16 DEF SettledSmall
  <2>2. Apart(x, 1852 * w, 500) /\ x < 1000000
    BY <1>4, <1>16, <2>1 DEF Apart
  <2>3. CASE to = "nm"
    <3>1. Apart(1852 * y, x, 926)
      BY <1>1, <1>3, <2>2, <2>3
    <3>2. y = w
      BY <1>1, <2>1, <2>2, <3>1 DEF Apart
    <3> QED
      BY <1>9, <1>16, <2>3, <3>2
  <2>4. CASE to = "km"
    <3>1. Apart(1000 * y, x, 500)
      BY <1>1, <1>2, <2>2, <2>4
    <3>2. CASE from = "nm"
      <4>1. Apart(1000 * y, 1852 * w, 500) /\ y < 1000
        BY <1>1, <1>4, <1>16, <2>1, <3>1, <3>2 DEF Apart
      <4> QED
        BY <1>9, <1>16, <2>4, <4>1
    <3>3. CASE from = "km"
      <4>1. y = v
        BY <1>1, <1>4, <3>1, <3>3 DEF Apart
      <4> QED
        BY <1>9, <1>16, <2>4, <3>3, <4>1
    <3> QED
      BY <3>2, <3>3 DEF Measures!Units
  <2> QED
    BY <2>3, <2>4 DEF Measures!Units
<1>17. ASSUME from = "nm", v = 1000, 1838000 <= m /\ m <= 1865000 PROVE Reads(to, y, m)
  <2>1. x = 1852000
    BY <1>4, <1>17
  <2>2. CASE to = "nm"
    <3>1. PICK t \in Nat : y = 10 * t /\ Apart(18520 * t, x, 9260)
      BY <1>3, <2>1, <2>2
    <3>2. y = 1000
      BY <2>1, <3>1 DEF Apart
    <3> QED
      BY <1>17, <2>2, <3>2 DEF Reads
  <2>3. CASE to = "km"
    <3>1. PICK t \in Nat : y = 10 * t /\ Apart(10000 * t, x, 5000)
      BY <1>2, <2>1, <2>3
    <3>2. t = 185
      BY <2>1, <3>1 DEF Apart
    <3>3. SettledKilometres(t, m)
      <4>1. 100 <= 185 /\ 185 <= 185 /\ 185 \in Nat
        OBVIOUS
      <4> QED
        BY <1>17, <3>2, <4>1, KilometresSettle
    <3> QED
      BY <1>6, <2>3, <3>1, <3>3
  <2> QED
    BY <2>2, <2>3 DEF Measures!Units
<1> QED
  BY <1>1, <1>10, <1>11, <1>12, <1>13, <1>14, <1>15, <1>16, <1>17 DEF Reads, x

LEMMA MeasuresInit == Measures!Init => MeasuresInv
<1> SUFFICES ASSUME Measures!Init PROVE MeasuresInv
  OBVIOUS
<1>1. PICK lengths \in Measures!Defaults :
        page = [ unit |-> "nm", lengths |-> lengths, anchor |-> FALSE, typed |-> 0,
                 meant |-> [ i \in DOMAIN lengths |-> Measures!Centimetres(lengths[i], "nm") ] ]
  BY DEF Measures!Init
<1>2. \A i \in DOMAIN lengths : lengths[i] \in { 500, 1000, 2000 }
  <2>1. CASE lengths = <<500, 1000, 2000>>
    BY <2>1
  <2>2. CASE lengths = <<2000>>
    BY <2>2
  <2> QED
    BY <2>1, <2>2 DEF Measures!Defaults
<1>3. \A v \in { 500, 1000, 2000 } :
        /\ v \in Nat /\ v # 0
        /\ Measures!Centimetres(v, "nm") \in Nat /\ Measures!Centimetres(v, "nm") # 0
  BY DEF Measures!Centimetres
<1>4. \A v : Reads("nm", v, Measures!Centimetres(v, "nm"))
  BY DEF Reads
<1> QED
  BY <1>1, <1>2, <1>3, <1>4 DEF MeasuresInv, MeasureFields, Measures!Units

LEMMA MeasuresStep == MeasuresInv /\ Measures!Step => MeasuresInv'
<1> SUFFICES ASSUME MeasuresInv, Measures!Step PROVE MeasuresInv'
  OBVIOUS
<1>1. CASE Measures!UpdateRangeRingInput
  <2>1. PICK i \in DOMAIN page.lengths, v \in Lengths \cup { Measures!Nil } :
          page' = [ page EXCEPT !.lengths[i] = v,
                                !.meant[i] = Measures!Centimetres(v, page.unit),
                                !.typed = @ + 1 ]
    BY <1>1 DEF Measures!UpdateRangeRingInput
  <2>2. v \in Nat
    BY ViewsAssumption DEF Measures!LengthsAssumption, Measures!Nil
  <2>3. /\ Measures!Centimetres(v, page.unit) \in Nat
        /\ v = 0 <=> Measures!Centimetres(v, page.unit) = 0
    BY <2>2 DEF Measures!Centimetres
  <2>4. Reads(page.unit, v, Measures!Centimetres(v, page.unit))
    BY DEF Reads
  <2> QED
    BY <2>1, <2>2, <2>3, <2>4 DEF MeasuresInv, MeasureFields
<1>2. CASE Measures!PlaceAnchor \/ Measures!ClearAnchor
  BY <1>2 DEF Measures!PlaceAnchor, Measures!ClearAnchor, MeasuresInv, MeasureFields
<1>3. ASSUME NEW unit \in Measures!Units, Measures!SetRangeRingDisplayUnit(unit)
      PROVE  MeasuresInv'
  <2>1. PICK lengths :
          /\ DOMAIN lengths = DOMAIN page.lengths
          /\ \A i \in DOMAIN page.lengths :
               lengths[i] \in Measures!ConvertRangeRingInputValue(page.lengths[i], page.unit, unit)
          /\ page' = [ page EXCEPT !.lengths = lengths, !.unit = unit ]
    BY <1>3 DEF Measures!SetRangeRingDisplayUnit
  <2>2. ASSUME NEW i \in DOMAIN page.lengths
        PROVE  /\ lengths[i] \in Nat /\ (lengths[i] = 0 <=> page.meant[i] = 0)
               /\ Reads(unit, lengths[i], page.meant[i])
    <3>1. CASE page.lengths[i] = 0
      <4>1. lengths[i] = 0 /\ page.meant[i] = 0
        BY <2>1, <3>1 DEF Measures!ConvertRangeRingInputValue, Measures!Nil, MeasuresInv
      <4>2. Measures!Centimetres(0, unit) = 0
        BY DEF Measures!Centimetres
      <4> QED
        BY <4>1, <4>2 DEF Reads
    <3>2. CASE page.lengths[i] # 0
      BY <2>1, <3>2, ReadsKept DEF MeasuresInv
    <3> QED
      BY <3>1, <3>2
  <2> QED
    BY <2>1, <2>2 DEF MeasuresInv, MeasureFields
<1> QED
  BY <1>1, <1>2, <1>3 DEF Measures!Step

LEMMA MeasuresShow == MeasuresInv => Measures!RoundingStaysSmall
<1> SUFFICES ASSUME MeasuresInv, page.anchor
             PROVE  LET drawn == Measures!Drawn(page)
                    IN /\ DOMAIN drawn = { i \in DOMAIN page.meant : page.meant[i] # 0 }
                       /\ \A i \in DOMAIN drawn : /\ drawn[i] <= page.meant[i] + 15000
                                                  /\ page.meant[i] <= drawn[i] + 15000
  BY DEF Measures!RoundingStaysSmall
<1>1. DOMAIN Measures!Drawn(page) = { i \in DOMAIN page.meant : page.meant[i] # 0 }
  BY DEF Measures!Drawn, Measures!Nil, MeasuresInv
<1>2. ASSUME NEW i \in DOMAIN Measures!Drawn(page)
      PROVE  /\ Measures!Drawn(page)[i] <= page.meant[i] + 15000
             /\ page.meant[i] <= Measures!Drawn(page)[i] + 15000
  <2>1. /\ i \in DOMAIN page.lengths
        /\ Measures!Drawn(page)[i]
             = Measures!Metres(Measures!Centimetres(page.lengths[i], page.unit))
    BY <1>2 DEF Measures!Drawn
  <2> QED
    BY <2>1, ReadsNearby DEF MeasuresInv
<1> QED
  BY <1>1, <1>2
-----------------------------------------------------------------------------
(* The inductive invariant, a conjunct for each view.                      *)
ViewsInv ==
  /\ view = "lists"  => ListsInv
  /\ view = "editor" => EditorInv
  /\ view = "tools"  => ToolsInv
  /\ view = "triage" => TriageInv
  /\ view = "board"  => BoardInv /\ SavedInv
  /\ view = "debrief"  => DebriefInv
  /\ view = "briefing" => BriefingInv
  /\ view = "selection" => SelectionInv
  /\ view = "globe" => GlobeInv
  /\ view = "feed"  => FeedInv
  /\ view = "palette"  => PaletteInv
  /\ view = "timeline" => TimelineInv
  /\ view = "measures" => MeasuresInv

(* Every view keeps its conjunct, and no step is of two views.             *)
THEOREM Invariance == Spec => []ViewsInv
<1>1. Init => ViewsInv
  BY ListsInit, EditorInit, ToolsInit, TriageInit, BoardInit, SavedInit, DebriefInit,
    BriefingInit, SelectionInit, GlobeInit, FeedInit, PaletteInit, TimelineInit, MeasuresInit
  DEF Init, ViewsInv
<1>2. ASSUME ViewsInv, [Next]_vars PROVE ViewsInv'
  <2>1. CASE UNCHANGED vars
    <3> USE <1>2, <2>1 DEF vars, ViewsInv
    <3>1. /\ view = "editor" => EditorInv'
          /\ view = "tools"  => ToolsInv'
          /\ view = "triage" => TriageInv'
      BY DEF EditorInv, ToolsInv, TriageInv, Editor!FormStartsClean, Editor!SeedKey,
        Triage!IdsOf, Triage!CheckedWereListed
    <3>2. view = "board" => BoardInv' /\ SavedInv'
      BY DEF BoardInv, SavedInv, Drafted, DraftsOfArea, Written
    <3>3. view = "debrief" => DebriefInv'
      BY DEF DebriefInv
    <3>4. view = "briefing" => BriefingInv'
      BY DEF BriefingInv
    <3>5. view = "selection" => SelectionInv'
      BY DEF SelectionInv, Typed, Waits, Forgets, Believed, Agrees
    <3>6. view = "globe" => GlobeInv'
      BY DEF GlobeInv, Current, Marked, Globe!InData, Globe!Visible, Globe!VisibleSignal,
        Globe!MarkOf
    <3>7. view = "feed" => FeedInv'
      BY DEF FeedInv, FeedTyped, HeldSince, Covered, Unasked, Feed!Current, Feed!Snapshot
    <3>8. view = "lists" => ListsInv'
      BY DEF ListsInv, Lists!AppliedIsTheAnswer
    <3>9. view = "palette" => PaletteInv'
      BY SameResults DEF PaletteInv, Asked, Within
    <3>10. view = "timeline" => TimelineInv'
      BY DEF TimelineInv
    <3>11. view = "measures" => MeasuresInv'
      BY DEF MeasuresInv
    <3> QED
      BY <3>1, <3>2, <3>3, <3>4, <3>5, <3>6, <3>7, <3>8, <3>9, <3>10, <3>11
  <2>2. CASE Next
    BY <1>2, <2>2, ListsStep, EditorStep, ToolsStep, TriageStep, BoardStep, SavedStep,
      DebriefStep, BriefingStep, SelectionStep, GlobeStep, FeedStep, PaletteStep,
      TimelineStep, MeasuresStep
    DEF Next, Step, ViewsInv
  <2> QED
    BY <1>2, <2>1, <2>2
<1> QED
  BY <1>1, <1>2, PTL DEF Spec

(* Whatever is chosen, asked and answered in between, tasks tagged as the  *)
(* AI's are filtered by its last answer (handleNlSearch, TasksPage.tsx).   *)
THEOREM TaggedIsTheAnswer == Spec => []AppliedIsTheAnswer
BY Invariance, PTL DEF ViewsInv, ListsInv, AppliedIsTheAnswer

(* What was abandoned in a drawer, or answered late, is never in the form  *)
(* of the next (the effect of RuleFormDrawer.tsx that seeds the form).     *)
THEOREM NothingAbandonedReturns == Spec => []FormStartsClean
BY Invariance, PTL DEF ViewsInv, EditorInv, FormStartsClean

(* However buttons, keys and tools switch the tools, at most one takes the *)
(* clicks on the map (the toggles of useMapToolState.ts).                  *)
THEOREM OneToolTakesClicks == Spec => []OneToolAtATime
<1>1. ASSUME ToolsInv PROVE Tools!OneToolAtATime
  <2>1. Tools!Cardinality(page.tools) = Cardinality(page.tools)
    BY DEF Tools!Cardinality, Cardinality
  <2>2. Cardinality(page.tools) \in { 0, 1 }
    <3>1. CASE page.tools = {}
      BY <3>1, FS_EmptySet
    <3>2. ASSUME NEW t, page.tools = { t } PROVE Cardinality(page.tools) = 1
      <4>1. Cardinality({ t }) = 1
        BY FS_Singleton
      <4> QED
        BY <3>2, <4>1
    <3> QED
      BY <1>1, <3>1, <3>2 DEF ToolsInv
  <2> QED
    BY <1>1, <2>1, <2>2 DEF ToolsInv, Tools!OneToolAtATime
<1>2. ViewsInv => OneToolAtATime
  BY <1>1 DEF ViewsInv, OneToolAtATime
<1> QED
  BY <1>2, Invariance, PTL

(* However lists are fetched, filtered and checked, singly or in ranges, a *)
(* bulk action names only alerts that were listed (handleBulkClick).       *)
THEOREM CheckedAreListed == Spec => []CheckedWereListed
BY Invariance, PTL DEF ViewsInv, TriageInv, CheckedWereListed

(* While the operator is asked whether to close the alerts selected, the   *)
(* selection stands still (the confirmation of AlertTriagePage.tsx).       *)
THEOREM SelectionStands == Spec => AskedIsSent
<1>1. ASSUME ViewsInv, [Next]_vars
      PROVE  [ view = "triage" /\ page.confirming /\ page'.confirming
                 => page'.checked = page.checked ]_page
  BY <1>1, AskedStep DEF ViewsInv, Next, Step, vars
<1> QED
  BY <1>1, Invariance, PTL DEF Spec, AskedIsSent

(* Whatever is typed, selected, saved, deleted and listed in between, what *)
(* an area of operation holds was written for it (usePlanningDrafts.ts).   *)
THEOREM WrittenForItsArea == Spec => []SavedWhereWritten
BY Invariance, PTL DEF ViewsInv, BoardInv, Drafted, Written, SavedWhereWritten,
  Board!SavedWhereWritten

(* Whatever order lookups are answered in, the clicks of a panel move the  *)
(* replay in the order they were made (latestClickToken, DebriefPanel.tsx).*)
THEOREM ClicksKeepTheirOrder == Spec => LatestClickWins
<1>1. ASSUME ViewsInv, [Next]_vars
      PROVE  [ view = "debrief" /\ page'.moved.visit = page.moved.visit
                 => page'.moved.click >= page.moved.click ]_page
  BY <1>1, DebriefStep DEF ViewsInv, Next, Step, vars, MovedForward
<1> QED
  BY <1>1, Invariance, PTL DEF Spec, LatestClickWins

(* Whatever is chosen, replayed, generated and left since, a file is       *)
(* headed by what its summary was asked for (handleExport).                *)
THEOREM FilesAreLabelled == Spec => []ExportedAsGenerated
<1>1. ViewsInv => ExportedAsGenerated
  BY DEF ViewsInv, BriefingInv, Labelled, ExportedAsGenerated, Briefing!ExportedAsGenerated
<1> QED
  BY <1>1, Invariance, PTL

(* However the address comes to name an entity, once the effects have run  *)
(* it is selected, if it is there and shown (useMapUrlSelectionHydration,  *)
(* useEntitySelectionSync).                                                *)
THEOREM AddressesAreFollowed == Spec => []AddressIsFollowed
<1>1. ViewsInv => AddressIsFollowed
  BY Follows DEF ViewsInv, AddressIsFollowed
<1> QED
  BY <1>1, Invariance, PTL

(* In whatever order data, toggles and selection change, once the effects  *)
(* have run the globe is as they say (the layers under hooks/globe).       *)
THEOREM GlobeCatchesUp == Spec => []GlobeIsCurrent
<1>1. ViewsInv => GlobeIsCurrent
  BY GlobeFollows DEF ViewsInv, GlobeIsCurrent
<1> QED
  BY <1>1, Invariance, PTL

(* At the first visit a snapshot and an open stream leave no signal out,   *)
(* whatever broke before, for any limit of signals kept (useSignals.ts).   *)
THEOREM FeedMissesNothing == Spec => []FeedIsComplete
<1>1. ViewsInv => FeedIsComplete
  BY FeedShows DEF ViewsInv, FeedIsComplete
<1> QED
  BY <1>1, Invariance, PTL

(* A chokepoint that was saved stays the one being edited, so a second     *)
(* save makes no second one of it (the pending chokepoint of the board).   *)
THEOREM SavedOnce == Spec => []SavedStaysSelected
<1>1. ViewsInv => SavedStaysSelected
  BY DEF ViewsInv, SavedInv, SavedStaysSelected, Board!SavedStaysSelected
<1> QED
  BY <1>1, Invariance, PTL
(* While the palette is open and finds anything, a row is highlighted for  *)
(* Enter to run, whatever is typed, fetched, pointed at and reached by the *)
(* arrows in between (selected of GlobalSearch.tsx).                       *)
THEOREM ARowIsHighlighted == Spec => []SomethingHighlighted
<1>1. ViewsInv => SomethingHighlighted
  BY Highlights DEF ViewsInv, SomethingHighlighted
<1> QED
  BY <1>1, Invariance, PTL

(* Whatever commits while it is read and fetched again, a timeline of a    *)
(* debrief has no event twice or out of order, and leaves none out that    *)
(* had committed when its first page was fetched (apply_before_cursor,     *)
(* audit_events_controller.rb; useDebriefTimeline.ts).                     *)
THEOREM TimelinesAreWhole == Spec => []TimelineIsWhole
<1>1. ViewsInv => TimelineIsWhole
  BY TimelineShows DEF ViewsInv, TimelineIsWhole
<1> QED
  BY <1>1, Invariance, PTL

(* Offsets into a list that grows at its head repeat rows but skip none: a *)
(* signal that was there when the first page was fetched, newer than a row *)
(* and alone at its moment, is a row (paginate in base_controller.rb,      *)
(* useInfiniteQuery of the feed).                                          *)
THEOREM NoRowIsSkipped == Spec => []NothingSkipped
<1>1. ViewsInv => NothingSkipped
  BY ListsShow DEF ViewsInv, NothingSkipped
<1> QED
  BY <1>1, Invariance, PTL

(* However often the unit is switched, a ring is drawn within 150 m of     *)
(* what was typed for it and none appears or disappears: the roundings of  *)
(* the two units settle (convertRangeRingInputValue, mapRangeRings.ts).    *)
THEOREM RoundingNeverAddsUp == Spec => []RoundingStaysSmall
<1>1. ViewsInv => RoundingStaysSmall
  BY MeasuresShow DEF ViewsInv, RoundingStaysSmall
<1> QED
  BY <1>1, Invariance, PTL
=============================================================================
