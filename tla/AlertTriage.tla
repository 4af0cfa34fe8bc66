------------------------------ MODULE AlertTriage ------------------------------
(***************************************************************************)
(* The lists of alerts an operator triages: the triage page, the panel of  *)
(* the dashboard and the tab of a site.  Rows are moved one at a time, by  *)
(* their buttons or from the keyboard, or together, by a selection; all    *)
(* the while colleagues move alerts, rules fire new ones, and the list is  *)
(* fetched again under the operator's hands.  A list may be out of date:   *)
(* "status" is the server's, "rows" is what is shown.                      *)
(*                                                                         *)
(* The tab of a site is a component without a key: a search leads from one *)
(* site to another under it, and what it remembers stays.  Two sites stand *)
(* for all; the other pages list the alerts of every site.                 *)
(***************************************************************************)
EXTENDS Naturals, Sequences, FiniteSets, SequencesExt

CONSTANTS
  MaxAlerts,    \* bound on alerts; the greater of two is the newer
  MaxRequests,  \* bound on requests sent
  MaxMoves      \* bound on moves by colleagues

TriageAssumption == { MaxAlerts, MaxRequests, MaxMoves } \subseteq Nat \ { 0 }

VARIABLE page

Alerts   == 1..MaxAlerts
Statuses == { "unacknowledged", "acknowledged", "investigating", "closed" }
Filters  == { "all" } \cup Statuses
Pages    == { "triage", "dashboard", "site" }
Homes    == 1..2   \* the sites

(* The buttons a row of that status has.                                   *)
Transitions(status) ==
  CASE status = "unacknowledged" -> { "acknowledged", "investigating", "closed" }
    [] status = "acknowledged"   -> { "investigating", "closed", "unacknowledged" }
    [] status = "investigating"  -> { "closed", "acknowledged" }
    [] status = "closed"         -> { "unacknowledged", "investigating" }
KeyActions  == { "acknowledged", "investigating", "closed" }
BulkActions == KeyActions

(* What the server allows.                                                 *)
Allowed(status) ==
  CASE status = "unacknowledged" -> { "acknowledged", "investigating", "closed" }
    [] status = "acknowledged"   -> { "investigating", "closed", "unacknowledged" }
    [] status = "investigating"  -> { "closed", "acknowledged" }
    [] status = "closed"         -> { "unacknowledged", "investigating" }

NoBulk == [ ids |-> {}, to |-> "closed" ]

TypeOK ==
  /\ page.where \in Pages /\ page.filter \in Filters
  /\ page.fired \in 0..MaxAlerts /\ page.status \in [ Alerts -> Statuses ]
  /\ page.home \in [ Alerts -> Homes ] /\ page.site \in Homes
  /\ { page.rows, page.kept } \subseteq Seq([ id : Alerts, status : Statuses ])
  /\ page.focus \in 0..Len(page.rows) /\ page.last \in 0..MaxAlerts
  /\ page.checked \subseteq Alerts /\ page.listed \subseteq Alerts
  /\ page.confirming \in BOOLEAN /\ page.told \in BOOLEAN
  /\ page.sent \subseteq [ id : Alerts, to : Statuses, by : { "row", "key" } ]
  /\ page.bulk \in [ ids : SUBSET Alerts, to : Statuses ]

Init ==
  \E where \in Pages : \E home \in [ Alerts -> IF where = "site" THEN Homes ELSE { 1 } ] :
    page = [ where |-> where, home |-> home, site |-> 1,
             filter |-> IF where = "triage" THEN "unacknowledged" ELSE "all",
             fired |-> 1, status |-> [ a \in Alerts |-> "unacknowledged" ],
             rows |-> <<>>, kept |-> <<>>, focus |-> 0, last |-> 0, checked |-> {}, listed |-> {},
             confirming |-> FALSE, told |-> FALSE, sent |-> {}, bulk |-> NoBulk,
             requests |-> 0, moves |-> 0 ]
-----------------------------------------------------------------------------
(* The list.                                                               *)

Matching(p) ==
  { a \in 1..p.fired : /\ p.filter \in { "all", p.status[a] }
                       /\ p.where = "site" => p.home[a] = p.site }
Listing(p) ==
  LET ids == SetToSortSeq(Matching(p), >)
  IN [ i \in 1..Len(ids) |-> [ id |-> ids[i], status |-> p.status[ids[i]] ] ]
IdsOf(rows) == { rows[i].id : i \in 1..Len(rows) }

(* The focus is lost when the number of rows changes.                      *)
WithRows(p, rows) ==
  [ p EXCEPT !.rows = rows, !.listed = @ \cup IdsOf(rows),
             !.focus = IF Len(rows) = Len(p.rows) THEN @ ELSE 0 ]

Fetched == page.rows # Listing(page) /\ page' = WithRows(page, Listing(page))

(* Another filter: nothing is checked, and nothing shown until it answers. *)
KeepChecked(p) == [ p EXCEPT !.listed = {} ]   \* the mutant that keeps the selection
Unchecked(p)   == [ p EXCEPT !.listed = {}, !.checked = {} ]
SwitchFilter(f) ==
  /\ page.where = "triage" /\ ~page.confirming /\ f # page.filter
  /\ page' = WithRows([ Unchecked(page) EXCEPT !.filter = f ], <<>>)

(* Another site under the same tab: its list as it was last shown, or none *)
(* until it answers.  What is checked, and what was sent, is not touched.  *)
VisitSite(site) ==
  /\ page.where = "site" /\ site # page.site
  /\ \E rows \in { <<>>, page.kept } :
       page' = WithRows([ page EXCEPT !.site = site, !.kept = page.rows ], rows)

-----------------------------------------------------------------------------
(* Checking rows.                                                          *)

(* Only the triage page shows the toolbar over an empty list.              *)
Toolbar == ~page.confirming /\ (page.where = "triage" \/ page.rows # <<>>)

SomeChecked == page.checked # {}
AllChecked  ==
  IF page.where = "site"
  THEN page.rows # <<>> /\ IdsOf(page.rows) \subseteq page.checked
  ELSE SomeChecked /\ Cardinality(page.checked) = Len(page.rows)

ToggleAll ==
  /\ Toolbar
  /\ page' = [ page EXCEPT !.checked = IF AllChecked THEN {} ELSE IdsOf(page.rows),
                           !.last = IF page.where = "triage" THEN 0 ELSE @ ]

Check(i) ==
  /\ ~page.confirming
  /\ LET id == page.rows[i].id IN
     page' = [ page EXCEPT
                 !.checked = IF id \in @ THEN @ \ { id } ELSE @ \cup { id },
                 !.last = IF page.where = "triage" THEN i ELSE @ ]

(* With shift held down, everything from the row last checked: its place,  *)
(* whatever is there now.                                                  *)
CheckRange(i) ==
  /\ page.where = "triage" /\ ~page.confirming /\ page.last # 0
  /\ LET between(j) == j \in page.last..i \/ j \in i..page.last
         range      == { page.rows[j].id : j \in { j \in 1..Len(page.rows) : between(j) } }
     IN page' = [ page EXCEPT !.checked =
                    IF page.rows[i].id \in @ THEN @ \ range ELSE @ \cup range ]

Clear == Toolbar /\ SomeChecked /\ page' = [ page EXCEPT !.checked = {} ]

-----------------------------------------------------------------------------
(* Sending: what is checked together, or one row when nothing is checked.  *)

CanSend    == page.requests < MaxRequests
Send(p)    == [ p EXCEPT !.requests = @ + 1 ]
ExecuteBulk(to) ==
  page' = Send([ page EXCEPT !.bulk = [ ids |-> page.checked, to |-> to ] ])

(* Only the triage page asks before it closes alerts.                      *)
BulkClick(to) ==
  /\ Toolbar /\ SomeChecked /\ page.bulk = NoBulk /\ CanSend
  /\ IF page.where = "triage" /\ to = "closed"
     THEN page' = [ page EXCEPT !.confirming = TRUE ]
     ELSE ExecuteBulk(to)
ConfirmClose == page.confirming /\ page.bulk = NoBulk /\ CanSend /\ ExecuteBulk("closed")
CancelClose  == page.confirming /\ page' = [ page EXCEPT !.confirming = FALSE ]
Dismiss      == page.told /\ page' = [ page EXCEPT !.told = FALSE ]

(* On the triage page every row waits for its own request, elsewhere all   *)
(* rows wait for one.                                                      *)
Waiting(id) ==
  \E r \in page.sent : r.by = "row" /\ (r.id = id \/ page.where # "triage")
RowClick(i, to) ==
  LET row == page.rows[i] IN
  /\ ~SomeChecked /\ CanSend /\ to \in Transitions(row.status) /\ ~Waiting(row.id)
  /\ page' = Send([ page EXCEPT !.sent = @ \cup { [ id |-> row.id, to |-> to, by |-> "row" ] } ])

Keyboard == page.where = "triage" /\ ~SomeChecked /\ page.rows # <<>>
KeyMoves ==
  { IF page.focus = Len(page.rows) THEN page.focus ELSE page.focus + 1,   \* j
    IF page.focus <= 1 THEN 1 ELSE page.focus - 1,                         \* k
    0 }                                                                    \* Escape
KeyMove == Keyboard /\ \E focus \in KeyMoves : page' = [ page EXCEPT !.focus = focus ]
KeyAct(to) ==
  /\ Keyboard /\ page.focus # 0 /\ CanSend
  /\ page' = Send([ page EXCEPT !.sent = @ \cup
                      { [ id |-> page.rows[page.focus].id, to |-> to, by |-> "key" ] } ])

-----------------------------------------------------------------------------
(* The server.  A refused move changes nothing, and a bulk action moves    *)
(* what it can; its answer ends the selection and the confirmation.        *)

StillAsking(p) == [ p EXCEPT !.bulk = NoBulk, !.checked = {} ]   \* the mutant
AfterBulk(p) ==
  [ p EXCEPT !.bulk = NoBulk, !.checked = {}, !.confirming = FALSE ]

Moved(status, ids, to) ==
  [ a \in Alerts |-> IF a \in ids /\ to \in Allowed(status[a]) THEN to ELSE status[a] ]
RowAnswered(r) ==
  /\ r \in page.sent
  /\ page' = [ page EXCEPT !.sent = @ \ { r }, !.status = Moved(@, { r.id }, r.to) ]
BulkAnswered ==
  /\ page.bulk # NoBulk
  /\ LET refused == { a \in page.bulk.ids : page.bulk.to \notin Allowed(page.status[a]) } IN
     page' = [ AfterBulk(page) EXCEPT
                 !.status = Moved(@, page.bulk.ids, page.bulk.to),
                 !.told = page.where = "triage" /\ refused # {} ]
RequestFails ==
  \/ \E r \in page.sent : page' = [ page EXCEPT !.sent = @ \ { r } ]
  \/ page.bulk # NoBulk /\ page' = [ page EXCEPT !.bulk = NoBulk ]

Fire ==
  page.fired < MaxAlerts /\ page' = [ page EXCEPT !.fired = @ + 1 ]
Colleague(a, to) ==
  /\ page.moves < MaxMoves /\ a <= page.fired /\ to \in Allowed(page.status[a])
  /\ page' = [ page EXCEPT !.status[a] = to, !.moves = @ + 1 ]

Step ==
  \/ Fetched \/ ToggleAll \/ Clear \/ ConfirmClose \/ CancelClose \/ Dismiss
  \/ KeyMove \/ BulkAnswered \/ RequestFails \/ Fire
  \/ \E f \in Filters : SwitchFilter(f)
  \/ \E site \in Homes : VisitSite(site)
  \/ \E i \in 1..Len(page.rows) :
       Check(i) \/ CheckRange(i) \/ \E to \in Statuses : RowClick(i, to)
  \/ \E to \in BulkActions : BulkClick(to)
  \/ \E to \in KeyActions : KeyAct(to)
  \/ \E r \in page.sent : RowAnswered(r)
  \/ \E a \in Alerts, to \in Statuses : Colleague(a, to)

Spec == Init /\ [][Step]_page
-----------------------------------------------------------------------------
(* Whatever was fetched, moved or fired while the operator checked rows,   *)
(* singly or by ranges, a bulk action can only name alerts that have been  *)
(* on the list since the operator chose its filter, or came to the page.   *)
(* On the tab of a site that is less than one would ask: see below.        *)
CheckedWereListed == page.checked \subseteq page.listed

(* While the operator is asked whether to close so many alerts, none is    *)
(* added to or taken from the selection that the answer will be about.     *)
AskedIsSent ==
  [][ page.confirming /\ page'.confirming => page'.checked = page.checked ]_page

(* "Reset focus when matches change (filter switch, new data)"             *)
(* (useTriageKeyboard.ts:40): a key never acts on another alert than the   *)
(* one the operator moved the focus to.                                    *)
FocusStaysOnAlert ==
  [][ Fetched /\ page.focus # 0 /\ page'.focus # 0
        => page'.rows[page'.focus].id = page.rows[page.focus].id ]_page

(* Refuted: a bulk action from the tab of a site names alerts of that      *)
(* site.  The selection outlives the site it was made on                   *)
(* (SiteRuleFiresTab.tsx:78), and is sent with the rest.                   *)
CheckedAreOfTheSite ==
  page.where = "site" => \A a \in page.checked : page.home[a] = page.site
=============================================================================
