------------------------------- MODULE RuleEditor -------------------------------
(***************************************************************************)
(* The page on which correlation rules are created, edited, tried and      *)
(* deleted.  Its drawers stay mounted when they close, and answers arrive  *)
(* at drawers that have since been closed or opened for another rule.      *)
(* Of a rule's content a version stands for the fields of the form; what   *)
(* the form does not show - a target site, actions other than a task - is  *)
(* "extra".  One overlay is open at a time: it covers the page behind it.  *)
(***************************************************************************)
EXTENDS Naturals, Sequences

CONSTANTS
  Rules,         \* the rules there are at first
  MaxEdits,      \* bound on edits of the form
  MaxRequests,   \* bound on saves, deletions and dry runs
  MaxColleague   \* bound on changes by colleagues

New     == "new"
Nothing == "nothing"

RulesAssumption ==
  /\ New \notin Rules /\ Nothing \notin Rules
  /\ { MaxEdits, MaxRequests, MaxColleague } \subseteq Nat

VARIABLE page

Targets   == Rules \cup { New }
Versions  == 0..(MaxEdits + MaxColleague)
Seeds     == { "default", "template" }
Forms     == [ seed : Targets \cup Seeds, version : Versions,
               mode : { "simple", "compound" }, conditions : 0..3 ]
NoRequest == [ id |-> Nothing, version |-> 0, extra |-> FALSE, conditions |-> 0 ]

(* What the server holds of a rule, and what the form is seeded with.      *)
Content == [ version : Versions, extra : BOOLEAN, conditions : { 0, 2, 3 } ]
DefaultForm ==
  [ seed |-> "default", version |-> 0, mode |-> "simple", conditions |-> 2 ]
TemplateForm == [ DefaultForm EXCEPT !.seed = "template", !.mode = "compound" ]

(* A simple rule has no conditions of its own: the form keeps two ready.   *)
RuleToForm(r, content) ==
  [ seed |-> r, version |-> content.version,
    mode |-> IF content.conditions = 0 THEN "simple" ELSE "compound",
    conditions |-> IF content.conditions = 0 THEN 2 ELSE content.conditions ]
BuildRulePayload(id, form) ==
  [ id |-> id, version |-> form.version, extra |-> FALSE,
    conditions |-> IF form.mode = "simple" THEN 0 ELSE form.conditions ]

TypeOK ==
  /\ DOMAIN page.rules \subseteq Rules
  /\ \A r \in DOMAIN page.rules : page.rules[r] \in Content
  /\ \A r \in DOMAIN page.listed : page.listed[r] \in Content
  /\ page.overlay \in { Nothing, "drawer", "templates", "delete", "dryRun" }
  /\ page.target \in Targets \cup { Nothing } /\ page.editing \in Targets
  /\ page.form \in Forms /\ page.touched \in BOOLEAN /\ page.seedKey \in Targets \cup { Nothing }
  /\ { page.saving.id, page.deleting } \subseteq Targets \cup { Nothing }
  /\ { page.running, page.result } \subseteq Rules \cup { Nothing }

Init ==
  \E rules \in [ Rules -> { [ version |-> 0, extra |-> extra, conditions |-> n ] :
                              extra \in BOOLEAN, n \in { 0, 2 } } ] :
    page = [ rules |-> rules, listed |-> rules, overlay |-> Nothing, target |-> Nothing,
             editing |-> New, initial |-> DefaultForm, form |-> DefaultForm,
             seedKey |-> Nothing, opened |-> DefaultForm, touched |-> FALSE,
             saving |-> NoRequest, deleting |-> Nothing, running |-> Nothing,
             result |-> Nothing, edits |-> 0, requests |-> 0, changes |-> 0 ]
-----------------------------------------------------------------------------
(* The form is seeded while the drawer renders, when its key changes: the  *)
(* key of a drawer that is closed is no rule's.                            *)

SeedKeyOfRule(p) == p.editing   \* the mutant that forgets that the drawer closes
SeedKey(p) == IF p.overlay = "drawer" THEN p.editing ELSE Nothing
Seed(p) ==
  IF p.editing = New THEN p.initial ELSE RuleToForm(p.editing, p.listed[p.editing])
Rendered(p) ==
  IF SeedKey(p) = p.seedKey THEN p
  ELSE [ p EXCEPT !.seedKey = SeedKey(p),
                  !.form = IF p.overlay = "drawer" THEN Seed(p) ELSE @ ]

Free(p) == p.overlay = Nothing
Close   == [ page EXCEPT !.overlay = Nothing, !.target = Nothing ]

(* "opened" and "touched" record what the drawer opens for, and whether    *)
(* the operator has changed anything since.                                *)
OpenDrawer(p) ==
  LET next == [ p EXCEPT !.overlay = "drawer", !.touched = FALSE ] IN
  Rendered([ next EXCEPT !.opened = Seed(next) ])

OpenCreate ==
  Free(page) /\ page' = OpenDrawer([ page EXCEPT !.editing = New, !.initial = DefaultForm ])
OpenTemplates ==
  Free(page) /\ page' = [ page EXCEPT !.overlay = "templates" ]
ApplyTemplate ==
  /\ page.overlay = "templates"
  /\ page' = OpenDrawer([ page EXCEPT !.editing = New, !.initial = TemplateForm ])
OpenEdit(r) ==
  Free(page) /\ page' = OpenDrawer([ page EXCEPT !.editing = r ])

(* Typing in a field, switching the mode, adding and removing conditions.  *)
Touch(form) == [ page EXCEPT !.form = form, !.touched = TRUE ]
Edit ==
  /\ page.overlay = "drawer" /\ page.edits < MaxEdits
  /\ \E form \in
       { [ page.form EXCEPT !.version = page.edits + page.changes + 1 ],
         [ page.form EXCEPT !.mode = IF @ = "simple" THEN "compound" ELSE "simple" ] } :
       page' = [ Touch(form) EXCEPT !.edits = @ + 1 ]
AddCondition ==
  /\ page.overlay = "drawer" /\ page.form.mode = "compound" /\ page.form.conditions < 3
  /\ page' = Touch([ page.form EXCEPT !.conditions = @ + 1 ])
CanRemove(form) == form.conditions > 2
RemoveCondition ==
  /\ page.overlay = "drawer" /\ page.form.mode = "compound" /\ CanRemove(page.form)
  /\ page' = Touch([ page.form EXCEPT !.conditions = @ - 1 ])

CanSend == page.requests < MaxRequests
Save ==
  /\ page.overlay = "drawer" /\ page.saving = NoRequest /\ CanSend
  /\ page' = [ page EXCEPT !.saving = BuildRulePayload(page.editing, page.form),
                           !.requests = @ + 1 ]

AskDelete(r) ==
  Free(page) /\ page.deleting = Nothing /\ CanSend
  /\ page' = [ page EXCEPT !.overlay = "delete", !.target = r ]
ConfirmDelete ==
  /\ page.overlay = "delete"
  /\ page' = [ Close EXCEPT !.deleting = page.target, !.requests = @ + 1 ]

OpenDryRun(r) ==
  Free(page) /\ page' = [ page EXCEPT !.overlay = "dryRun", !.target = r ]
Run ==
  /\ page.overlay = "dryRun" /\ page.running = Nothing /\ CanSend
  /\ page' = [ page EXCEPT !.running = page.target, !.requests = @ + 1 ]

(* Escape, Cancel or the cross: an open dry run also forgets its result.   *)
CloseOverlay ==
  /\ ~Free(page)
  /\ page' = Rendered([ Close EXCEPT !.result =
                          IF page.overlay = "dryRun" THEN Nothing ELSE @ ])

-----------------------------------------------------------------------------
(* The answers.  A save that succeeds closes the drawer, whatever is open  *)
(* in it by then; a result is shown by whichever drawer is open.           *)

Written(rules, request) ==
  IF request.id \notin DOMAIN rules THEN rules
  ELSE [ rules EXCEPT ![request.id] =
           [ version |-> request.version, extra |-> request.extra,
             conditions |-> request.conditions ] ]
SaveAnswered ==
  /\ page.saving # NoRequest
  /\ page.saving.id \in DOMAIN page.rules \cup { New }
  /\ page' = Rendered([ (IF page.overlay = "drawer" THEN Close ELSE page) EXCEPT
                          !.rules = Written(@, page.saving), !.saving = NoRequest ])
DeleteAnswered ==
  /\ page.deleting # Nothing
  /\ page' = [ page EXCEPT !.deleting = Nothing,
                           !.rules = [ r \in DOMAIN @ \ { page.deleting } |-> @[r] ] ]
RunAnswered ==
  /\ page.running # Nothing
  /\ page' = [ page EXCEPT !.running = Nothing, !.result = page.running ]
RequestFails ==
  \/ page.saving # NoRequest /\ page' = [ page EXCEPT !.saving = NoRequest ]
  \/ page.deleting # Nothing /\ page' = [ page EXCEPT !.deleting = Nothing ]
  \/ page.running # Nothing /\ page' = [ page EXCEPT !.running = Nothing ]

Fetched ==
  /\ page.listed # page.rules
  /\ page' = [ page EXCEPT !.listed = page.rules ]
Colleague(r) ==
  /\ page.changes < MaxColleague /\ r \in DOMAIN page.rules
  /\ page' = [ page EXCEPT !.rules[r].version = page.edits + page.changes + 1,
                           !.changes = @ + 1 ]

Step ==
  \/ OpenCreate \/ OpenTemplates \/ ApplyTemplate \/ Edit \/ AddCondition
  \/ RemoveCondition \/ Save \/ ConfirmDelete \/ Run \/ CloseOverlay
  \/ SaveAnswered \/ DeleteAnswered \/ RunAnswered \/ RequestFails \/ Fetched
  \/ \E r \in DOMAIN page.listed : OpenEdit(r) \/ AskDelete(r) \/ OpenDryRun(r)
  \/ \E r \in Rules : Colleague(r)

Spec == Init /\ [][Step]_page
-----------------------------------------------------------------------------
(* What was typed and abandoned, or answered late, never comes back: until *)
(* the operator changes something in it, a drawer that was opened - again, *)
(* it may be - holds the rule as it was then listed, or the template or    *)
(* defaults it was opened with, whatever was typed in it before.           *)
FormStartsClean ==
  page.overlay = "drawer" /\ ~page.touched => page.form = page.opened

(* "Dry Run - <rule>": the result shown is that of the rule in the title.  *)
ResultIsOfTheRule ==
  page.overlay = "dryRun" /\ page.result # Nothing => page.result = page.target

(* Saving changes what was edited: the rest of the rule stays as it was.   *)
SaveKeepsTheRest ==
  [][ \A r \in DOMAIN page.rules \cap DOMAIN page'.rules :
        page.rules[r].extra => page'.rules[r].extra ]_page

(* A save closes the drawer of the rule that was saved, and no other.      *)
SaveClosesItsOwn ==
  [][ SaveAnswered /\ page.overlay = "drawer" /\ page'.overlay = Nothing
        => page.editing = page.saving.id ]_page
=============================================================================
