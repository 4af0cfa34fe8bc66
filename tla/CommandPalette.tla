---------------------------- MODULE CommandPalette ----------------------------
(***************************************************************************)
(* The command palette: what a query finds among the commands and the      *)
(* entities whose lists have been fetched, in which order, what is         *)
(* highlighted and what Enter and a click run.  A query is what it matches *)
(* of each candidate, from a keyword, 1, to its whole title, 5; no match   *)
(* is 0.  The results are ordered by relevance and shown by type.          *)
(***************************************************************************)
EXTENDS Integers, Sequences, FiniteSets

CONSTANTS
  Queries,   \* what may be typed: functions from Candidates to 0..5
  MaxShown   \* bound on the results of a query

VARIABLE page

(* The candidates in their order, and the commands of commanders.          *)
Order      == <<"dashboard", "planning", "signout", "site", "task", "asset">>
Candidates == { Order[i] : i \in DOMAIN Order }
Types      == <<"command", "site", "task", "asset">>
TypeOf(c)  == IF c \in { "site", "task", "asset" } THEN c ELSE "command"
Fetched    == { "site", "task", "asset" }
OfCommanders == { "planning" }
Blank == [ c \in Candidates |-> 0 ]
None  == "none"

PaletteAssumption == Queries \subseteq [ Candidates -> 0..5 ] /\ MaxShown \in Nat \ { 0 }

TypeOK ==
  /\ page.open \in BOOLEAN /\ page.commander \in BOOLEAN
  /\ page.typed \in BOOLEAN /\ page.query \in Queries \cup { Blank }
  /\ page.lists \subseteq Fetched /\ page.selected \in -1..Len(Order)
  /\ page.ran \in Candidates \cup { None }

Init ==
  \E commander \in BOOLEAN :
    page = [ open |-> FALSE, commander |-> commander, typed |-> FALSE, query |-> Blank,
             lists |-> {}, selected |-> 0, ran |-> None ]
-----------------------------------------------------------------------------
(* What is found and how it is shown.                                      *)

Commands(p) ==
  { c \in Candidates : TypeOf(c) = "command" /\ (p.commander \/ c \notin OfCommanders) }
Index(c) == CHOOSE i \in DOMAIN Order : Order[i] = c
Group(c) == CHOOSE i \in DOMAIN Types : Types[i] = TypeOf(c)

(* A command's match counts a quarter more.                                *)
Relevance(p, c) == 4 * p.query[c] + (IF TypeOf(c) = "command" THEN 1 ELSE 0)
Before(p, a, b) ==
  IF ~p.typed \/ Relevance(p, a) = Relevance(p, b) THEN Index(a) < Index(b)
  ELSE Relevance(p, a) > Relevance(p, b)

Found(p) ==
  IF p.typed THEN { c \in Commands(p) \cup p.lists : p.query[c] > 0 } ELSE Commands(p)
Results(p) ==
  { c \in Found(p) : p.typed => Cardinality({ d \in Found(p) : Before(p, d, c) }) < MaxShown }
Count(p) == Cardinality(Results(p))

(* The row of a result, counted from 0: grouped by type in what is shown.  *)
ShownBefore(p, a, b) ==
  IF Group(a) = Group(b) THEN Before(p, a, b) ELSE Group(a) < Group(b)
Listed(p, i) == { c \in Results(p) : Cardinality({ d \in Results(p) : Before(p, d, c) }) = i }
Shown(p, i)  ==
  { c \in Results(p) : Cardinality({ d \in Results(p) : ShownBefore(p, d, c) }) = i }
Highlighted(p) == Shown(p, p.selected)

(* The highlight returns to the top when the query, or the number of       *)
(* results, changes.                                                       *)
WithQueryOnly(p, q) ==   \* the mutant that returns it for a query only
  IF q.typed # p.typed \/ q.query # p.query THEN [ q EXCEPT !.selected = 0 ] ELSE q
With(p, q) ==
  IF q.typed # p.typed \/ q.query # p.query \/ Count(q) # Count(p)
  THEN [ q EXCEPT !.selected = 0 ] ELSE q

-----------------------------------------------------------------------------
(* The shortcut, or the button, opens it empty; the shortcut, Escape and a *)
(* click beside it close it.                                               *)
Open ==
  /\ ~page.open
  /\ page' = [ page EXCEPT !.open = TRUE, !.typed = FALSE, !.query = Blank,
                           !.selected = 0, !.ran = None ]
Close == page.open /\ page' = [ page EXCEPT !.open = FALSE ]

Type(q) ==
  /\ page.open /\ ~(page.typed /\ q = page.query)
  /\ page' = With(page, [ page EXCEPT !.typed = TRUE, !.query = q ])
Erase ==
  /\ page.open /\ page.typed
  /\ page' = With(page, [ page EXCEPT !.typed = FALSE, !.query = Blank ])

(* A list, fetched while something is typed, gains or loses an entity.     *)
Refresh(t) ==
  /\ page.open /\ page.typed
  /\ page' = With(page, [ page EXCEPT !.lists = IF t \in @ THEN @ \ { t } ELSE @ \cup { t } ])

Down ==
  LET last == Count(page) - 1
  IN /\ page.open
     /\ page' = [ page EXCEPT !.selected = IF @ + 1 > last THEN last ELSE @ + 1 ]
Up ==
  page.open /\ page' = [ page EXCEPT !.selected = IF @ > 0 THEN @ - 1 ELSE 0 ]
Hover(i) ==
  page.open /\ Shown(page, i) # {} /\ page' = [ page EXCEPT !.selected = i ]

(* A result is run: the palette closes, and the user is taken to it or     *)
(* signed out.                                                             *)
Execute(c) == page' = [ page EXCEPT !.ran = c, !.open = FALSE ]
Click(i)   == page.open /\ \E c \in Shown(page, i) : Execute(c)
Enter      == page.open /\ \E c \in Listed(page, page.selected) : Execute(c)

Step ==
  \/ Open \/ Close \/ Erase \/ Down \/ Up \/ Enter
  \/ \E q \in Queries : Type(q)
  \/ \E t \in Fetched : Refresh(t)
  \/ \E i \in 0..Len(Order) - 1 : Hover(i) \/ Click(i)

Spec == Init /\ [][Step]_page
-----------------------------------------------------------------------------
(* However the results come and go under the keys and the pointer, one of  *)
(* the results that are shown is highlighted.                              *)
SomethingHighlighted ==
  page.open /\ Results(page) # {} => Highlighted(page) # {}

(* Enter runs the result that is highlighted, as the palette's hint says.  *)
EnterRunsHighlighted ==
  [][ Enter => page'.ran \in Highlighted(page) ]_page
=============================================================================
