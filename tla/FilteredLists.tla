---------------------------- MODULE FilteredLists ----------------------------
(***************************************************************************)
(* The signal feed and the list of tasks under a filter: one chosen by     *)
(* hand, or one the AI makes of a sentence.  "main" is the part of it that *)
(* can also be chosen, "scope" tells that the AI has narrowed it further.  *)
(* The feed's rows come in pages of a list that grows at any place, newest *)
(* first, while the operator scrolls and the pages are fetched again.  A   *)
(* list nobody looks at is taken to be fetched anew.  Items are numbered   *)
(* by age, but the two oldest are of one moment.                           *)
(***************************************************************************)
EXTENDS Integers, Sequences, FiniteSets

CONSTANTS
  MaxItems,   \* bound on the items
  MaxAsks,    \* bound on the sentences sent to the AI
  PageSize,
  Mains       \* what may be chosen: "even", "odd", or both

ListsAssumption == MaxItems \in Nat /\ PageSize \in Nat \ { 0 }

VARIABLE page

Items    == 1..MaxItems
Unset    == "unset"
Kinds    == { "signals", "tasks" }
Filters  == [ main : Mains \cup { Unset }, scope : BOOLEAN ]
NoFilter == [ main |-> Unset, scope |-> FALSE ]
Idle     == [ kind |-> "idle", got |-> <<>> ]

TypeOK ==
  /\ page.list \in Kinds /\ page.replaying \in BOOLEAN /\ page.commander \in BOOLEAN
  /\ page.filter \in Filters /\ page.answer \in Filters
  /\ page.applied \in BOOLEAN /\ page.loading \in BOOLEAN /\ page.failed \in BOOLEAN
  /\ page.asked \in 0..MaxAsks /\ page.out \in 0..MaxAsks /\ page.known \subseteq Items
  /\ page.fetch.kind \in { "idle", "more", "all" }

Init ==
  \E list \in Kinds, replaying, commander \in BOOLEAN :
    page = [ list |-> list, replaying |-> replaying, commander |-> commander,
             filter |-> NoFilter, answer |-> NoFilter, applied |-> FALSE,
             loading |-> FALSE, asked |-> 0, out |-> 0,
             known |-> {}, pages |-> <<>>, fetch |-> Idle, failed |-> FALSE ]
-----------------------------------------------------------------------------
(* The filter.                                                             *)

(* Without one, the feed streams its signals and fetches no pages.         *)
Streams(p) == p.list = "signals" /\ ~p.replaying /\ p.filter = NoFilter

With(p, filter) ==
  IF filter = p.filter THEN p
  ELSE [ p EXCEPT !.filter = filter, !.pages = <<>>, !.fetch = Idle, !.failed = FALSE ]

(* A choice discards what the AI had set; on the tasks it also discards    *)
(* the sentence, though not the call that may be out.                      *)
Choose(main) ==
  page' = [ With(page, [ main |-> main, scope |-> FALSE ]) EXCEPT
              !.applied = FALSE, !.loading = @ /\ page.list = "signals" ]

(* The button is "clear" while a filter is applied; Enter asks again.      *)
Ask ==
  /\ page.commander /\ ~page.loading /\ page.asked < MaxAsks
  /\ page' = [ page EXCEPT !.loading = TRUE, !.asked = @ + 1, !.out = @ + 1 ]
Clear ==
  /\ page.commander /\ page.applied
  /\ page' = [ With(page, NoFilter) EXCEPT
                 !.applied = FALSE, !.loading = @ /\ page.list = "signals" ]

(* The feed keeps what was chosen where the AI names nothing.              *)
AnsweredKeeping(p, f) ==   \* the mutant: the tasks do so too
  IF f.main = Unset THEN [ f EXCEPT !.main = p.filter.main ] ELSE f
Answered(p, f) ==
  IF p.list = "signals" /\ f.main = Unset THEN [ f EXCEPT !.main = p.filter.main ] ELSE f
Answer(f) ==
  /\ page.out > 0
  /\ page' = [ With(page, Answered(page, f)) EXCEPT
                 !.answer = f, !.applied = TRUE, !.loading = FALSE, !.out = @ - 1 ]
AskFails == page.out > 0 /\ page' = [ page EXCEPT !.loading = FALSE, !.out = @ - 1 ]

-----------------------------------------------------------------------------
(* The pages.                                                              *)

Moment(i)     == IF i = 1 THEN 2 ELSE i
MainOf(i)     == IF i % 2 = 0 THEN "even" ELSE "odd"
Matches(f, i) == f.main \in { Unset, MainOf(i) } /\ (f.scope => i > 1)

(* The server orders by moment, items of one moment as it happens.         *)
Before(up, a, b) ==
  IF Moment(a) = Moment(b) THEN (IF up THEN a < b ELSE a > b) ELSE Moment(a) > Moment(b)
Place(all, up, i) == Cardinality({ j \in all : Before(up, j, i) })
Page(filter, known, n, up) ==
  LET all == { i \in known : Matches(filter, i) }
  IN [ ids   |-> { i \in all : Place(all, up, i) \in (n - 1) * PageSize..n * PageSize - 1 },
       known |-> known, more |-> n * PageSize < Cardinality(all) ]

Rows(pages) == UNION { pages[n].ids : n \in DOMAIN pages }

(* The interval, or a return to the window, fetches every page again       *)
(* unless something is in flight; an injected signal does so regardless.   *)
Refetch ==
  /\ ~Streams(page) /\ page.fetch = Idle
  /\ page' = [ page EXCEPT !.fetch = [ kind |-> "all", got |-> <<>> ] ]
Inject ==
  /\ page.list = "signals" /\ page.commander /\ ~page.replaying
  /\ page' = IF Streams(page) THEN page
             ELSE [ page EXCEPT !.fetch = [ kind |-> "all", got |-> <<>> ] ]

(* The last rows come into view.  What is being fetched again is dropped.  *)
More ==
  /\ page.list = "signals" /\ ~Streams(page) /\ page.fetch.kind # "more"
  /\ Rows(page.pages) # {} /\ page.pages[Len(page.pages)].more
  /\ page' = [ page EXCEPT !.fetch = [ kind |-> "more", got |-> <<>> ] ]

Fetched(p, pages) == [ p EXCEPT !.pages = pages, !.fetch = Idle, !.failed = FALSE ]

(* Pages fetched again replace the old ones together.                      *)
RenewedFirst(old, got) == IF old = <<>> THEN got ELSE <<got[1]>> \o Tail(old)   \* the mutant
Renewed(old, got)      == got
NextPage(pages, up) == Page(page.filter, page.known, Len(pages) + 1, up)
Arrive(up) ==
  \/ /\ page.fetch.kind = "more"
     /\ page' = Fetched(page, Append(page.pages, NextPage(page.pages, up)))
  \/ /\ page.fetch.kind = "all"
     /\ LET next == NextPage(page.fetch.got, up)
            got  == Append(page.fetch.got, next)
        IN page' = IF next.more /\ Len(got) < Len(page.pages)
                   THEN [ page EXCEPT !.fetch.got = got ]
                   ELSE Fetched(page, Renewed(page.pages, got))

(* A failure replaces the rows by the error until a fetch succeeds.        *)
FetchFails ==
  page.fetch # Idle /\ page' = [ page EXCEPT !.fetch = Idle, !.failed = TRUE ]

Occur(i) == i \notin page.known /\ page' = [ page EXCEPT !.known = @ \cup { i } ]

Step ==
  \/ \E main \in Mains \cup { Unset } : Choose(main)
  \/ Ask \/ Clear \/ AskFails \/ Refetch \/ Inject \/ More \/ FetchFails
  \/ \E f \in Filters : Answer(f)
  \/ \E up \in BOOLEAN : Arrive(up)
  \/ \E i \in Items : Occur(i)

Spec == Init /\ [][Step]_page
-----------------------------------------------------------------------------
(* Scrolled and fetched again while signals arrive, the pages of the feed  *)
(* leave none out between them: one that was there when the first page was *)
(* fetched, and is newer than a row, is a row.  Not so for signals of one  *)
(* moment, which two pages may order differently.                          *)
NothingSkipped ==
  page.pages # <<>> /\ ~page.failed =>
    LET rows == Rows(page.pages)
    IN \A i \in page.pages[1].known :
         /\ Matches(page.filter, i) /\ \E r \in rows : r < i
         /\ \A j \in Items \ { i } : Moment(j) # Moment(i)
         => i \in rows

(* While the tasks are tagged as filtered by the AI, the filter is the one *)
(* of its last answer, whatever was chosen, asked and answered in between. *)
AppliedIsTheAnswer ==
  page.list = "tasks" /\ page.applied => page.filter = page.answer

(* A signal has one row.                                                   *)
OneRowEach ==
  \A m, n \in DOMAIN page.pages :
    m # n => page.pages[m].ids \cap page.pages[n].ids = {}
=============================================================================
