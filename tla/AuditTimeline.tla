---------------------------- MODULE AuditTimeline ----------------------------
(***************************************************************************)
(* The timeline of a debrief: the audit events of a range before the       *)
(* moment it was first opened, newest first, in pages that continue where  *)
(* the last one ended, while transactions commit events of any moment that *)
(* has come.  Events are numbered by moment and id, two to a moment.       *)
(***************************************************************************)
EXTENDS Naturals, Sequences, FiniteSets

CONSTANTS
  MaxEvents,   \* bound on the events
  Spans,       \* the ranges, in moments
  PageLimit    \* DEBRIEF_LIMIT

TimelineAssumption == MaxEvents \in Nat /\ Spans \subseteq Nat /\ PageLimit \in Nat \ { 0 }

VARIABLE page

Events    == 1..MaxEvents
Moment(i) == (i + 1) \div 2
Now       == Moment(MaxEvents)
Unset     == [ anchor |-> 0, pages |-> <<>>, fetch |-> "idle", got |-> <<>>,
               failed |-> FALSE ]

TypeOK ==
  /\ page.now \in 1..Now /\ page.known \subseteq Events
  /\ page.shown \subseteq Spans /\ DOMAIN page.cache = Spans
  /\ \A s \in Spans : /\ page.cache[s].fetch \in { "idle", "more", "all" }
                      /\ page.cache[s].anchor \in 0..Now

Init ==
  page = [ now |-> 1, known |-> {}, shown |-> {}, cache |-> [ s \in Spans |-> Unset ] ]
-----------------------------------------------------------------------------
(* The server: the events of the range that come after the cursor, if any. *)

AfterMoment(i, cursor) == cursor # 0 => Moment(i) < Moment(cursor)   \* the mutant
After(i, cursor) ==
  cursor # 0 => \/ Moment(i) < Moment(cursor)
                \/ Moment(i) = Moment(cursor) /\ i < cursor
InRange(s, i) == Moment(i) + s >= page.cache[s].anchor /\ Moment(i) <= page.cache[s].anchor

Index(s, cursor) ==
  LET rows == { i \in page.known : InRange(s, i) /\ After(i, cursor) }
  IN [ ids   |-> { i \in rows : Cardinality({ j \in rows : j > i }) < PageLimit },
       more  |-> Cardinality(rows) > PageLimit,
       known |-> page.known ]

(* The next page continues after the last row of the last.                 *)
Final(pages)  == pages[Len(pages)]
Cursor(pages) ==
  IF pages = <<>> THEN 0
  ELSE CHOOSE i \in Final(pages).ids : \A j \in Final(pages).ids : i <= j
-----------------------------------------------------------------------------
(* A range that was never answered is opened at the present moment; one    *)
(* that was is fetched again, if it has aged, from the moment it had.      *)
Opened(p, s, aged) ==
  LET t == p.cache[s]
  IN IF t.fetch # "idle" THEN p
     ELSE IF t.pages = <<>>
     THEN [ p EXCEPT !.cache[s] = [ Unset EXCEPT !.anchor = p.now, !.fetch = "all" ] ]
     ELSE IF aged THEN [ p EXCEPT !.cache[s].fetch = "all" ] ELSE p

Choose(s, aged) ==
  page.shown # { s } /\ page' = Opened([ page EXCEPT !.shown = { s } ], s, aged)
Close == page.shown # {} /\ page' = [ page EXCEPT !.shown = {} ]

(* What nobody looks at is forgotten after a while.                        *)
Forget(s) ==
  /\ s \notin page.shown /\ page.cache[s].fetch = "idle" /\ page.cache[s] # Unset
  /\ page' = [ page EXCEPT !.cache[s] = Unset ]

(* The window is looked at again, or the network returns.                  *)
Focus(s) ==
  /\ s \in page.shown /\ page.cache[s].fetch = "idle"
  /\ page' = [ page EXCEPT !.cache[s].fetch = "all" ]

(* Pages that are being fetched again are given up for the next one.       *)
LoadMore(s) ==
  LET t == page.cache[s]
  IN /\ s \in page.shown /\ t.pages # <<>> /\ Final(t.pages).more
     /\ ~t.failed /\ t.fetch # "more"
     /\ page' = [ page EXCEPT !.cache[s] = [ @ EXCEPT !.fetch = "more", !.got = <<>> ] ]

Fetched(t, pages) ==
  [ t EXCEPT !.pages = pages, !.fetch = "idle", !.got = <<>>, !.failed = FALSE ]

(* Pages fetched again replace the old ones together.                      *)
Arrive(s) ==
  LET t    == page.cache[s]
      next == Index(s, Cursor(t.got))
      got  == Append(t.got, next)
  IN \/ /\ t.fetch = "more"
        /\ page' = [ page EXCEPT !.cache[s] =
                       Fetched(t, Append(t.pages, Index(s, Cursor(t.pages)))) ]
     \/ /\ t.fetch = "all"
        /\ page' = [ page EXCEPT !.cache[s] =
                       IF next.more /\ Len(got) < Len(t.pages) THEN [ t EXCEPT !.got = got ]
                       ELSE Fetched(t, got) ]

(* A timeline that was never answered moves to the moment of its failure.  *)
FetchFails(s) ==
  LET t == page.cache[s]
  IN /\ t.fetch # "idle"
     /\ page' = [ page EXCEPT !.cache[s] =
          [ t EXCEPT !.fetch = "idle", !.got = <<>>, !.failed = TRUE,
                     !.anchor = IF t.pages = <<>> THEN page.now ELSE @ ] ]

Commit(i) ==
  /\ i \notin page.known /\ Moment(i) <= page.now
  /\ page' = [ page EXCEPT !.known = @ \cup { i } ]
Tick == page.now < Now /\ page' = [ page EXCEPT !.now = @ + 1 ]

Step ==
  \/ Close \/ Tick
  \/ \E s \in Spans, aged \in BOOLEAN : Choose(s, aged)
  \/ \E s \in Spans : Forget(s) \/ Focus(s) \/ LoadMore(s) \/ Arrive(s) \/ FetchFails(s)
  \/ \E i \in Events : Commit(i)

Spec == Init /\ [][Step]_page
-----------------------------------------------------------------------------
(* The pages are a timeline: newest first, none of their rows twice, and   *)
(* none left out that had committed when the first was fetched, however    *)
(* many events share a moment or commit between the pages.                 *)
TimelineIsWhole ==
  \A s \in { t \in Spans : page.cache[t].pages # <<>> } :
    LET pages == page.cache[s].pages
    IN /\ \A m, n \in DOMAIN pages : m < n =>
            \A i \in pages[m].ids, j \in pages[n].ids : i > j
       /\ \A i \in pages[1].known :
            InRange(s, i) /\ (Final(pages).more => \E j \in Final(pages).ids : i > j)
              => \E n \in DOMAIN pages : i \in pages[n].ids
=============================================================================
