----------------------------- MODULE PlanningBoard -----------------------------
(***************************************************************************)
(* The commander's planning page: for the area of operation that is        *)
(* selected, drafts of its doctrine, of a SALUTE report and of a           *)
(* chokepoint.  A draft is seeded again whenever what it was seeded from   *)
(* changes; saves are answered after the area, the chokepoint or the draft *)
(* has changed; colleagues plan too.  The commander intent and the PACE    *)
(* plan of an area are drafted alike: "doctrine" stands for either.  Areas *)
(* are numbered in the order of the list.                                  *)
(***************************************************************************)
EXTENDS Naturals, FiniteSets, FiniteSetsExt

CONSTANTS
  MaxEdits,      \* bound on what is typed
  MaxRequests,   \* bound on saves and deletions
  MaxColleague   \* bound on changes by colleagues

VARIABLE page

Areas  == 1..2
None   == 0
Points == 1..(MaxRequests + 1)
Kinds  == { "doctrine", "salute", "chokepoint" }

(* A text is a number, 0 for none, and the area it was written for; that   *)
(* of a SALUTE draft is the area of the site it names.                     *)
Texts     == [ area : Areas \cup { None }, n : 0..(MaxEdits + MaxColleague) ]
Blank     == [ area |-> None, n |-> 0 ]
NoPoint   == [ id |-> None, area |-> None, text |-> Blank ]
NoRequest == [ area |-> None, id |-> None, text |-> Blank ]

Nobody  == [ areas |-> {}, doctrine |-> [ a \in Areas |-> Blank ], points |-> {}, sites |-> 0 ]
Planned == [ areas : SUBSET Areas, doctrine : [ Areas -> Texts ],
             points : SUBSET [ id : Points, area : Areas, text : Texts ],
             sites : 0..MaxColleague ]

TypeOK ==
  /\ { page.server, page.listed } \subseteq Planned
  /\ page.area \in Areas \cup { None } /\ page.point \in Points \cup { None }
  /\ page.pending = NoPoint \/ page.pending.id \in Points
  /\ page.draft \in [ Kinds -> Texts ] /\ page.mine \in Points \cup { None }
  /\ \A k \in Kinds : page.request[k] = NoRequest \/ page.request[k].area \in Areas
  /\ page.deleting \in Points \cup { None }

Init ==
  \E areas \in { { 1 }, Areas } :
    page = [ server |-> [ Nobody EXCEPT !.areas = areas ], listed |-> Nobody,
             area |-> None, point |-> None, pending |-> NoPoint,
             draft |-> [ k \in Kinds |-> Blank ], key |-> [ k \in Kinds |-> <<>> ],
             request |-> [ k \in Kinds |-> NoRequest ], deleting |-> None, mine |-> None,
             edits |-> 0, requests |-> 0, changes |-> 0, points |-> 0 ]
-----------------------------------------------------------------------------
(* What follows from the list, the area and the chokepoint selected.       *)

AreaOf(p) ==
  IF p.area \in p.listed.areas THEN p.area
  ELSE IF p.listed.areas = {} THEN None ELSE Min(p.listed.areas)
PointsOf(p)   == { point \in p.listed.points : point.area = p.area }
Listed(p, id) == \E point \in PointsOf(p) : point.id = id
IsPending(p, id) == p.pending.id = id /\ p.pending.area = p.area

(* A chokepoint that was saved stays selected before it is listed.         *)
PointForgotten(p) == IF Listed(p, p.point) THEN p.point ELSE None   \* the mutant
PointOf(p) == IF Listed(p, p.point) \/ IsPending(p, p.point) THEN p.point ELSE None
PendingOf(p) ==
  IF p.pending.area # p.area \/ Listed(p, p.pending.id) THEN NoPoint ELSE p.pending
Selected(p) ==
  IF Listed(p, p.point) THEN CHOOSE point \in PointsOf(p) : point.id = p.point
  ELSE IF p.point # None /\ IsPending(p, p.point) THEN p.pending ELSE NoPoint
Doctrine(p) == IF p.area = None THEN Blank ELSE p.listed.doctrine[p.area]

Fresh(area) == [ area |-> area, n |-> 0 ]
Seed(p, k) ==
  CASE k = "doctrine"   -> Doctrine(p)
    [] k = "salute"     -> Fresh(p.area)
    [] k = "chokepoint" -> IF Selected(p) = NoPoint THEN Fresh(p.area) ELSE Selected(p).text

KeyOfContent(p, k) == <<Seed(p, k)>>   \* the mutant that leaves the area out
KeyOf(p, k) ==
  <<p.area, CASE k = "doctrine"   -> Doctrine(p)
              [] k = "salute"     -> p.listed.sites
              [] k = "chokepoint" -> Selected(p)>>

(* The effects after a render: the area, the chokepoint, then the drafts.  *)
Rendered(q) ==
  LET a == [ q EXCEPT !.area = AreaOf(q) ]
      p == [ a EXCEPT !.point = PointOf(a), !.pending = PendingOf(a) ]
  IN [ p EXCEPT !.key   = [ k \in Kinds |-> KeyOf(p, k) ],
                !.draft = [ k \in Kinds |->
                              IF KeyOf(p, k) = p.key[k] THEN @[k] ELSE Seed(p, k) ] ]

-----------------------------------------------------------------------------
(* The commander.  Nothing is shown before the list has arrived.           *)

Shown == page.area # None
Change(a) ==
  /\ Shown /\ a \in page.listed.areas \ { page.area }
  /\ page' = Rendered([ page EXCEPT !.area = a, !.pending = NoPoint, !.mine = None ])
Pick(id) ==
  /\ Shown /\ id # page.point /\ (id = None \/ Listed(page, id))
  /\ page' = Rendered([ page EXCEPT !.point = id, !.pending = NoPoint, !.mine = None ])

(* Any field of a draft; the site of a SALUTE report among them.           *)
Type(k) ==
  /\ Shown /\ page.edits < MaxEdits
  /\ \E area \in IF k = "salute" THEN { page.draft[k].area, page.area } ELSE { page.area } :
       page' = [ page EXCEPT !.draft[k] = [ area |-> area, n |-> page.edits + 1 ],
                             !.edits = @ + 1 ]

CanSend == Shown /\ page.requests < MaxRequests
Target(k) ==
  CASE k = "doctrine"   -> IF Doctrine(page) = Blank THEN None ELSE page.area
    [] k = "salute"     -> None
    [] k = "chokepoint" -> Selected(page).id
Save(k) ==
  /\ CanSend /\ page.request[k] = NoRequest
  /\ page' = [ page EXCEPT !.requests = @ + 1, !.request[k] =
                 [ area |-> page.area, id |-> Target(k), text |-> page.draft[k] ] ]
Delete ==
  /\ CanSend /\ page.deleting = None /\ Selected(page) # NoPoint
  /\ page' = [ page EXCEPT !.requests = @ + 1, !.deleting = page.point ]

-----------------------------------------------------------------------------
(* The answers.                                                            *)

Done(k) == [ page EXCEPT !.request[k] = NoRequest ]
Fails(k) == page.request[k] # NoRequest /\ page' = Done(k)

(* An area has one doctrine: a second creation is refused.                 *)
DoctrineSaved ==
  LET r == page.request["doctrine"] IN
  /\ r # NoRequest
  /\ r.id # None \/ page.server.doctrine[r.area] = Blank
  /\ page' = [ Done("doctrine") EXCEPT !.server.doctrine[r.area] = r.text ]

(* A report whose site is of another area is refused; after one that is    *)
(* accepted the draft starts afresh, with a site of the area it was for.   *)
SaluteSent ==
  LET r == page.request["salute"] IN
  /\ r # NoRequest /\ r.text.area = r.area
  /\ page' = [ Done("salute") EXCEPT !.draft["salute"] = Fresh(r.area) ]

PointSaved ==
  LET r     == page.request["chokepoint"]
      id    == IF r.id = None THEN page.points + 1 ELSE r.id
      saved == [ id |-> id, area |-> r.area, text |-> r.text ]
      kept  == { point \in page.server.points : point.id # id }
  IN /\ r # NoRequest
     /\ r.id = None \/ kept # page.server.points
     /\ page' = Rendered([ Done("chokepoint") EXCEPT
                             !.server.points = kept \cup { saved },
                             !.points  = IF r.id = None THEN @ + 1 ELSE @,
                             !.pending = saved, !.point = id,
                             !.mine    = IF r.area = page.area THEN id ELSE None ])
PointDeleted ==
  /\ page.deleting # None
  /\ page' = Rendered([ page EXCEPT
                          !.server.points = { point \in @ : point.id # page.deleting },
                          !.deleting = None, !.pending = NoPoint, !.point = None,
                          !.mine = None ])
DeleteFails == page.deleting # None /\ page' = [ page EXCEPT !.deleting = None ]

(* The list is fetched; it is gone while another moment is replayed.       *)
Fetched ==
  page.listed # page.server /\ page' = Rendered([ page EXCEPT !.listed = page.server ])
Travel ==
  page.listed # Nobody /\ page' = Rendered([ page EXCEPT !.listed = Nobody, !.mine = None ])

ColleagueWrites(a) ==
  page' = [ page EXCEPT !.changes = @ + 1, !.server.doctrine[a] =
              [ area |-> a, n |-> MaxEdits + page.changes + 1 ] ]
ColleagueDeletes(id) ==
  page' = [ page EXCEPT !.changes = @ + 1, !.mine = None,
                        !.server.points = { point \in @ : point.id # id } ]
SitesChange == page' = [ page EXCEPT !.changes = @ + 1, !.server.sites = @ + 1 ]
Colleague ==
  /\ page.changes < MaxColleague
  /\ \/ \E a \in page.server.areas : ColleagueWrites(a)
     \/ \E point \in page.server.points : ColleagueDeletes(point.id)
     \/ SitesChange

Step ==
  \/ \E a \in Areas : Change(a)
  \/ \E id \in Points \cup { None } : Pick(id)
  \/ \E k \in Kinds : Type(k) \/ Save(k) \/ Fails(k)
  \/ Delete \/ DoctrineSaved \/ SaluteSent \/ PointSaved \/ PointDeleted \/ DeleteFails
  \/ Fetched \/ Travel \/ Colleague

Spec == Init /\ [][Step]_page
-----------------------------------------------------------------------------
(* Whatever is typed, selected, saved and listed in between, what one area *)
(* of operation holds was never written for another.                       *)
SavedWhereWritten ==
  /\ \A a \in Areas : page.server.doctrine[a].area \in { a, None }
  /\ \A point \in page.server.points : point.text.area = point.area

(* A chokepoint that was saved stays the one being edited, listed or not,  *)
(* until the commander leaves it or someone deletes it: a second save      *)
(* never makes a second chokepoint of it.                                  *)
SavedStaysSelected ==
  page.mine # None => page.point = page.mine

(* The site of a SALUTE draft is one of the area it is drafted for.        *)
SaluteIsOfTheArea ==
  page.area # None => page.draft["salute"].area = page.area

(* What is typed stays until the commander leaves it, or saves it.         *)
TypedIsKept ==
  [][ \A k \in Kinds : page'.area = page.area /\ page'.point = page.point
        /\ page'.request = page.request /\ page.draft[k].n \in 1..MaxEdits
          => page'.draft[k].n >= page.draft[k].n ]_page
=============================================================================
