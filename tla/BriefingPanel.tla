---------------------------- MODULE BriefingPanel ----------------------------
(***************************************************************************)
(* The AI's briefing: what is asked for with two selectors at a position   *)
(* of the replay, the header its card is given, and its export.  The list  *)
(* of sites, which names the one chosen, is fetched for each position; a   *)
(* download outlives the page that asked for it.                           *)
(***************************************************************************)
EXTENDS Naturals, FiniteSets

CONSTANTS
  Sites,
  MaxBriefings,   \* bound on the briefings asked for
  MaxExports      \* bound on the exports asked for

VARIABLE page

Types     == { "site_activity", "leadership_briefing" }
Positions == { "live", "before" }
AllSites  == "all sites"
None      == "none"
Chosen    == Sites \cup { AllSites }
Contexts  == [ type : Types, site : Chosen, name : Chosen, asOf : Positions ]

(* A summary is told by what it was asked for; a file by what it is        *)
(* headed, the summary in it and the visit that asked for it.              *)
Summaries == [ type : Types, site : Chosen, asOf : Positions ]
Files     == [ type : Types, name : Chosen, summary : Summaries, visit : Nat ]

TypeOK ==
  /\ page.mounted \in BOOLEAN /\ page.visit \in Nat
  /\ page.type \in Types /\ page.site \in Chosen
  /\ page.asOf \in Positions /\ page.listed \subseteq Sites
  /\ page.asked \subseteq Contexts /\ Cardinality(page.asked) <= 1
  /\ page.result \subseteq [ summary : Summaries, context : Contexts ]
  /\ page.exporting \subseteq Files /\ page.pdfLoading \in BOOLEAN
  /\ page.files \subseteq Files

(* The panel as it is mounted: all sites, a leadership briefing, nothing   *)
(* asked for.  "loading" is that something is.                             *)
Fresh(p) ==
  [ p EXCEPT !.type = "leadership_briefing", !.site = AllSites, !.asked = {},
             !.result = {}, !.pdfLoading = FALSE ]
Init ==
  page = [ mounted |-> TRUE, visit |-> 0, type |-> "leadership_briefing",
           site |-> AllSites, asOf |-> "live", listed |-> {}, asked |-> {}, result |-> {},
           exporting |-> {}, pdfLoading |-> FALSE, files |-> {},
           briefings |-> 0, exports |-> 0 ]
-----------------------------------------------------------------------------
(* The selectors are disabled while a briefing is awaited.                 *)
ChooseType(type) ==
  /\ page.mounted /\ page.asked = {} /\ type # page.type
  /\ page' = [ page EXCEPT !.type = type ]
ChooseSite(site) ==
  /\ page.mounted /\ page.asked = {} /\ site # page.site
  /\ site \in page.listed \cup { AllSites }
  /\ page' = [ page EXCEPT !.site = site ]

(* The replay moves whenever it likes, the choice of site with it or not.  *)
Move(position) ==
  /\ page.asOf # position
  /\ page' = [ page EXCEPT !.asOf = position, !.listed = {} ]

(* A site may not have existed before.                                     *)
ListArrives(listed) ==
  /\ page.mounted /\ (page.asOf = "live" => listed = Sites)
  /\ page' = [ page EXCEPT !.listed = listed ]

(* The context is that of the click; a site that is not listed has no name *)
(* and is headed as all of them.                                           *)
Context(p) ==
  [ type |-> p.type, site |-> p.site, asOf |-> p.asOf,
    name |-> IF p.site \in p.listed THEN p.site ELSE AllSites ]
Generate ==
  /\ page.mounted /\ page.asked = {} /\ page.briefings < MaxBriefings
  /\ page' = [ page EXCEPT !.asked = { Context(page) }, !.result = {},
                           !.briefings = @ + 1 ]

SummaryOf(c) == [ type |-> c.type, site |-> c.site, asOf |-> c.asOf ]
Arrive(c) ==
  /\ c \in page.asked
  /\ page' = [ page EXCEPT !.asked = {},
                           !.result = { [ summary |-> SummaryOf(c), context |-> c ] } ]
Fails == page.asked # {} /\ page' = [ page EXCEPT !.asked = {} ]
-----------------------------------------------------------------------------
(* The file is headed by the context of its summary.                       *)
HeaderOfSelectors(p, r) == Context(p)   \* the mutant
Header(p, r)            == r.context

Export(r) ==
  LET header == Header(page, r)
      file   == [ type |-> header.type, name |-> header.name, summary |-> r.summary,
                  visit |-> page.visit ]
  IN /\ page.mounted /\ r \in page.result
     /\ ~page.pdfLoading /\ page.exports < MaxExports
     /\ page' = [ page EXCEPT !.exporting = @ \cup { file }, !.pdfLoading = TRUE,
                              !.exports = @ + 1 ]

Ended(file) ==
  [ page EXCEPT !.exporting = @ \ { file },
                !.pdfLoading = @ /\ file.visit # page.visit ]
Downloaded(file) ==
  /\ file \in page.exporting
  /\ page' = [ Ended(file) EXCEPT !.files = @ \cup { file } ]
ExportFails(file) == file \in page.exporting /\ page' = Ended(file)

(* An answer to a page that was left is ignored, its downloads are not.    *)
Leave  == page.mounted /\ page' = [ Fresh(page) EXCEPT !.mounted = FALSE ]
Return == ~page.mounted /\ page' = [ page EXCEPT !.mounted = TRUE, !.visit = @ + 1 ]

Step ==
  \/ Generate \/ Fails \/ Leave
  \/ page.visit < MaxBriefings /\ Return
  \/ \E type \in Types : ChooseType(type)
  \/ \E site \in Chosen : ChooseSite(site)
  \/ \E position \in Positions : Move(position)
  \/ \E listed \in SUBSET Sites : ListArrives(listed)
  \/ \E c \in page.asked : Arrive(c)
  \/ \E r \in page.result : Export(r)
  \/ \E file \in page.exporting : Downloaded(file) \/ ExportFails(file)

Spec == Init /\ [][Step]_page
-----------------------------------------------------------------------------
(* A file is headed by the type its summary was asked for, and never by a  *)
(* site other than the one it is about, whatever was chosen, replayed,     *)
(* generated and left since.  It may name none: the site was not listed.   *)
ExportedAsGenerated ==
  \A file \in page.files :
    /\ file.type = file.summary.type
    /\ file.name \in { file.summary.site, AllSites }

(* "mis-labeled PDF exports": a file that names no site is about all.      *)
ExportNamesItsSite ==
  \A file \in page.files : file.name = file.summary.site
=============================================================================
