------------------------------ MODULE MapLengths ------------------------------
(***************************************************************************)
(* The lengths typed into the tools of the map: the radii of the range     *)
(* rings, which share a unit, or the one extent of a sector or a bearing   *)
(* line.  Switching the unit rewrites what is typed, rounded for reading,  *)
(* and the map draws what is typed, in kilometres.                         *)
(***************************************************************************)
EXTENDS Integers

CONSTANTS
  Lengths,   \* what may be typed, in hundredths of a unit
  MaxTyped   \* bound on what is typed

LengthsAssumption == Lengths \subseteq Nat

VARIABLE page

Units == { "nm", "km" }
Nil   == 0              \* what is not a positive number

TypeOK ==
  /\ page.unit \in Units /\ page.anchor \in BOOLEAN /\ page.typed \in 0..MaxTyped
  /\ \A i \in DOMAIN page.lengths : page.lengths[i] \in Nat /\ page.meant[i] \in Nat

Centimetres(v, unit) == IF unit = "km" THEN v * 1000 ELSE v * 1852

(* The rings start at 5, 10 and 20 nautical miles, a sector at 20.         *)
Defaults == { <<500, 1000, 2000>>, <<2000>> }

Init ==
  \E lengths \in Defaults :
    page = [ unit |-> "nm", lengths |-> lengths, anchor |-> FALSE, typed |-> 0,
             meant |-> [ i \in DOMAIN lengths |-> Centimetres(lengths[i], "nm") ] ]
-----------------------------------------------------------------------------
(* A quotient rounded: of a tie, binary floating point makes either.       *)
RoundedDown(n, d) == { n \div d }   \* the mutant
Rounded(n, d) ==
  { q \in { n \div d, n \div d + 1 } : 2 * q * d \in (2 * n - d)..(2 * n + d) }

(* A length as a fraction, in hundredths of the unit it is converted to:   *)
(* one unit comes back unchanged from its detour through kilometres.       *)
Converted(v, from, to) ==
  IF from = to THEN <<v, 1>> ELSE IF from = "nm" THEN <<v * 463, 250>> ELSE <<v * 250, 463>>

(* From ten on a length is written with one decimal, below with two.       *)
FormatRangeRingInputValue(q) ==
  IF q[1] >= 1000 * q[2] THEN { 10 * t : t \in Rounded(q[1], 10 * q[2]) }
  ELSE Rounded(q[1], q[2])
ConvertRangeRingInputValue(v, from, to) ==
  IF v = Nil THEN { Nil }
  ELSE FormatRangeRingInputValue(Converted(v, from, to))

(* What the map draws around the anchor, in centimetres but rounded to the *)
(* metre: a ring, or the extent, for every length that is one.             *)
Metres(radius) == 100 * ((radius + 50) \div 100)
Drawn(p) ==
  [ i \in { j \in DOMAIN p.lengths : p.anchor /\ p.lengths[j] # Nil } |->
      Metres(Centimetres(p.lengths[i], p.unit)) ]

-----------------------------------------------------------------------------
(* What the operator does in the panel and on the map.                     *)

UpdateRangeRingInput ==
  /\ page.typed < MaxTyped
  /\ \E i \in DOMAIN page.lengths, v \in Lengths \cup { Nil } :
       page' = [ page EXCEPT !.lengths[i] = v, !.meant[i] = Centimetres(v, page.unit),
                             !.typed = @ + 1 ]

(* The buttons of both units can be pressed, that of the unit shown too.   *)
SetRangeRingDisplayUnit(unit) ==
  LET written(i) == ConvertRangeRingInputValue(page.lengths[i], page.unit, unit)
      all        == DOMAIN page.lengths
  IN \E lengths \in [ all -> UNION { written(i) : i \in all } ] :
       /\ \A i \in all : lengths[i] \in written(i)
       /\ page' = [ page EXCEPT !.lengths = lengths, !.unit = unit ]

PlaceAnchor == page' = [ page EXCEPT !.anchor = TRUE ]
ClearAnchor == page.anchor /\ page' = [ page EXCEPT !.anchor = FALSE ]

Step ==
  \/ UpdateRangeRingInput \/ PlaceAnchor \/ ClearAnchor
  \/ \E unit \in Units : SetRangeRingDisplayUnit(unit)

Spec == Init /\ [][Step]_page
-----------------------------------------------------------------------------
(* However often the unit is switched, no length appears or disappears and *)
(* each is drawn within 150 m of what was typed: rounding never adds up.   *)
RoundingStaysSmall ==
  page.anchor =>
    LET drawn == Drawn(page)
    IN /\ DOMAIN drawn = { i \in DOMAIN page.meant : page.meant[i] # 0 }
       /\ \A i \in DOMAIN drawn :
            drawn[i] <= page.meant[i] + 15000 /\ page.meant[i] <= drawn[i] + 15000
=============================================================================
