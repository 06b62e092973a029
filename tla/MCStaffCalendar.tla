--------------------------- MODULE MCStaffCalendar --------------------------
(***************************************************************************)
(* A shop whose stylists ana, bia and (in some runs) cai cut, which takes  *)
(* two units of time and includes a wash, which takes one.  Ana does not   *)
(* wash.                                                                   *)
(***************************************************************************)
EXTENDS Availability, Agenda, Sequences, TLC

CONSTANTS ana, bia, cut, wash

MCDuration == cut :> 2 @@ wash :> 1
MCQualified == cut :> Staff @@ wash :> Staff \ {ana}
MCAutoIncludes == cut :> {wash} @@ wash :> {}

Line(service, staff) == [service |-> service, staff |-> staff, kind |-> "service"]
Component(service, staff) == [Line(service, staff) EXCEPT !.kind = "component"]

JustCut == <<Line(cut, ana)>>
AnyCut == <<Line(cut, AnyFree)>>
CutThenWash == <<Line(cut, ana), Line(wash, bia)>>
WashThenCut == <<Line(wash, Nobody), Line(cut, bia)>>
ComboByBia == <<Component(cut, bia), Component(wash, bia)>>
CutThenCombo == <<Line(cut, ana), Component(wash, bia)>>

AllCarts == {JustCut, AnyCut, CutThenWash, WashThenCut, ComboByBia, CutThenCombo}
SomeCarts == {AnyCut, CutThenWash, WashThenCut, ComboByBia}

\* Everybody works all of the first day, and bia the morning of the second.
MCDayLength == 5
MCBlocks == {[staff |-> s, from |-> 0, to |-> 5] : s \in Staff}
              \cup {[staff |-> bia, from |-> 5, to |-> 7]}

\* The shop is one unit of time west of UTC.
MCOffset == -1

Symmetry == Permutations(Orders) \cup Permutations(Requests)
=============================================================================
