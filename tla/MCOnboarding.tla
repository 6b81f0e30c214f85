------------------------------ MODULE MCOnboarding ------------------------------
(***************************************************************************)
(* Onboarding for TLC: two owners, met by two batches in either order; the *)
(* number of the second has a trunk prefix in Google.                      *)
(***************************************************************************)
EXTENDS Onboarding

CONSTANTS n1, n2, ann

Resort(n, osm, national, international, east, north) ==
  [number |-> n, osm |-> osm, national |-> national, international |-> international,
   at |-> <<east, north>>]
Entry(e, p) == [email |-> e, phone |-> p]

\* The first, third and fifth are in one circle of Google, which answers two.
Map ==
  <<Resort(n1, "local", "none", "international", 0, 135),
    Resort(n2, "local", "trunk", "international", 20, 0),
    Resort(n1, "international", "none", "none", 0, 138),
    Resort(n2, "none", "none", "none", -60, 80),
    Resort(n2, "local", "none", "none", 5, 135)>>

Syncs == {<<1, 2>>, <<3>>}

Sheets == {<<Entry(ann, <<n2, "91">>), Entry(<<n1, "91">>, <<n2, "91">>)>>}

People == {[email |-> ann, phone |-> <<n1, "91">>, role |-> "agent"]}

\* The first owner changes to a number that the map does not have.
Changes == {<<<<n1, "91">>, <<n1, "0">>>>}

\* No call fails, or the one for the tile of the first.
Failures == {{}, {<<0, 140>>}}
================================================================================
