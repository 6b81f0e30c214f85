------------------------------ MODULE ResortSearch ------------------------------
(***************************************************************************)
(* The search for resorts around a point that an administrator previews    *)
(* before he syncs them (api/v1/admin.py).  OpenStreetMap is asked once    *)
(* for the whole circle.  Google answers a call for at most 50 km and 20   *)
(* places, so a larger circle is tiled with calls that run in parallel,    *)
(* and what they answer is merged.                                         *)
(*                                                                         *)
(* The map is flat here, with kilometres east and north of the centre.     *)
(* The code steps by degrees that are 111 km in latitude and 111 km times  *)
(* the cosine of the centre's latitude in longitude.                       *)
(***************************************************************************)
EXTENDS Integers, Sequences, FiniteSets

CONSTANTS
  Resorts,    \* the places with a name, those Google would answer first in front
  MaxResults  \* how many places one call to Google answers

ASSUME ResortsAssumption ==
  /\ DOMAIN Resorts = 1 .. Len(Resorts) /\ Len(Resorts) \in Nat
  /\ \A i \in DOMAIN Resorts : Resorts[i].at \in Int \X Int
  /\ MaxResults \in Nat

Centre == <<0, 0>>
Sources == {"google", "osm"}

\* GOOGLE_MAX_RADIUS_M, GOOGLE_TILE_SPACING_KM, GOOGLE_MAX_GRID_SIDE and the cap
\* on the radius for OpenStreetMap.
CallRadius == 50
Spacing == 70
MaxGridSide == 7
OsmMaxRadius == 200

\* How far the largest grid reaches.
GridReach == ((MaxGridSide - 1) \div 2) * Spacing + Spacing \div 2

AtMost(n, limit) == IF n <= limit THEN n ELSE limit

\* _haversine_km, compared with a distance.
Near(p, q, km) ==
  (p[1] - q[1]) * (p[1] - q[1]) + (p[2] - q[2]) * (p[2] - q[2]) <= km * km

Within(radius) == {i \in DOMAIN Resorts : Near(Resorts[i].at, Centre, radius)}

\* The number of tiles on each side of the centre, and the tiles.
HalfRoundedDown(radius) ==  \* variant
  IF radius <= CallRadius THEN 0 ELSE AtMost(radius \div Spacing, (MaxGridSide - 1) \div 2)
Half(radius) ==
  IF radius <= CallRadius THEN 0
  ELSE AtMost((radius + Spacing - 1) \div Spacing, (MaxGridSide - 1) \div 2)

TileCentres(radius) ==
  LET steps == -Half(radius) .. Half(radius)
  IN  {<<Spacing * s[1], Spacing * s[2]>> : s \in steps \X steps}

\* One call: what is in its circle, and whether it answers a resort of it.
Covers(tile, i) == Near(Resorts[i].at, tile, CallRadius)
Circle(tile) == {i \in DOMAIN Resorts : Covers(tile, i)}
Answers(tile, i) ==
  Covers(tile, i) /\ Cardinality({k \in Circle(tile) : k < i}) < MaxResults

\* The merged answers of the calls that did not fail, without those that leak in
\* from beyond the radius.
GooglePreview(radius, failed) ==
  {i \in Within(radius) : \E t \in TileCentres(radius) \ failed : Answers(t, i)}

OsmPreview(radius) == Within(AtMost(radius, OsmMaxRadius))
================================================================================
