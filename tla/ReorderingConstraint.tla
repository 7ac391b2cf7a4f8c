------------------------- MODULE ReorderingConstraint -------------------------
(****************************************************************************)
(* Moses::ReorderingConstraint (moses/ReorderingConstraint.{h,cpp}): walls  *)
(* that words must not be moved across, and zones that must be finished     *)
(* before the translation leaves them.  A wall at p is the border between   *)
(* the words p and p + 1; a wall inside a zone is local to the zone.        *)
(****************************************************************************)
EXTENDS WordsBitmap, Sequences, FiniteSets

CONSTANT MaxDistortion   \* StaticData::GetMaxDistortion(); negative: no limit

ASSUME DistortionAssumption == MaxDistortion \in Int

NOT_A_ZONE == 0   \* the zones are numbered from 1 here

StartOf(zone) == zone[1]
LastOf(zone) == zone[2]
Within(zone) == Span(StartOf(zone), LastOf(zone))

\* The walls the loop of FinalizeWalls reaches in a zone: all but the last border.
Inside(zone) == Span(StartOf(zone), LastOf(zone) - 1)

\* One round of that loop: the walls in the z-th zone become local to it unless
\* they are local to a zone that is not wider.
Localize(walls, zones, local, z) ==
  LET Wider(y) == \/ StartOf(zones[y]) < StartOf(zones[z])
                  \/ LastOf(zones[y]) > LastOf(zones[z])
      Taken(p) == /\ p \in walls \cap Inside(zones[z])
                  /\ local[p] = NOT_A_ZONE \/ Wider(local[p])
  IN  [p \in Positions |-> IF Taken(p) THEN z ELSE local[p]]

\* The local walls when that loop has gone over all the zones.
LocalWalls(walls, zones) ==
  LET after[n \in 0..Len(zones)] ==
        IF n = 0 THEN [p \in Positions |-> NOT_A_ZONE]
        ELSE Localize(walls, zones, after[n - 1], n)
  IN  after[Len(zones)]

\* InitializeWalls, SetWall and SetZone for every wall and zone of the input,
\* and FinalizeWalls.
Constraint(walls, zones) ==
  [wall      |-> walls \ UNION {Inside(zones[z]) : z \in DOMAIN zones},
   localWall |-> LocalWalls(walls, zones),
   zone      |-> zones,
   active    |-> walls # {} \/ zones # <<>>]

-----------------------------------------------------------------------------
(* Check: may a hypothesis that covers the set covered translate s to e? *)

\* Mistake (not the code): only the walls inside the phrase count.
HitsWallInside(reo, covered, s, e) ==
  /\ GetFirstGapPos(covered) # s
  /\ reo.wall \cap Span(s, e - 1) # {}

\* A word is left behind, and there is a wall on the way to the last word.
HitsWall(reo, covered, s, e) ==
  /\ GetFirstGapPos(covered) # s
  /\ reo.wall \cap Span(GetFirstGapPos(covered), e - 1) # {}

Monotone(covered, s) ==
  \/ covered = {} /\ s = 0
  \/ covered # {} /\ GetFirstGapPos(covered) > GetLastPos(covered)
                  /\ GetFirstGapPos(covered) = s

\* Mistake (not the code): the limit is not thought of.
NeverDeadEnd(zone, covered, s) == FALSE

\* Finishing the zone later would break the distortion limit.  The limit is
\* compared as a size_t: a negative one is larger than any distance.
DeadEnd(zone, covered, s) ==
  /\ GetFirstGapPos(covered) # s
  /\ MaxDistortion >= 0
  /\ LastOf(zone) - GetFirstGapPos(covered) >= MaxDistortion

\* A local wall of zone z before the last word, and a word left behind it.
HitsLocalWall(reo, z, covered, s, e) ==
  \E p \in Within(reo.zone[z]) :
    /\ p < LastOf(reo.zone[z]) /\ p < e
    /\ reo.localWall[p] = z
    /\ \E q \in Span(StartOf(reo.zone[z]), p) : q \notin covered /\ q < s

\* Mistake (not the code): a phrase outside the zone is always fine.
ZoneAllowsOutside(reo, z, covered, s, e) ==
  LET zone == reo.zone[z]
  IN  \/ e < StartOf(zone) \/ s > LastOf(zone)
      \/ GetFirstGapPos(covered) > LastOf(zone)
      \/ ~DeadEnd(zone, covered, s) /\ ~HitsLocalWall(reo, z, covered, s, e)

\* What the loop over the zones asks of zone z.
ZoneAllows(reo, z, covered, s, e) ==
  LET zone == reo.zone[z]
      translated == covered \cap Within(zone)
      outside == e < StartOf(zone) \/ s > LastOf(zone)
  IN  \/ GetLastPos(covered) < StartOf(zone) /\ outside
      \/ GetFirstGapPos(covered) > LastOf(zone)
      \/ translated = Within(zone)
      \/ translated = {} /\ outside
      \/ /\ ~outside
         /\ ~DeadEnd(zone, covered, s)
         /\ \/ s <= StartOf(zone)
            \/ /\ s > StartOf(zone) /\ e > LastOf(zone)
               /\ Cardinality(Span(s, LastOf(zone)))
                    >= Cardinality(Within(zone)) - Cardinality(translated)
            \/ /\ s > StartOf(zone) /\ e <= LastOf(zone)
               /\ ~HitsLocalWall(reo, z, covered, s, e)

Check(reo, covered, s, e) ==
  \/ ~reo.active
  \/ /\ ~HitsWall(reo, covered, s, e)
     /\ \/ Monotone(covered, s)
        \/ \A z \in DOMAIN reo.zone : ZoneAllows(reo, z, covered, s, e)
=============================================================================
