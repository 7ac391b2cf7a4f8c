---------------------------- MODULE MCSearchNormal ----------------------------
(* Instances of SearchNormal for TLC. *)
EXTENDS SearchNormal

\* Phrases of up to three words.
UpToThreeWords == {<<s, e>> \in Positions \X Positions : s <= e /\ e < s + 3}

AllZones == {<<s, e>> \in Positions \X Positions : s < e}
Nested(y, z) == \/ Within(y) \subseteq Within(z) \/ Within(z) \subseteq Within(y)
                \/ Within(y) \cap Within(z) = {}

\* Any walls, and up to two zones that are nested or disjoint, as the zones of
\* well-formed markup without "span" attributes are.
AllConstraints ==
  {[walls |-> w, zones |-> z] :
     w \in SUBSET (Positions \ {SourceSize - 1}),
     z \in {<<>>} \cup {<<y>> : y \in AllZones}
             \cup {s \in AllZones \X AllZones : Nested(s[1], s[2])}}
=============================================================================
