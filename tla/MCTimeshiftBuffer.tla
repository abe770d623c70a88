------------------------- MODULE MCTimeshiftBuffer -------------------------
(* Instances of TimeshiftBuffer: one processor of the wildcard "w*", which   *)
(* covers both tags, and, after it in the map, one of the tag "a".           *)
EXTENDS TimeshiftBuffer

CONSTANTS a, b, ww, pa, pw

MCTag      == {a, b}
MCWild     == {ww}
MCCovers   == [f \in MCWild |-> {a, b}]
MCInstance == {pa, pw}
MCFilterOf == [p \in Instance |-> IF p = pw THEN ww ELSE a]
MCOrder    == [p \in Instance |-> IF p = pw THEN 0 ELSE 1]
=============================================================================
