------------------------- MODULE MCControllerConfig -------------------------
(* A house section and a zone whose low field must stay below its high     *)
(* field: "lift" and "cut" are each valid on the boot contents and invalid *)
(* together, "flip" is refused, "none" is empty.                           *)
EXTENDS ControllerConfig, TLC

MCSections == {"house", "bench"}
MCFields   == {"low", "high"}
MCValid    == {b \in [MCFields -> Values] : b.low < b.high}
MCBoot     == [s \in MCSections |-> [low |-> 1, high |-> 3]]

MCSection == [r \in Requests |-> IF r \in {"zone", "none"} THEN "bench" ELSE "house"]
MCPatch == [r \in Requests |->
    CASE r = "lift" -> [low |-> 2]
      [] r = "cut"  -> [high |-> 2]
      [] r = "flip" -> [low |-> 3, high |-> 0]
      [] r = "zone" -> [low |-> 0, high |-> 1]
      [] r = "none" -> <<>>]
=============================================================================
