---------------------------- MODULE MCLiveStatus ----------------------------
(* A clock that has not been reported counts as 1x; an entry at 32x is     *)
(* stale sooner after its last message.                                    *)
EXTENDS LiveStatus

MCHorizon == [s \in Scales |-> IF s = "32x" THEN 0 ELSE MaxAge - 1]
=============================================================================
