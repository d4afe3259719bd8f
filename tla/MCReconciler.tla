---------------------------- MODULE MCReconciler ----------------------------
(* Instances of Reconciler for TLC.  Each .cfg picks the requests; the    *)
(* bundles have a global part and one zone.                                *)
EXTENDS Reconciler

MCPartSeq == <<"global", "bench">>

(* op and op2 are operator edits of different parts, opt is an optimizer   *)
(* submission, prof assigns a stage, bad is an edit whose zone targets the *)
(* controller refuses.                                                     *)
MCKind == [w \in Writers |-> CASE w = "opt"  -> "optimizer"
                               [] w = "prof" -> "profile"
                               [] OTHER      -> "operator"]
MCEdit == [w \in Writers |-> CASE w = "op"   -> [global |-> 1]
                               [] w = "op2"  -> [bench |-> 1]
                               [] w = "opt"  -> [global |-> 0, bench |-> 1]
                               [] w = "bad"  -> [global |-> 1, bench |-> 2]
                               [] OTHER      -> <<>>]
MCToml     == [p \in Parts |-> 0]
MCRefused  == {<<"bench", 2>>}
MCTargets  == [s \in Stages |-> [p \in Parts |-> IF s = "fruiting" THEN 1 ELSE 0]]
MCEnvelope == [s \in Stages |-> {b \in Bundle : b["bench"] = MCTargets[s]["bench"]}]
=============================================================================
