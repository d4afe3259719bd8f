---------------------------- MODULE MCDashboard ----------------------------
(* Setpoints lo and hi, one pair refused by the controller although the    *)
(* form accepts it; a profile with a stage and a zone without envelopes;   *)
(* libraries that differ in profiles, stages and their order.              *)
EXTENDS Dashboard

MCBands   == {<<"lo", "hi">>}
MCRefused == {[lo |-> 1, hi |-> 3]}

MCExisting == {<<[named |-> TRUE, target |-> 3, bound |-> NoBound, zones |-> <<4>>, zbound |-> NoBound]>>}

P(id, names) == [id |-> id, stages |-> names]
MCLibraries == {<<>>, <<P("a", <<"s", "t", "u">>), P("b", <<"t">>)>>, <<P("a", <<"s", "t", "u">>)>>,
                <<P("b", <<"t">>)>>, <<P("a", <<"t", "s">>)>>}
=============================================================================
