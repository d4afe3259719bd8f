----------------------------- MODULE Dashboard -----------------------------
(***************************************************************************)
(* The parts of the dashboard (climate-frontend: src/app/routes.tsx) that  *)
(* do not work on one another's state, checked together: the stream's link *)
(* above the pages and five of the pages.  A behaviour is that of one of   *)
(* them, and the others keep their initial state.                          *)
(***************************************************************************)
EXTENDS StreamClient, FleetPage, SetpointForm, ProfileEditor, Profiles, OptimizerConsole

VARIABLE route

Init ==
    /\ route \in {"fleet", "setpoints", "editor", "profiles", "optimizer", "link"}
    /\ LinkInit /\ FleetInit /\ FormInit /\ EditorInit /\ ProfilesInit /\ ConsoleInit
    /\ route # "fleet" => registry.ids = {}
    /\ route # "setpoints" => server.vals = CHOOSE v \in Valid \ Refused : TRUE
    /\ route # "profiles" => library = <<>>
    /\ route # "optimizer" => screen = "console"

Overview ==
    /\ route = "fleet" /\ FleetNext
    /\ UNCHANGED formVars /\ UNCHANGED editorVars /\ UNCHANGED profileVars /\ UNCHANGED consoleVars
    /\ UNCHANGED linkVars

Setpoints ==
    /\ route = "setpoints" /\ FormNext
    /\ UNCHANGED editorVars /\ UNCHANGED profileVars /\ UNCHANGED consoleVars /\ UNCHANGED linkVars
    /\ UNCHANGED fleetVars

Editing ==
    /\ route = "editor" /\ EditorNext
    /\ UNCHANGED formVars /\ UNCHANGED profileVars /\ UNCHANGED consoleVars /\ UNCHANGED linkVars
    /\ UNCHANGED fleetVars

Profiling ==
    /\ route = "profiles" /\ ProfilesNext
    /\ UNCHANGED formVars /\ UNCHANGED editorVars /\ UNCHANGED consoleVars /\ UNCHANGED linkVars
    /\ UNCHANGED fleetVars

Watching ==
    /\ route = "optimizer" /\ ConsoleNext
    /\ UNCHANGED formVars /\ UNCHANGED editorVars /\ UNCHANGED profileVars /\ UNCHANGED linkVars
    /\ UNCHANGED fleetVars

Connecting ==
    /\ route = "link" /\ LinkNext
    /\ UNCHANGED formVars /\ UNCHANGED editorVars /\ UNCHANGED profileVars /\ UNCHANGED consoleVars
    /\ UNCHANGED fleetVars

Next == (Overview \/ Setpoints \/ Editing \/ Profiling \/ Watching \/ Connecting) /\ UNCHANGED route

vars == <<route, linkVars, fleetVars, formVars, editorVars, profileVars, consoleVars>>

OnSetpoints(A) ==
    /\ route = "setpoints" /\ A
    /\ UNCHANGED <<route, fleetVars, editorVars, profileVars, consoleVars, linkVars>>

OnLink(A) ==
    /\ route = "link" /\ A
    /\ UNCHANGED <<route, fleetVars, formVars, editorVars, profileVars, consoleVars>>

(* FormFairness and LinkFairness, each of its part.                        *)
Fairness ==
    /\ WF_vars(OnSetpoints(Elapse)) /\ WF_vars(OnSetpoints(Poll))
    /\ WF_vars(OnSetpoints(ServeRead)) /\ SF_vars(OnSetpoints(FetchAnswered))
    /\ WF_vars(OnSetpoints(Relayed)) /\ WF_vars(OnSetpoints(Invalidate))
    /\ WF_vars(OnSetpoints(SettleEdit))
    /\ \A s \in Sockets : WF_vars(OnLink(SocketEvent(s)))
    /\ \A c \in Clients : WF_vars(OnLink(TimerFires(c)))

Spec == Init /\ [][Next]_vars /\ Fairness

-----------------------------------------------------------------------------
(* The types of all parts: in particular the reconnect delay stays within  *)
(* maxDelayMs, only contents the form accepts are applied, and an open     *)
(* editor keeps a stage.                                                   *)
TypeOK ==
    LinkTypeOK /\ FleetTypeOK /\ FormTypeOK /\ EditorTypeOK /\ ProfilesTypeOK /\ ConsoleTypeOK
=============================================================================
