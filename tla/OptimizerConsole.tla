-------------------------- MODULE OptimizerConsole --------------------------
(***************************************************************************)
(* The optimizer in the dashboard (climate-frontend: features/optimizer/,  *)
(* api/queries/optimizer.ts): the console's page and the plan panel of a   *)
(* greenhouse's page, for one greenhouse.                                  *)
(*                                                                         *)
(* Both show cached reads, which polls and the operator's own actions      *)
(* refresh one by one; the optimizer, seen through the platform, goes on   *)
(* planning meanwhile, and restarts.  A read is one step: what it can show *)
(* is what it could show a little later.  The optimizer is modelled in     *)
(* detail by OptimizerCycle; here it is what its interface lets out, its   *)
(* overlapping cycles included: a tick picks a greenhouse before its task  *)
(* adds the guard, each cycle drops the guard at its own end, and all of   *)
(* them write the one stage that the console is shown.                     *)
(***************************************************************************)
EXTENDS Integers

CONSTANTS
    OnDemand,    \* bound: the triggered cycles of the greenhouse at a time
    Scheduled,   \* the cycle of the cadence tick
    Last,        \* bound: the stages of a cycle, six in the code
    MaxChanges,  \* bound: pauses, resumes, cycles and restarts
    NoData, NoPlan

(* None, then ingest, quality gate, forecast, plan, constrain and publish: *)
(* without the quality gate and the forecast, where none of the outcomes   *)
(* below arises, there are four.                                           *)
Stage == 0..Last
Reasons == {"platform_unavailable", "low_confidence", "none"}
(* What a cycle may come to at which stage, and why: one way for each.     *)
Outcomes == {<<1, "failed", "platform_unavailable">>,
             <<Last - 2, "unchanged", "none">>, <<Last - 1, "held", "low_confidence">>,
             <<Last, "failed", "platform_unavailable">>, <<Last, "applied", "none">>}
Plans == [at : Stage, status : {"applied", "unchanged", "held", "failed"}, reason : Reasons]
Queries == {"fleet", "enabled", "greenhouse"}
Scopes  == {"global", "greenhouse"}
Actions == Scopes \cup {"trigger"}

Slots  == OnDemand \cup {Scheduled}
Cycles == [phase : {"idle", "picked", "running", "recorded"}, at : Stage]
NoCycle == [phase |-> "idle", at |-> 0]

ASSUME ConsoleAssumption ==
    /\ Scheduled \notin OnDemand /\ Last \in Nat /\ Last >= 4
    /\ MaxChanges \in Nat /\ NoPlan \notin Plans
    /\ NoData \notin BOOLEAN

VARIABLES
    service, enabled,      \* the optimizer's flags
    inFlight, stage, plan, \* its guard, the stage it shows, its last record
    cycles,                \* each cycle: how far its task is, and its own stage
    overlapped,            \* history: cycles have overlapped since one began alone
    screen,                \* "console" or "panel"
    reads,                 \* what each query holds
    confirming,            \* the pauses the operator was asked to confirm
    acting,                \* the operator's actions that have not settled
    changes                \* bound counter

optimizerVars == <<service, enabled, inFlight, stage, plan, cycles, overlapped, changes>>
pageVars == <<screen, reads, confirming, acting>>
consoleVars == <<service, enabled, inFlight, stage, plan, cycles, overlapped, changes,
                 screen, reads, confirming, acting>>

(* A row of /fleet.  Where the planned cycle stopped (plan.at) and whether *)
(* cycles overlapped are history, which no page looks at.                  *)
Row == [enabled |-> enabled, inFlight |-> inFlight, stage |-> stage, plan |-> plan,
        overlapped |-> overlapped]
Rows == [enabled : BOOLEAN, inFlight : BOOLEAN, stage : Stage, plan : Plans \cup {NoPlan},
         overlapped : BOOLEAN]

ConsoleInit ==
    /\ service = TRUE /\ enabled = TRUE /\ inFlight = FALSE /\ stage = 0 /\ plan = NoPlan
    /\ cycles = [c \in Slots |-> NoCycle] /\ overlapped = FALSE
    /\ changes = 0 /\ screen \in {"console", "panel"}
    /\ reads = [q \in Queries |-> NoData]
    /\ confirming = {} /\ acting = {}

-----------------------------------------------------------------------------
(* The optimizer.                                                          *)
Change == changes < MaxChanges /\ changes' = changes + 1

OtherOperator ==
    /\ Change
    /\ \/ service' = ~service /\ UNCHANGED enabled
       \/ enabled' = ~enabled /\ UNCHANGED service
    /\ UNCHANGED <<inFlight, stage, plan, cycles, overlapped>> /\ UNCHANGED pageVars

UnderWay(c) == cycles[c].phase \notin {"idle", "picked"}

(* The guard is added for the cycle, which waits for the ceiling (at 0).   *)
Claim(c) ==
    /\ inFlight' = TRUE
    /\ cycles' = [cycles EXCEPT ![c] = [phase |-> "running", at |-> 0]]
    /\ overlapped' = \E d \in Slots \ {c} : UnderWay(d)
    /\ UNCHANGED <<stage, plan>>

(* reserve: the gates and the claim are one step.                          *)
Reserve(c) ==
    /\ Change /\ service /\ enabled /\ ~inFlight
    /\ cycles[c].phase = "idle" /\ Claim(c)
    /\ UNCHANGED <<service, enabled>>

(* Another operator triggers a cycle.                                      *)
OtherTrigger == \E c \in OnDemand : Reserve(c) /\ UNCHANGED pageVars

(* A tick, once its last cycle has ended, picks the idle greenhouse; ...   *)
Pick ==
    /\ Change /\ service /\ enabled /\ ~inFlight
    /\ cycles[Scheduled].phase = "idle"
    /\ cycles' = [cycles EXCEPT ![Scheduled].phase = "picked"]
    /\ UNCHANGED <<service, enabled, inFlight, stage, plan, overlapped>> /\ UNCHANGED pageVars

(* ... its task claims the guard when it first runs, tested or not.        *)
Dispatch ==
    /\ cycles[Scheduled].phase = "picked" /\ Claim(Scheduled)
    /\ UNCHANGED <<service, enabled, changes>> /\ UNCHANGED pageVars

(* A cycle gets to its first or next stage.                                *)
Enter(c) ==
    /\ cycles[c].phase = "running" /\ cycles[c].at < Last
    /\ stage' = cycles[c].at + 1
    /\ cycles' = [cycles EXCEPT ![c] = [phase |-> "running", at |-> stage']]
    /\ UNCHANGED <<service, enabled, inFlight, plan, overlapped, changes>> /\ UNCHANGED pageVars

(* A cycle stops where it is, and records why.                             *)
RecordPlan(c) ==
    /\ cycles[c].phase = "running"
    /\ \E o \in Outcomes :
          /\ o[1] = cycles[c].at
          /\ plan' = [at |-> o[1], status |-> o[2], reason |-> o[3]]
    /\ cycles' = [cycles EXCEPT ![c].phase = "recorded"]
    /\ UNCHANGED <<service, enabled, inFlight, stage, overlapped, changes>> /\ UNCHANGED pageVars

(* Its report is over, and the guard dropped, whoever else is under way.   *)
End(c) ==
    /\ cycles[c].phase = "recorded" /\ cycles' = [cycles EXCEPT ![c] = NoCycle]
    /\ inFlight' = FALSE
    /\ UNCHANGED <<service, enabled, stage, plan, overlapped, changes>> /\ UNCHANGED pageVars

Restart ==
    /\ Change /\ service' = TRUE /\ enabled' = TRUE
    /\ inFlight' = FALSE /\ stage' = 0 /\ plan' = NoPlan
    /\ cycles' = [c \in Slots |-> NoCycle] /\ overlapped' = FALSE /\ UNCHANGED pageVars

Planning == OtherTrigger \/ Pick \/ Dispatch \/ \E c \in Slots : Enter(c) \/ RecordPlan(c) \/ End(c)

-----------------------------------------------------------------------------
(* What the pages make of their reads.                                     *)
ServiceShown ==
    reads["enabled"] \in {NoData, TRUE}   \* the status stands in until it is there

EnabledShown ==
    IF screen = "console" THEN reads["fleet"].enabled
    ELSE reads["greenhouse"] \in {NoData, TRUE}

(* The toggles: the console's own and its row's, the panel's.              *)
Shows(scope) ==
    IF scope = "global" THEN screen = "console" /\ reads["enabled"] # NoData
    ELSE screen = "console" => reads["fleet"] # NoData

ShownOf(scope) == IF scope = "global" THEN ServiceShown ELSE EnabledShown

(* The card of a row: a pause first, the service's before its own.         *)
CardKind(row, on) ==
    CASE ~on -> "read-only"
      [] on /\ ~row.enabled -> "disabled"
      [] on /\ row.enabled /\ row.plan = NoPlan -> "no-plan"
      [] OTHER -> "outcome"

StageOfReason(r) ==
    CASE r = "platform_unavailable" -> 1 [] r = "low_confidence" -> Last - 1 [] OTHER -> 0

(* Variant: the reason's stage goes before the one the row shows.          *)
PlacedByReason(row, on) ==
    IF CardKind(row, on) = "outcome" /\ StageOfReason(row.plan.reason) # 0
    THEN StageOfReason(row.plan.reason) ELSE row.stage

(* The node a tracker's marker sits on, 0 for none.                        *)
Placed(row, on) ==
    IF row.stage # 0 \/ CardKind(row, on) # "outcome" THEN row.stage
    ELSE StageOfReason(row.plan.reason)

Idle == [n \in 1..Last |-> "idle"]

(* pipelineStages.                                                         *)
Tracker(row, on) ==
    LET at == Placed(row, on)
        marker == CASE row.inFlight -> "active"
                    [] ~row.inFlight /\ row.plan.status = "applied" -> "done"
                    [] OTHER -> row.plan.status
    IN IF at = 0 \/ (~row.inFlight /\ CardKind(row, on) # "outcome") THEN Idle
       ELSE [n \in 1..Last |-> IF n < at THEN "done" ELSE IF n > at THEN "pending" ELSE marker]

-----------------------------------------------------------------------------
(* The queries.                                                            *)
Answer(q) ==
    CASE q = "fleet" -> Row [] q = "enabled" -> service
      [] q = "greenhouse" -> enabled

Polled == IF screen = "console" THEN {"fleet", "enabled"} ELSE Queries

(* A poll, of a longer or a shorter interval, or an invalidated read.      *)
Fetch(q) ==
    /\ q \in Polled /\ reads' = [reads EXCEPT ![q] = Answer(q)]
    /\ UNCHANGED <<screen, confirming, acting>> /\ UNCHANGED optimizerVars

SwitchPage ==
    /\ screen' = IF screen = "console" THEN "panel" ELSE "console"
    /\ confirming' = {} /\ acting' = {}
    /\ UNCHANGED reads /\ UNCHANGED optimizerVars

-----------------------------------------------------------------------------
(* The operator's actions; a viewer has none of them.  A request reaches   *)
(* the optimizer at the press, as another operator's may at any time, and  *)
(* stays pending until it settles.                                         *)
(* The dialog is there while the toggle shows a pause, and modal.          *)
DialogShown(scope) == scope \in confirming /\ Shows(scope) /\ ShownOf(scope)
NoDialog == \A scope \in Scopes : ~DialogShown(scope)

CanToggle(scope) ==
    /\ Shows(scope) /\ scope \notin acting /\ NoDialog
    /\ scope = "greenhouse" => ServiceShown

AskPause(scope) ==
    /\ CanToggle(scope) /\ ShownOf(scope) /\ confirming' = confirming \cup {scope}
    /\ UNCHANGED <<screen, reads, acting>> /\ UNCHANGED optimizerVars

CancelPause(scope) ==
    /\ DialogShown(scope) /\ confirming' = confirming \ {scope}
    /\ UNCHANGED <<screen, reads, acting>> /\ UNCHANGED optimizerVars

(* The optimizer sets the flag, or refuses.                                *)
Set(scope, to) ==
    /\ \/ /\ Change
          /\ service' = IF scope = "global" THEN to ELSE service
          /\ enabled' = IF scope = "greenhouse" THEN to ELSE enabled
       \/ UNCHANGED <<service, enabled, changes>>
    /\ acting' = acting \cup {scope}
    /\ UNCHANGED <<inFlight, stage, plan, cycles, overlapped, screen, reads>>

(* The dialog's button is not disabled with the toggle's.                  *)
ConfirmPause(scope) ==
    /\ DialogShown(scope) /\ confirming' = confirming \ {scope} /\ Set(scope, FALSE)

Resume(scope) ==
    /\ CanToggle(scope) /\ ~ShownOf(scope) /\ Set(scope, TRUE) /\ UNCHANGED confirming

(* The button of the console's row, and of the panel.                      *)
CanRun ==
    /\ Shows("greenhouse") /\ "trigger" \notin acting /\ NoDialog
    /\ ServiceShown /\ EnabledShown

(* The optimizer refuses a trigger while paused or planning.               *)
RunCycle ==
    /\ CanRun /\ acting' = acting \cup {"trigger"}
    /\ (\E c \in OnDemand : Reserve(c)) \/ UNCHANGED optimizerVars
    /\ UNCHANGED <<screen, reads, confirming>>

(* An accepted action settles once the fleet's read was refetched, or that *)
(* failed; its other reads are refetched on their own.                     *)
SettleAction(a) ==
    /\ a \in acting /\ acting' = acting \ {a}
    /\ reads' \in {reads, [reads EXCEPT !["fleet"] = Row]}
    /\ UNCHANGED <<screen, confirming>> /\ UNCHANGED optimizerVars

ConsoleNext ==
    \/ OtherOperator \/ Planning \/ Restart
    \/ \E q \in Queries : Fetch(q)
    \/ SwitchPage \/ RunCycle \/ \E a \in Actions : SettleAction(a)
    \/ \E s \in Scopes : AskPause(s) \/ CancelPause(s) \/ ConfirmPause(s) \/ Resume(s)

ConsoleSpec == ConsoleInit /\ [][ConsoleNext]_consoleVars

-----------------------------------------------------------------------------
ConsoleTypeOK ==
    /\ service \in BOOLEAN /\ enabled \in BOOLEAN /\ inFlight \in BOOLEAN
    /\ stage \in Stage /\ plan \in Plans \cup {NoPlan} /\ changes \in 0..MaxChanges
    /\ cycles \in [Slots -> Cycles] /\ overlapped \in BOOLEAN
    /\ screen \in {"console", "panel"}
    /\ reads["fleet"] \in Rows \cup {NoData}
    /\ \A q \in {"enabled", "greenhouse"} : reads[q] \in BOOLEAN \cup {NoData}
    /\ confirming \subseteq Scopes /\ acting \subseteq Actions

(* The tracker of a settled row marks the stage its last cycle stopped at, *)
(* and every node before it as done, although the row's reason codes can   *)
(* arise at several stages; unless cycles of the greenhouse overlapped     *)
(* since one of them last began alone, which the code allows (_dispatch,   *)
(* advance_stage, pipelineStages).                                         *)
MarksTheStop(row) ==
    ~row.inFlight /\ CardKind(row, ServiceShown) = "outcome" =>
        \A n \in 1..Last : LET node == Tracker(row, ServiceShown)[n]
                        IN /\ node \in {"failed", "held", "unchanged"} => n = row.plan.at
                           /\ node = "pending" => n > row.plan.at
                           /\ row.plan.status = "applied" => node = "done"

MarkerWhereItStopped ==
    LET row == reads["fleet"] IN row # NoData => (~row.overlapped => MarksTheStop(row))

(* Without that exception: "an idle greenhouse still shows where its last  *)
(* cycle stopped" (ServiceStore.progress).                                 *)
MarkerAlwaysWhereItStopped ==
    LET row == reads["fleet"] IN row # NoData => MarksTheStop(row)
=============================================================================
