--------------------------- MODULE OptimizerCycle ---------------------------
(***************************************************************************)
(* The optimizer's planning cycles (climate-optimizer:                     *)
(* orchestration/scheduler.py, cycle.py, runtime.py, infra/dataaccess.py). *)
(*                                                                         *)
(* A tick picks the idle greenhouses and runs a cycle of each; an operator *)
(* triggers a cycle of one; both claim the greenhouse's single-flight      *)
(* guard and then wait for the concurrency ceiling.  A cycle reads the     *)
(* planning context, asks the planner, gets a token and writes the         *)
(* setpoints; an operator may pause or resume planning, and the process    *)
(* may restart, between any two of these.  Between its awaits a cycle runs *)
(* alone: everything is one event loop's.                                  *)
(***************************************************************************)
EXTENDS Integers, FiniteSets

CONSTANTS
    Greenhouses,
    Demands,    \* bound: the on-demand cycles of a greenhouse at a time
    Ceiling,    \* max_concurrent_cycles
    Tick, NoPlan

Slots  == Demands \cup {Tick}
Cycles == Greenhouses \X Slots

ASSUME OptimizerAssumption ==
    /\ IsFiniteSet(Greenhouses) /\ IsFiniteSet(Demands)
    /\ Ceiling \in Nat \ {0} /\ Tick \notin Demands
    /\ NoPlan \notin [status : {"applied", "unchanged", "held", "failed"},
                      reason : {"none", "gate", "cycle_timeout", "write"}, wrote : BOOLEAN]

VARIABLES
    service,   \* the service-wide enable flag
    enabled,   \* each greenhouse's own
    inFlight,  \* the single-flight guard
    phase,     \* what each cycle waits for, "idle" when there is none
    wrote,     \* history: the platform took the cycle's write
    progress,  \* the stage each greenhouse's current or last cycle reached
    plans      \* the record of each greenhouse's last settled cycle

vars == <<service, enabled, inFlight, phase, wrote, progress, plans>>

Phases == {"idle", "picked", "waiting", "context", "planner", "decided", "token", "sent", "report"}
Stages == {"none", "ingest", "quality_gate", "forecast", "plan", "constrain", "publish"}
Records == [status : {"applied", "unchanged", "held", "failed"},
            reason : {"none", "gate", "cycle_timeout", "write"}, wrote : BOOLEAN]

(* Everything is in memory; the settings start the service enabled.        *)
Init ==
    /\ service = TRUE /\ enabled = [g \in Greenhouses |-> TRUE]
    /\ inFlight = {} /\ phase = [c \in Cycles |-> "idle"]
    /\ wrote = [c \in Cycles |-> FALSE]
    /\ progress = [g \in Greenhouses |-> "none"]
    /\ plans = [g \in Greenhouses |-> NoPlan]

(* is_greenhouse_active.                                                   *)
Active(g) == service /\ enabled[g]

Running == {c \in Cycles : phase[c] \notin {"idle", "picked", "waiting"}}

Become(c, p) == phase' = [phase EXCEPT ![c] = p]
Advance(c, stage) == progress' = [progress EXCEPT ![c[1]] = stage]

-----------------------------------------------------------------------------
(* reserve: the gates and the guard's claim are one step of the loop.      *)
Reserve(c) ==
    /\ c[2] \in Demands /\ phase[c] = "idle"
    /\ Active(c[1]) /\ c[1] \notin inFlight
    /\ inFlight' = inFlight \cup {c[1]} /\ Become(c, "waiting")
    /\ UNCHANGED <<service, enabled, wrote, progress, plans>>

(* tick, once the cycles of the last one have ended: the eligible of the   *)
(* greenhouses that are online.                                            *)
PickAll ==
    /\ \A g \in Greenhouses : phase[<<g, Tick>>] = "idle"
    /\ \E E \in SUBSET {g \in Greenhouses : Active(g) /\ g \notin inFlight} \ {{}} :
          phase' = [c \in Cycles |-> IF c[1] \in E /\ c[2] = Tick THEN "picked" ELSE phase[c]]
    /\ UNCHANGED <<service, enabled, inFlight, wrote, progress, plans>>

(* _dispatch, when the gathered task first runs.                           *)
Dispatch(c) ==
    /\ phase[c] = "picked" /\ Become(c, "waiting")
    /\ inFlight' = inFlight \cup {c[1]}
    /\ UNCHANGED <<service, enabled, wrote, progress, plans>>

(* Variant: the ceiling is off by one.                                     *)
AcquireOneMore(c) ==
    /\ phase[c] = "waiting" /\ Cardinality(Running) <= Ceiling
    /\ Become(c, "context") /\ wrote' = [wrote EXCEPT ![c] = FALSE]
    /\ Advance(c, "ingest") /\ UNCHANGED <<service, enabled, inFlight, plans>>

(* The semaphore, then run_cycle up to the read of the context.            *)
Acquire(c) ==
    /\ phase[c] = "waiting" /\ Cardinality(Running) < Ceiling
    /\ Become(c, "context") /\ wrote' = [wrote EXCEPT ![c] = FALSE]
    /\ Advance(c, "ingest") /\ UNCHANGED <<service, enabled, inFlight, plans>>

-----------------------------------------------------------------------------
(* _settle with the record, which a held or failed cycle then reports.     *)
SettleAs(c, status, reason) ==
    /\ plans' = [plans EXCEPT ![c[1]] =
                    [status |-> status, reason |-> reason, wrote |-> wrote[c]]]
    /\ Become(c, "report")

(* The rest of the deliberation after the read: a gate stops it where it   *)
(* is, or the planner is asked, unless planning was paused meanwhile.      *)
ContextAnswered(c) ==
    /\ phase[c] = "context"
    /\ \/ \E stage \in {"ingest", "quality_gate", "forecast"} :
             /\ Advance(c, stage)
             /\ \E status \in {"held", "failed"} : SettleAs(c, status, "gate")
       \/ \E stage \in {"forecast", "plan"} :   \* no bounds, or suppressed
             /\ stage = "plan" => c[2] = Tick
             /\ Advance(c, stage) /\ SettleAs(c, "unchanged", "none")
       \/ /\ Advance(c, "plan")
          /\ IF Active(c[1]) THEN Become(c, "planner") /\ UNCHANGED plans
                             ELSE SettleAs(c, "unchanged", "none")
    /\ UNCHANGED <<service, enabled, inFlight, wrote>>

(* The planner's answer: no change, none, one a guardrail withholds, or a  *)
(* plan to commit.                                                         *)
PlannerAnswered(c) ==
    /\ phase[c] = "planner"
    /\ \/ /\ \/ SettleAs(c, "unchanged", "none") \/ SettleAs(c, "failed", "gate")
          /\ UNCHANGED progress
       \/ /\ Advance(c, "constrain")
          /\ SettleAs(c, "held", "gate") \/ (Become(c, "decided") /\ UNCHANGED plans)
    /\ UNCHANGED <<service, enabled, inFlight, wrote>>

(* Variant: the commit is under the cycle's timeout too.                   *)
TimeoutOfAll(c) ==
    /\ phase[c] \in {"context", "planner", "decided", "token", "sent"}
    /\ SettleAs(c, "failed", "cycle_timeout")
    /\ UNCHANGED <<service, enabled, inFlight, wrote, progress>>

(* cycle_timeout_seconds bounds the deliberation.                          *)
Timeout(c) ==
    /\ phase[c] \in {"context", "planner"}
    /\ SettleAs(c, "failed", "cycle_timeout")
    /\ UNCHANGED <<service, enabled, inFlight, wrote, progress>>

(* _commit, up to the service token.                                       *)
Commit(c) ==
    /\ phase[c] = "decided" /\ Advance(c, "publish")
    /\ IF Active(c[1]) THEN Become(c, "token") /\ UNCHANGED plans
                       ELSE SettleAs(c, "unchanged", "none")
    /\ UNCHANGED <<service, enabled, inFlight, wrote>>

(* Variant: the flags are not read again once the token is there.          *)
SubmitUnchecked(c) ==
    /\ phase[c] = "token"
    /\ SettleAs(c, "failed", "write") \/ (Become(c, "sent") /\ UNCHANGED plans)
    /\ UNCHANGED <<service, enabled, inFlight, wrote, progress>>

(* submit_setpoints: no token is a failed write, a pause withholds it.     *)
Submit(c) ==
    /\ phase[c] = "token"
    /\ \/ SettleAs(c, "failed", "write")
       \/ IF Active(c[1]) THEN Become(c, "sent") /\ UNCHANGED plans
                          ELSE SettleAs(c, "unchanged", "none")
    /\ UNCHANGED <<service, enabled, inFlight, wrote, progress>>

(* The platform takes the write ...                                        *)
PlatformTakes(c) ==
    /\ phase[c] = "sent" /\ ~wrote[c] /\ wrote' = [wrote EXCEPT ![c] = TRUE]
    /\ UNCHANGED <<service, enabled, inFlight, phase, progress, plans>>

(* ... and says so, or refuses it; or no answer comes in time.             *)
WriteAnswered(c) ==
    /\ phase[c] = "sent"
    /\ \/ wrote[c] /\ SettleAs(c, "applied", "none")
       \/ ~wrote[c] /\ SettleAs(c, "held", "write")
       \/ SettleAs(c, "failed", "write")
    /\ UNCHANGED <<service, enabled, inFlight, wrote, progress>>

(* Variant: the guard outlives the cycle.                                  *)
EndKeepingGuard(c) ==
    /\ phase[c] = "report" /\ Become(c, "idle")
    /\ UNCHANGED <<service, enabled, inFlight, wrote, progress, plans>>

(* The report is answered or given up on, and the guard dropped, whoever   *)
(* claimed it.                                                             *)
End(c) ==
    /\ phase[c] = "report" /\ Become(c, "idle") /\ inFlight' = inFlight \ {c[1]}
    /\ UNCHANGED <<service, enabled, wrote, progress, plans>>

-----------------------------------------------------------------------------
SetEnabled ==
    /\ service' = ~service
    /\ UNCHANGED <<enabled, inFlight, phase, wrote, progress, plans>>

SetGreenhouseEnabled(g) ==
    /\ enabled' = [enabled EXCEPT ![g] = ~@]
    /\ UNCHANGED <<service, inFlight, phase, wrote, progress, plans>>

(* The process restarts, and with it goes all it knew.                     *)
Restart ==
    /\ service' = TRUE /\ enabled' = [g \in Greenhouses |-> TRUE]
    /\ inFlight' = {} /\ phase' = [c \in Cycles |-> "idle"]
    /\ wrote' = [c \in Cycles |-> FALSE]
    /\ progress' = [g \in Greenhouses |-> "none"]
    /\ plans' = [g \in Greenhouses |-> NoPlan]

Step(c) ==
    \/ Dispatch(c) \/ Acquire(c) \/ ContextAnswered(c) \/ PlannerAnswered(c) \/ Timeout(c)
    \/ Commit(c) \/ Submit(c) \/ PlatformTakes(c) \/ WriteAnswered(c) \/ End(c)

Next ==
    \/ \E c \in Cycles : Reserve(c) \/ Step(c)
    \/ PickAll \/ SetEnabled \/ (\E g \in Greenhouses : SetGreenhouseEnabled(g)) \/ Restart

(* Every await is bounded by a timeout, and the semaphore is first-come    *)
(* first-served.                                                           *)
Fairness == \A c \in Cycles : WF_vars(Step(c)) /\ SF_vars(Acquire(c))

Spec == Init /\ [][Next]_vars /\ Fairness

-----------------------------------------------------------------------------
(* No more cycles run than max_concurrent_cycles, whatever mix of ticks    *)
(* and triggers dispatched them.                                           *)
TypeOK ==
    /\ service \in BOOLEAN /\ enabled \in [Greenhouses -> BOOLEAN]
    /\ inFlight \subseteq Greenhouses /\ phase \in [Cycles -> Phases]
    /\ wrote \in [Cycles -> BOOLEAN] /\ progress \in [Greenhouses -> Stages]
    /\ plans \in [Greenhouses -> Records \cup {NoPlan}]
    /\ Cardinality(Running) <= Ceiling

(* A plan decided before a pause is not written after it: no cycle sends a *)
(* write while the operator has planning paused, although it last asked    *)
(* before it waited for the planner and for the token.                     *)
NoWriteWhilePaused ==
    [][\A c \in Cycles : phase[c] # "sent" /\ phase'[c] = "sent" => Active(c[1])]_vars

(* A settled cycle's record tells whether the platform took its write; the *)
(* exception is a write whose answer never came.                           *)
RecordTellsWrite ==
    \A g \in Greenhouses : plans[g] # NoPlan =>
        /\ plans[g].status = "applied" => plans[g].wrote
        /\ plans[g].wrote => \/ plans[g].status = "applied"
                             \/ plans[g].status = "failed" /\ plans[g].reason = "write"

(* A claimed guard is dropped again, so that a greenhouse does not stay    *)
(* refused to ticks and triggers.                                          *)
GuardDropped == \A g \in Greenhouses : g \in inFlight ~> g \notin inFlight

(* Single-flight: at most one cycle of a greenhouse at a time.             *)
SingleFlight ==
    \A g \in Greenhouses, s, t \in Slots :
        {phase[<<g, s>>], phase[<<g, t>>]} \cap {"idle", "picked"} = {} => s = t

(* What the console shows of a greenhouse in flight is the stage a cycle   *)
(* is executing, not where the previous one stopped.                       *)
StageIsLive ==
    \A g \in inFlight : progress[g] # "none" => \E s \in Slots : <<g, s>> \in Running
=============================================================================
