------------------------ MODULE OptimizerCycleProofs ------------------------
(***************************************************************************)
(* Proofs about the optimizer's cycles, for any greenhouses, any number of *)
(* on-demand cycles and any ceiling, with pauses and restarts at any time. *)
(***************************************************************************)
EXTENDS OptimizerCycle, FiniteSetTheorems, TLAPS

(* The ranges of the variables, without the ceiling.                       *)
RangesInv ==
    /\ service \in BOOLEAN /\ enabled \in [Greenhouses -> BOOLEAN]
    /\ inFlight \subseteq Greenhouses /\ phase \in [Cycles -> Phases]
    /\ wrote \in [Cycles -> BOOLEAN] /\ progress \in [Greenhouses -> Stages]
    /\ plans \in [Greenhouses -> Records \cup {NoPlan}]

(* A cycle that has not sent its write has nothing taken by the platform,  *)
(* so what it settles as then records no write.                            *)
UnsentInv == \A c \in Cycles :
    phase[c] \in {"context", "planner", "decided", "token"} => ~wrote[c]

CycleInv == RangesInv /\ UnsentInv /\ RecordTellsWrite

LEMMA CycleParts == \A c \in Cycles : c[1] \in Greenhouses /\ c[2] \in Slots /\ c = <<c[1], c[2]>>
BY DEF Cycles

(* What settling a cycle does, given what its record may claim.            *)
LEMMA SettleKeeps ==
    ASSUME CycleInv, NEW c \in Cycles,
           NEW status \in {"applied", "unchanged", "held", "failed"},
           NEW reason \in {"none", "gate", "cycle_timeout", "write"},
           SettleAs(c, status, reason),
           wrote' = wrote,
           status = "applied" => wrote[c],
           wrote[c] => status = "applied" \/ (status = "failed" /\ reason = "write")
    PROVE  /\ phase' \in [Cycles -> Phases] /\ plans' \in [Greenhouses -> Records \cup {NoPlan}]
           /\ UnsentInv' /\ RecordTellsWrite'
<1> DEFINE record == [status |-> status, reason |-> reason, wrote |-> wrote[c]]
<1>1. c[1] \in Greenhouses
      BY CycleParts
<1>2. /\ phase' = [phase EXCEPT ![c] = "report"]
      /\ plans' = [plans EXCEPT ![c[1]] = record]
      BY DEF SettleAs, Become
<1>3. record \in Records
      BY DEF CycleInv, RangesInv, Records
<1>4. phase' \in [Cycles -> Phases] /\ plans' \in [Greenhouses -> Records \cup {NoPlan}]
      BY <1>1, <1>2, <1>3 DEF CycleInv, RangesInv, Phases
<1>5. UnsentInv'
      BY <1>2 DEF CycleInv, RangesInv, UnsentInv
<1>6. record.status = status /\ record.reason = reason /\ record.wrote = wrote[c]
      OBVIOUS
<1> HIDE DEF record
<1>7. RecordTellsWrite'
  <2> SUFFICES ASSUME NEW g \in Greenhouses, plans'[g] # NoPlan
               PROVE  /\ plans'[g].status = "applied" => plans'[g].wrote
                      /\ plans'[g].wrote => \/ plans'[g].status = "applied"
                                            \/ plans'[g].status = "failed" /\ plans'[g].reason = "write"
      BY DEF RecordTellsWrite
  <2>1. CASE g = c[1]
    <3>1. plans'[g] = record
          BY <1>1, <1>2, <2>1 DEF CycleInv, RangesInv
    <3> QED BY <1>6, <3>1
  <2>2. CASE g # c[1]
    <3>1. plans'[g] = plans[g]
          BY <1>2, <2>2 DEF CycleInv, RangesInv
    <3> QED BY <3>1 DEF CycleInv, RecordTellsWrite
  <2> QED BY <2>1, <2>2
<1> QED BY <1>4, <1>5, <1>7

(* Going on to another phase without settling.                             *)
LEMMA BecomeKeeps ==
    ASSUME CycleInv, NEW c \in Cycles, NEW p \in Phases, Become(c, p),
           wrote' = wrote, plans' = plans,
           p \in {"context", "planner", "decided", "token"} => ~wrote[c]
    PROVE  phase' \in [Cycles -> Phases] /\ UnsentInv' /\ RecordTellsWrite'
BY DEF Become, CycleInv, RangesInv, UnsentInv, RecordTellsWrite

LEMMA AdvanceKeeps ==
    ASSUME CycleInv, NEW c \in Cycles, NEW stage \in Stages, Advance(c, stage)
    PROVE  progress' \in [Greenhouses -> Stages]
BY CycleParts DEF Advance, CycleInv, RangesInv

LEMMA CycleStarts == Init => CycleInv
<1> SUFFICES ASSUME Init PROVE CycleInv
    OBVIOUS
<1>1. RangesInv
      BY DEF Init, RangesInv, Phases, Stages
<1> QED BY <1>1 DEF CycleInv, Init, UnsentInv, RecordTellsWrite

(* Claiming the guard, waiting and being picked: nothing is settled.       *)
LEMMA ClaimKeeps ==
    ASSUME CycleInv, NEW c \in Cycles, Reserve(c) \/ Dispatch(c) \/ Acquire(c) \/ End(c)
    PROVE  CycleInv'
<1>1. service' = service /\ enabled' = enabled /\ plans' = plans /\ inFlight' \subseteq Greenhouses
      BY CycleParts DEF Reserve, Dispatch, Acquire, End, CycleInv, RangesInv
<1>2. CASE Reserve(c) \/ Dispatch(c) \/ End(c)
  <2>1. PICK p \in {"waiting", "idle"} : Become(c, p)
        BY <1>2 DEF Reserve, Dispatch, End
  <2>2. wrote' = wrote /\ progress' = progress
        BY <1>2 DEF Reserve, Dispatch, End
  <2>3. phase' \in [Cycles -> Phases] /\ UnsentInv' /\ RecordTellsWrite'
        BY <1>1, <2>1, <2>2, BecomeKeeps DEF Phases
  <2> QED BY <1>1, <2>2, <2>3 DEF CycleInv, RangesInv
<1>3. CASE Acquire(c)
  <2>1. /\ phase' = [phase EXCEPT ![c] = "context"] /\ wrote' = [wrote EXCEPT ![c] = FALSE]
        /\ Advance(c, "ingest")
        BY <1>3 DEF Acquire, Become
  <2>2. progress' \in [Greenhouses -> Stages]
        BY <2>1, AdvanceKeeps DEF Stages
  <2>3. RangesInv'
        BY <1>1, <2>1, <2>2 DEF CycleInv, RangesInv, Phases
  <2> QED BY <1>1, <2>1, <2>3 DEF CycleInv, RangesInv, UnsentInv, RecordTellsWrite
<1> QED BY <1>2, <1>3

LEMMA DeliberationKeeps ==
    ASSUME CycleInv, NEW c \in Cycles, ContextAnswered(c) \/ PlannerAnswered(c) \/ Timeout(c)
    PROVE  CycleInv'
<1>1. /\ service' = service /\ enabled' = enabled /\ inFlight' = inFlight /\ wrote' = wrote
      /\ ~wrote[c]
      BY DEF ContextAnswered, PlannerAnswered, Timeout, CycleInv, UnsentInv
<1>2. progress' \in [Greenhouses -> Stages]
  <2>1. progress' = progress \/ \E stage \in Stages : Advance(c, stage)
        BY DEF ContextAnswered, PlannerAnswered, Timeout, Stages
  <2> QED BY <2>1, AdvanceKeeps DEF CycleInv, RangesInv
<1>3. \/ \E status \in {"unchanged", "held", "failed"}, reason \in {"none", "gate", "cycle_timeout"} :
            SettleAs(c, status, reason)
      \/ \E p \in {"planner", "decided"} : Become(c, p) /\ plans' = plans
      BY DEF ContextAnswered, PlannerAnswered, Timeout
<1>4. phase' \in [Cycles -> Phases] /\ UnsentInv' /\ RecordTellsWrite'
      /\ plans' \in [Greenhouses -> Records \cup {NoPlan}]
  <2>1. ASSUME NEW status \in {"unchanged", "held", "failed"},
               NEW reason \in {"none", "gate", "cycle_timeout"}, SettleAs(c, status, reason)
        PROVE  phase' \in [Cycles -> Phases] /\ UnsentInv' /\ RecordTellsWrite'
               /\ plans' \in [Greenhouses -> Records \cup {NoPlan}]
        BY <1>1, <2>1, SettleKeeps
  <2>2. ASSUME NEW p \in {"planner", "decided"}, Become(c, p), plans' = plans
        PROVE  phase' \in [Cycles -> Phases] /\ UnsentInv' /\ RecordTellsWrite'
               /\ plans' \in [Greenhouses -> Records \cup {NoPlan}]
        BY <1>1, <2>2, BecomeKeeps DEF Phases, CycleInv, RangesInv
  <2> QED BY <1>3, <2>1, <2>2
<1> QED BY <1>1, <1>2, <1>4 DEF CycleInv, RangesInv

LEMMA CommitmentKeeps ==
    ASSUME CycleInv, NEW c \in Cycles, Commit(c) \/ Submit(c)
    PROVE  CycleInv'
<1>1. /\ service' = service /\ enabled' = enabled /\ inFlight' = inFlight /\ wrote' = wrote
      /\ ~wrote[c]
      BY DEF Commit, Submit, CycleInv, UnsentInv
<1>2. progress' \in [Greenhouses -> Stages]
      BY AdvanceKeeps DEF Commit, Submit, Stages, CycleInv, RangesInv
<1>3. \/ SettleAs(c, "unchanged", "none") \/ SettleAs(c, "failed", "write")
      \/ \E p \in {"token", "sent"} : Become(c, p) /\ plans' = plans
      BY DEF Commit, Submit
<1>4. phase' \in [Cycles -> Phases] /\ UnsentInv' /\ RecordTellsWrite'
      /\ plans' \in [Greenhouses -> Records \cup {NoPlan}]
  <2>1. CASE SettleAs(c, "unchanged", "none") \/ SettleAs(c, "failed", "write")
        BY <1>1, <2>1, SettleKeeps
  <2>2. ASSUME NEW p \in {"token", "sent"}, Become(c, p), plans' = plans
        PROVE  phase' \in [Cycles -> Phases] /\ UnsentInv' /\ RecordTellsWrite'
               /\ plans' \in [Greenhouses -> Records \cup {NoPlan}]
        BY <1>1, <2>2, BecomeKeeps DEF Phases, CycleInv, RangesInv
  <2> QED BY <1>3, <2>1, <2>2
<1> QED BY <1>1, <1>2, <1>4 DEF CycleInv, RangesInv

LEMMA WriteKeeps ==
    ASSUME CycleInv, NEW c \in Cycles, PlatformTakes(c) \/ WriteAnswered(c)
    PROVE  CycleInv'
<1>1. CASE PlatformTakes(c)
      BY <1>1 DEF PlatformTakes, CycleInv, RangesInv, UnsentInv, RecordTellsWrite
<1>2. CASE WriteAnswered(c)
  <2>1. /\ service' = service /\ enabled' = enabled /\ inFlight' = inFlight /\ wrote' = wrote
        /\ progress' = progress /\ wrote[c] \in BOOLEAN
        BY <1>2 DEF WriteAnswered, CycleInv, RangesInv
  <2>2. phase' \in [Cycles -> Phases] /\ UnsentInv' /\ RecordTellsWrite'
        /\ plans' \in [Greenhouses -> Records \cup {NoPlan}]
    <3>1. CASE wrote[c] /\ SettleAs(c, "applied", "none")
          BY <2>1, <3>1, SettleKeeps
    <3>2. CASE ~wrote[c] /\ SettleAs(c, "held", "write")
          BY <2>1, <3>2, SettleKeeps
    <3>3. CASE SettleAs(c, "failed", "write")
          BY <2>1, <3>3, SettleKeeps
    <3> QED BY <1>2, <3>1, <3>2, <3>3 DEF WriteAnswered
  <2> QED BY <2>1, <2>2 DEF CycleInv, RangesInv
<1> QED BY <1>1, <1>2

LEMMA CycleStepKeeps == CycleInv /\ [Next]_vars => CycleInv'
<1> SUFFICES ASSUME CycleInv, [Next]_vars PROVE CycleInv'
    OBVIOUS
<1>1. ASSUME NEW c \in Cycles, Reserve(c) \/ Step(c) PROVE CycleInv'
      BY <1>1, ClaimKeeps, DeliberationKeeps, CommitmentKeeps, WriteKeeps DEF Step
<1>2. CASE PickAll
  <2>1. phase' \in [Cycles -> Phases]
        BY <1>2 DEF PickAll, CycleInv, RangesInv, Phases
  <2>2. UnsentInv'
        BY <1>2 DEF PickAll, CycleInv, RangesInv, UnsentInv
  <2> QED BY <1>2, <2>1, <2>2 DEF PickAll, CycleInv, RangesInv, RecordTellsWrite
<1>3. CASE SetEnabled \/ \E g \in Greenhouses : SetGreenhouseEnabled(g)
      BY <1>3 DEF SetEnabled, SetGreenhouseEnabled, CycleInv, RangesInv, UnsentInv, RecordTellsWrite
<1>4. CASE Restart
      BY <1>4 DEF Restart, CycleInv, RangesInv, UnsentInv, RecordTellsWrite, Phases, Stages
<1>5. CASE UNCHANGED vars
      BY <1>5 DEF vars, CycleInv, RangesInv, UnsentInv, RecordTellsWrite
<1> QED BY <1>1, <1>2, <1>3, <1>4, <1>5 DEF Next

THEOREM CycleInvariant == Spec => []CycleInv
BY CycleStarts, CycleStepKeeps, PTL DEF Spec

-----------------------------------------------------------------------------
(* The ceiling: only Acquire makes another cycle run.                      *)
LEMMA CyclesFinite == IsFiniteSet(Cycles)
<1>1. IsFiniteSet({Tick})
      BY FS_Singleton
<1>2. IsFiniteSet(Slots)
      BY <1>1, OptimizerAssumption, FS_Union DEF Slots
<1> QED BY <1>2, OptimizerAssumption, FS_Product DEF Cycles

LEMMA RunningFinite == IsFiniteSet(Running) /\ Cardinality(Running) \in Nat
<1>1. Running \in SUBSET Cycles
      BY DEF Running
<1>2. IsFiniteSet(Running)
      BY <1>1, CyclesFinite, FS_Subset
<1> QED BY <1>2, FS_CardinalityType

LEMMA OnlyAcquireRuns ==
    ASSUME CycleInv, Next, \A c \in Cycles : ~Acquire(c)
    PROVE  Running' \subseteq Running
<1> USE DEF Running, CycleInv, RangesInv
<1>1. ASSUME NEW c \in Cycles, Reserve(c) \/ Step(c) PROVE Running' \subseteq Running
  <2>1. CASE Reserve(c) \/ Dispatch(c) \/ End(c)
        BY <2>1 DEF Reserve, Dispatch, End, Become
  <2>2. CASE \/ ContextAnswered(c) \/ PlannerAnswered(c) \/ Timeout(c) \/ Commit(c)
             \/ Submit(c) \/ PlatformTakes(c) \/ WriteAnswered(c)
    <3>1. /\ phase[c] \in {"context", "planner", "decided", "token", "sent"}
          /\ phase' = phase \/ \E p \in Phases : phase' = [phase EXCEPT ![c] = p]
          BY <2>2 DEF ContextAnswered, PlannerAnswered, Timeout, Commit, Submit, PlatformTakes,
                      WriteAnswered, SettleAs, Become, Phases
    <3> QED BY <3>1
  <2> QED BY <1>1, <2>1, <2>2 DEF Step
<1>2. CASE PickAll
  <2>1. ASSUME NEW c \in Cycles, c \in Running' PROVE c \in Running
    <3>1. c[2] = Tick => phase[c] = "idle"
          BY <1>2, CycleParts DEF PickAll
    <3> QED BY <1>2, <2>1, <3>1 DEF PickAll
  <2> QED BY <2>1
<1>3. CASE SetEnabled \/ \E g \in Greenhouses : SetGreenhouseEnabled(g)
      BY <1>3 DEF SetEnabled, SetGreenhouseEnabled
<1>4. CASE Restart
      BY <1>4 DEF Restart
<1> QED BY <1>1, <1>2, <1>3, <1>4 DEF Next

LEMMA CeilingKept ==
    ASSUME CycleInv, Cardinality(Running) <= Ceiling, [Next]_vars
    PROVE  Cardinality(Running)' <= Ceiling
<1>1. CASE \E c \in Cycles : Acquire(c)
  <2>1. PICK c \in Cycles : Acquire(c)
        BY <1>1
  <2>2. Running' = Running \cup {c}
        BY <2>1 DEF Acquire, Become, Running, CycleInv, RangesInv
  <2>3. Cardinality(Running') <= Cardinality(Running) + 1
        BY <2>2, RunningFinite, FS_AddElement
  <2>4. Cardinality(Running) + 1 <= Ceiling /\ Cardinality(Running') \in Nat
    <3>1. IsFiniteSet(Running')
          BY <2>2, RunningFinite, FS_AddElement
    <3> QED BY <2>1, <3>1, RunningFinite, OptimizerAssumption, FS_CardinalityType DEF Acquire
  <2> QED BY <2>3, <2>4, RunningFinite, OptimizerAssumption
<1>2. CASE Next /\ \A c \in Cycles : ~Acquire(c)
  <2>1. Running' \in SUBSET Running
        BY <1>2, OnlyAcquireRuns
  <2>2. IsFiniteSet(Running') /\ Cardinality(Running') <= Cardinality(Running)
        BY <2>1, RunningFinite, FS_Subset
  <2> QED BY <2>2, RunningFinite, OptimizerAssumption, FS_CardinalityType
<1>3. CASE UNCHANGED vars
      BY <1>3 DEF vars, Running
<1> QED BY <1>1, <1>2, <1>3

LEMMA CeilingStarts == Init => Cardinality(Running) <= Ceiling
<1>1. Init => Running = {}
      BY DEF Init, Running
<1> QED BY <1>1, FS_EmptySet, OptimizerAssumption

-----------------------------------------------------------------------------
(* Every variable keeps its range, and no more than max_concurrent_cycles  *)
(* cycles run, whatever ticks and triggers dispatch and whatever pauses    *)
(* and restarts come between (the semaphore of scheduler.py).              *)
THEOREM CycleTypeCorrect == Spec => []TypeOK
<1>1. CycleInv /\ Cardinality(Running) <= Ceiling /\ [Next]_vars => (Cardinality(Running) <= Ceiling)'
      BY CeilingKept
<1>2. CycleInv /\ Cardinality(Running) <= Ceiling => TypeOK
      BY DEF CycleInv, RangesInv, TypeOK
<1> QED BY <1>1, <1>2, CeilingStarts, CycleInvariant, PTL DEF Spec

(* The record of a settled cycle tells whether the platform took its       *)
(* write, but for a write whose answer never came (_settle of cycle.py).   *)
THEOREM RecordsAreTrue == Spec => []RecordTellsWrite
<1>1. CycleInv => RecordTellsWrite
      BY DEF CycleInv
<1> QED BY <1>1, CycleInvariant, PTL

(* No cycle sends its write while planning is paused for its greenhouse,   *)
(* however long ago it was decided (submit_setpoints of dataaccess.py).    *)
THEOREM PausedWritesNothing == Spec => NoWriteWhilePaused
<1>1. CycleInv /\ [Next]_vars =>
        [\A c \in Cycles : phase[c] # "sent" /\ phase'[c] = "sent" => Active(c[1])]_vars
  <2> SUFFICES ASSUME CycleInv, Next, NEW c \in Cycles, phase[c] # "sent", phase'[c] = "sent"
               PROVE  Active(c[1])
      OBVIOUS
  <2> USE DEF CycleInv, RangesInv
  <2>1. CASE Submit(c)
        BY <2>1 DEF Submit, SettleAs, Become
  <2>2. ASSUME NEW d \in Cycles, Reserve(d) \/ (Step(d) /\ ~Submit(d)) \/ (Submit(d) /\ d # c)
        PROVE  FALSE
    <3>1. phase' = phase \/ \E p \in Phases : phase' = [phase EXCEPT ![d] = p] /\ (d = c => p # "sent")
          BY <2>2 DEF Step, Reserve, Dispatch, Acquire, ContextAnswered, PlannerAnswered, Timeout,
                      Commit, Submit, PlatformTakes, WriteAnswered, End, SettleAs, Become, Phases
    <3> QED BY <3>1
  <2>3. CASE PickAll
        BY <2>3 DEF PickAll
  <2>4. CASE SetEnabled \/ (\E g \in Greenhouses : SetGreenhouseEnabled(g)) \/ Restart
        BY <2>4 DEF SetEnabled, SetGreenhouseEnabled, Restart
  <2> QED BY <2>1, <2>2, <2>3, <2>4 DEF Next, Step
<1> QED BY <1>1, CycleInvariant, PTL DEF Spec, NoWriteWhilePaused

-----------------------------------------------------------------------------
(* A claimed guard is held by a cycle that will drop it when it ends.      *)
GuardHasHolder ==
    \A g \in inFlight : \E s \in Slots : phase[<<g, s>>] \notin {"idle", "picked"}

LEMMA HolderStays ==
    ASSUME CycleInv, GuardHasHolder, [Next]_vars
    PROVE  GuardHasHolder'
<1> USE DEF CycleInv, RangesInv
<1>1. ASSUME NEW c \in Cycles, Reserve(c) \/ Dispatch(c) PROVE GuardHasHolder'
  <2>1. inFlight' = inFlight \cup {c[1]} /\ phase' = [phase EXCEPT ![c] = "waiting"]
        BY <1>1 DEF Reserve, Dispatch, Become
  <2>2. c[1] \in Greenhouses /\ c[2] \in Slots /\ c = <<c[1], c[2]>>
        BY CycleParts
  <2>3. \A d \in Cycles : phase[d] \notin {"idle", "picked"} => phase'[d] \notin {"idle", "picked"}
        BY <2>1
  <2>4. phase'[<<c[1], c[2]>>] = "waiting"
        BY <1>1, <2>1, <2>2
  <2>5. \A g \in inFlight, s \in Slots : <<g, s>> \in Cycles
        BY DEF Cycles
  <2> QED BY <2>1, <2>2, <2>3, <2>4, <2>5 DEF GuardHasHolder
<1>2. ASSUME NEW c \in Cycles, Step(c), ~Dispatch(c), ~End(c) PROVE GuardHasHolder'
  <2>1. /\ inFlight' = inFlight
        /\ phase' = phase \/ \E p \in Phases \ {"idle", "picked"} : phase' = [phase EXCEPT ![c] = p]
        BY <1>2 DEF Step, Acquire, ContextAnswered, PlannerAnswered, Timeout,
                    Commit, Submit, PlatformTakes, WriteAnswered, SettleAs, Become, Phases
  <2>2. \A d \in Cycles : phase[d] \notin {"idle", "picked"} => phase'[d] \notin {"idle", "picked"}
        BY <2>1
  <2>3. \A g \in inFlight, s \in Slots : <<g, s>> \in Cycles
        BY DEF Cycles
  <2> QED BY <2>1, <2>2, <2>3 DEF GuardHasHolder
<1>3. ASSUME NEW c \in Cycles, End(c) PROVE GuardHasHolder'
  <2>1. inFlight' = inFlight \ {c[1]} /\ phase' = [phase EXCEPT ![c] = "idle"]
        BY <1>3 DEF End, Become
  <2>2. ASSUME NEW g \in inFlight', NEW s \in Slots PROVE phase'[<<g, s>>] = phase[<<g, s>>]
    <3>1. <<g, s>> \in Cycles /\ <<g, s>> # c
          BY <2>1, CycleParts DEF Cycles
    <3> QED BY <2>1, <3>1
  <2> QED BY <2>1, <2>2 DEF GuardHasHolder
<1>4. CASE PickAll
  <2>1. PICK E \in SUBSET Greenhouses :
            phase' = [c \in Cycles |-> IF c[1] \in E /\ c[2] = Tick THEN "picked" ELSE phase[c]]
        BY <1>4 DEF PickAll
  <2>2. inFlight' = inFlight /\ \A g \in Greenhouses : phase[<<g, Tick>>] = "idle"
        BY <1>4 DEF PickAll
  <2>3. ASSUME NEW g \in inFlight, NEW s \in Slots, phase[<<g, s>>] \notin {"idle", "picked"}
        PROVE  phase'[<<g, s>>] = phase[<<g, s>>]
    <3>1. s # Tick /\ <<g, s>> \in Cycles
          BY <2>2, <2>3 DEF Cycles
    <3> QED BY <2>1, <3>1
  <2> QED BY <2>2, <2>3 DEF GuardHasHolder
<1>5. CASE SetEnabled \/ (\E g \in Greenhouses : SetGreenhouseEnabled(g)) \/ UNCHANGED vars
      BY <1>5 DEF SetEnabled, SetGreenhouseEnabled, vars, GuardHasHolder
<1>6. CASE Restart
      BY <1>6 DEF Restart, GuardHasHolder
<1> QED BY <1>1, <1>2, <1>3, <1>4, <1>5, <1>6 DEF Next, Step

(* Whatever ticks, triggers, timeouts, pauses and restarts interleave, no  *)
(* greenhouse stays refused by a guard that nobody is going to drop: the   *)
(* guard is always some live cycle's of that greenhouse, whose end drops   *)
(* it (the finally blocks of scheduler.py:162 and :171).                   *)
THEOREM GuardsAreHeld == Spec => []GuardHasHolder
<1>1. Init => GuardHasHolder
      BY DEF Init, GuardHasHolder
<1>2. CycleInv /\ GuardHasHolder /\ [Next]_vars => GuardHasHolder'
      BY HolderStays
<1> QED BY <1>1, <1>2, CycleInvariant, PTL DEF Spec
=============================================================================
