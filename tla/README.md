# A TLA+ verification of the greenhouse climate controller

This directory holds a formal model of the greenhouse climate system: TLA+
modules translated from its source, TLC configurations that check them on small
instances, and TLAPS proofs of what holds for every instance. File references
below are relative to the repository's root.

| File | What it is |
|---|---|
| `Reconciler.tla`, `MCReconciler.tla`, `Reconciler_*.cfg` | how intended setpoints reach a controller and stay there |
| `IntendedState.tla` | what the platform promises of a greenhouse's intended setpoints (abstract) |
| `ReconcilerProofs.tla` | proofs about `Reconciler`, the refinement of `IntendedState` among them |
| `LatchedConfig.tla` | what the controller promises of its configuration (abstract) |
| `ControllerConfig.tla`, `MCControllerConfig.tla`, `ControllerConfig_*.cfg` | how a configuration write reaches the control loop |
| `ControllerConfigProofs.tla` | proofs about it, the refinement of `LatchedConfig` among them |
| `LiveStatus.tla`, `MCLiveStatus.tla`, `LiveStatus_*.cfg` | how telemetry becomes a status on the dashboards |
| `LiveStatusProofs.tla` | proofs about it |
| `StreamClient.tla`, `StreamClientProofs.tla` | the dashboard's WebSocket link, and proofs about it |
| `LiveChart.tla`, `MCLiveChart.tla`, `LiveChart_*.cfg`, `LiveChartProofs.tla` | what a greenhouse's chart draws, over that link; proofs |
| `FleetPage.tla` | the fleet list, its poll and the dialogs that register and retire |
| `SetpointForm.tla` | the manual setpoint edit |
| `Profiles.tla`, `ProfileEditor.tla`, `ProfilePagesProofs.tla` | the profile library, the assignment panel and the profile editor; proofs |
| `OptimizerConsole.tla` | the optimizer's controls and stage tracker |
| `Dashboard.tla`, `MCDashboard.tla`, `Dashboard_pages.cfg` | the dashboard's routes over the link and those pages |
| `DashboardProofs.tla` | proofs about the fleet page, the setpoint form, the optimizer console and the dashboard as a whole |
| `OptimizerCycle.tla`, `OptimizerCycle_*.cfg`, `OptimizerCycleProofs.tla` | the optimizer's scheduler and planning cycle; proofs |
| `PROJECT.json` | the machine-readable index: components, runs, mutants, source map, findings, hazards, theorems |

To check a run: `tlc -config Reconciler_races.cfg MCReconciler.tla`. To check
the proofs: `tlapm ReconcilerProofs.tla`.

## 1. The system

One **controller** (Rust) per greenhouse runs the control loop; the
**platform** (Go, PostgreSQL) ingests their telemetry and holds the intended
setpoints of the fleet; the **optimizer** (Python) proposes setpoints; the
**dashboard** (TypeScript) shows and edits. They interact by MQTT (telemetry
up), REST (setpoints down, dashboard and optimizer to the platform) and one
WebSocket per open dashboard (live frames).

```
 dashboard --REST--> platform API --> reconciler --REST PATCH/GET--> controller
     ^                  |   ^             |                              |
     |                  v   |             v                              | MQTT
     +---- WebSocket hub    |     store (ledger, rows)                   v
              ^         optimizer                         broker --> ingester
              +------------------------- fleet state <-----------------+
```

### 1.1 Components

Paths are under `climate-platform/internal`, `climate-controller/src`,
`climate-optimizer/src/climate_optimizer` and `climate-frontend/src`.

| Component | State | Operations | What makes it hard | What makes it correct |
|---|---|---|---|---|
| platform reconciler (`reconcile`) | none of its own; rows it has read, held in locals | `Apply`, `record`, `Baseline`, one pass of `ReconcileOnce` | no lock and no transaction across statements and REST calls; every request and the loop run concurrently; calls fail half way | revisions are not lost or confused; a revision booked as delivered was accepted; the controller ends up at the intended bundle |
| setpoint and assignment API (`api/setpoints.go`, `api/assignment.go`) | none | merge onto the baseline, envelope check, hand to `Apply` | the baseline and the stage are read long before the insert | an edit changes what it names, the optimizer stays in the envelope |
| store (`store/intended.go`, `store/registry.go`, migration 3) | ledger, bookkeeping row, assignment, registry | append, read, upsert, cascade | two inserts compute the same number; writes after a delete | dense append-only ledger, no orphans |
| relay (`relay`) | none | one HTTP call with a timeout | an answer may be lost after the controller acted | a retry is harmless |
| ingester (`ingest/ingest.go`) | known greenhouses | one MQTT message at a time, sweep, add, remove | two goroutines publish what they found after unlocking | silence is noticed, a retired greenhouse leaves nothing |
| fleet state (`state`) | one entry per greenhouse | observe, degrade, set faults, sweep, remove | derived status depends on a clock and a reported time-scale | stale before degraded before online |
| WebSocket hub (`ws/hub.go`) | subscribers, bounded queues | subscribe, broadcast, close | a reader that does not read | ingestion never waits for a dashboard |
| write buffer (`ingest/buffer.go`) | bounded channel | offer with shedding, batch, flush | producer and writer take from the same channel; a failed batch | bounded, fresh records kept, no deadlock |
| registration API (`api/greenhouses.go`) | none | register, retire | store first, ingester after, no lock across | a registered greenhouse is ingested |
| time-scale relay and planning context (`api/sim.go`, `api/planning_context.go`) | none | fan out, read | part of a fan-out fails | each result is reported |
| controller REST and latch (`rest.rs`, `runtime.rs`) | the read model, the command channel, the pipeline's configuration | PATCH handlers, receive, drain, tick | handlers merge onto a read model as old as the last tick; full channel; ticks that overrun | a tick runs on one valid snapshot; every accepted write takes effect |
| controller pipeline and safety (`pipeline.rs`, `safety`, `overrides.rs`) | interlock latches, dwell timers, disables, overrides | one tick | latches with holds, several writers of one actuator in a fixed order | a safety interlock wins and holds its minimum time |
| controller loops, sensing and simulated plant (`control`, `sensing.rs`, `hal`) | integrators, irrigation schedule, plant | one tick | continuous arithmetic; the injection table shares channels | dose limits, staleness |
| controller MQTT (`mqtt.rs`, `telemetry.rs`) | the client library's queue | publish | shedding while disconnected | telemetry never blocks the tick |
| controller configuration (`config`, `validation.rs`) | the TOML file | parse, validate | rules relate several fields | only valid sections run |
| optimizer scheduler (`orchestration/scheduler.py`) | in-flight set, semaphore | tick, on-demand run, sweep | reservation and dispatch separated by awaits | single flight per greenhouse, the guard is released |
| optimizer cycle (`orchestration/cycle.py`, `infra/dataaccess.py`) | plan record | gate, plan, re-read the gate, write | an answer lost after the platform committed; pause while deliberating | no write while paused, the record tells what was written |
| optimizer store (`orchestration/store.py`, `runtime.py`) | plan history, live stage, enable flags; legacy escalations, which nothing raises | record, advance the stage, pause, resume; supersede, resolve, expire, prune | cycles of one greenhouse share the live stage and the last record | the stage shown is that of the cycle shown |
| optimizer domain, planner, service (`domain`, `planner`, `service`, `infra`) | none | gates, twin, prompts, routes | numerical, or a language model | - |
| dashboard link (`api/ws.ts`, `app/StreamProvider.tsx`) | socket, timer, attempts, shown state | connect, close, socket events, reconnect | a closed socket's events arrive after the next client's | one live socket, a true indicator, an attempt always pending |
| dashboard live cache (`lib/livePatch.ts`, `api/queries`) | query cache | patch from frames, poll, refetch | frames lost while disconnected; a read overtaken by a frame or a write | the cards settle on the truth, a view does not fall back |
| dashboard charts (`hooks/useLiveSeries.ts`, `lib/derivations.ts`) | ring buffer, animation frame, drawn series | receive, flush, change of greenhouse or range, merge | the render for a new greenhouse runs before the effects for it | the chart is of this greenhouse, without holes |
| fleet page (`features/fleet`) | list, dialogs, failure count | poll, register, retire | the timer is set before the failure is counted; a read in flight when a write commits | back-off, a list that does not fall back |
| setpoint form (`features/greenhouse/SetpointEditForm.tsx`) | form, pending edit, mutation | type, review, apply, follow the poll | frames write the cache the poll watches; the answer comes late | an answer closes its own dialog, the form follows |
| profile pages (`features/profiles`, `ProfileAssignmentPanel.tsx`) | selections, form, save in flight | browse, edit, save, delete, assign | effects that correct each other's state; late answers | a stage of the chosen profile; envelopes of the zones sent |
| optimizer console (`features/optimizer`) | cached reads, confirmations | pause, resume, run a cycle, show the stage | queries that disagree; cycles that overlap write one stage | the tracker marks where the cycle stopped |
| dashboard presentation, contracts, deployment, docs | - | - | - | - |

`PROJECT.json` lists every component with its status; its `hazards` list names
the line at which each of these difficulties bites and the property that would
notice.

## 2. The models

### 2.1 Reconciler

One greenhouse; its ledger `setpoint_revisions` (`ledger`), its
`reconciliation_state` row (`recon`), its profile assignment (`assigned`), its
registry row (`registered`), the live status the reconciler asks for
(`online`), the controller (`config` is what it runs including what is latched
for its next tick, `view` what its GET handlers serve), and the drift flag last
broadcast (`shownDrift`).

Every HTTP request that changes intended state is a process (`Writers`), and so
is the reconciliation goroutine (`Loop`). A process has a program counter and
the locals of the Go functions: the bundle it carries, the revision number, the
row it read. **Each SQL statement, each controller call and each broadcast is
an action of its own**, since the code holds nothing across them. The insert is
two actions: `INSERT ... SELECT MAX(revision)+1` reads the maximum under its
own snapshot, and the loser of two concurrent inserts hits the primary key
(`InsertConflict`).

| Code | Actions |
|---|---|
| `applySetpointWrite`: baseline, merge, envelope | `ReadBaseline`, `Seed`, `CheckBounds` |
| `setAssignment` | `SetAssignment` |
| `Apply` | `Apply`, then `deliver`, then `record` |
| `deliver` (one PATCH per part, first failure ends it) | `PatchAccepted`, `PatchRefused`, `PatchFailed` |
| `record`, `AppendRevision`, `UpsertReconState` | `ReadMaxRevision`, `InsertRevision`, `InsertConflict`, `ReadRow`, `Upsert`, `BroadcastDrift` |
| `ReconcileOnce`, `reconcileGreenhouse`, `reassert`, `handleDrift`, `markSynced` | `LoopRead`, `LoopDecide`, `LoopGet` and the same delivery and write actions |
| the controller and its link | `Tick`, `LocalEdit`, `Restart`, `StatusChange`, `GetFailed` |
| `Retire`, `Register` | the same names; the cascade of the foreign keys is in `Retire` |

Abstractions. A bundle maps each part (the global setpoints, then each zone) to
an abstract value and is total: a profile that covers only some zones is not
modelled. The three reads at the beginning of a request (`Exists`,
`CurrentRevision`, `GetEndpoint`) are one action. Validation by the controller
is a set of refused part values. Timestamps, event rows, metrics, the actor of
a revision and the platform's own range checks are left out; so is the job that
prunes superseded revisions older than the provenance window, so the statement
that the ledger is dense is about a ledger that has not been pruned.

The controller's control tick is two actions, as in `runtime.rs`: `Take` fixes
the latched configuration the tick runs on (`taken`, `NoTick` between ticks),
`Publish` rebuilds the read model from it. A PATCH accepted between the two is
in `config` but is not shown by this tick, so the loop may read a `view` that is
older than a delivery it has made. `ticked` says that a controller ticks between
two passes of the loop: passes are 30 s apart by default
(`internal/config/config.go:96`) and a tick takes at most 4 s (a period of 1 s
at the slowest time-scale, 0.25). A tick that takes what the view already shows
is the single action `IdleTick`: it leaves config and view alone, and a write
that falls into it is one that falls after it.

**IntendedState** is what all of this is for, without program counters, rows in
locals, PATCHes and back-offs. Its state: the ledger, the requests not answered
yet, the bundles the controller accepted whole, the revision booked as
delivered, and whether the greenhouse has been retired before. A request is
answered once, by a refusal (`Refuse`) or by one revision appended after all
earlier ones, with something the request asked for (`Record`); the controller is
sent only what an open request asks for or the ledger holds (`Accept`); a
booking names a revision of the ledger that was accepted (`Book`). After a
retire the last two are no longer promised: a request or pass under way sends
and books what it read before (section 6). `Reconciler` implements it
(`KeepsIntent`) under the mapping: a request is open until its insert or its
refusal, `delivered` is `recon.last`, `accepted` the history `acked`; what a
request asks for (`Asked`) is every bundle with the parts its edit names at the
edited values, or the targets of a stage.

**One controller.** `Reconciler` uses a controller, `ControllerConfig` is
one. `LatchedConfig` stands between them: `ControllerConfig` implements it
(`Implements`, proved as `LatchRefines`), and everything that `Reconciler` lets
happen to its controller is a step of it or a restart (`ControllerLatches`,
proved as `ControllerIsLatched`). So the two modules speak of one controller,
and `Reconciler` shows nothing that a latch could not do. That it leaves out
nothing a latch can do is by inspection: an `Accept` of any valid section is a
delivery or a `LocalEdit`, and `Take` and `Publish` are free but for the tick
that takes nothing new, which is `IdleTick`.

### 2.2 LatchedConfig and ControllerConfig

`LatchedConfig` is the promise of the controller's documentation: writes are
latched; a tick takes every write accepted so far, runs on exactly that, and
publishes it. Three actions: `Accept`, `Take`, `Publish`.

`ControllerConfig` is the code. A handler reads the `view` once, merges, and
validates up to its only await (`Validate`), and then sends the whole section
through the bounded channel (`Send`). The loop of `runtime.rs` receives while
it waits (`Receive`), prefers a deadline that has passed (`Due`; the `select!`
is biased), drains (`Drain`), runs the pipeline on what it has (`StartTick`)
and publishes the view (`EndTick`). What is left out: override, injection and
time-scale commands, which use the same channel.

The refinement mapping: `latched` is, for each section, the body of the last
command queued for it, or what the pipeline runs when there is none;
`running` is "the loop is in its tick"; `taken` is the pipeline's configuration
during a tick and the view between ticks.

### 2.3 LiveStatus

One greenhouse. `entry` is its record in the fleet state (age since it was last
seen, reported time-scale, degraded flag, derived status, active faults).
The MQTT client calls the handler for one message at a time, so the handler is
one process (`pc`, `msg`) with an action per locked call: `Receive`,
`SetTimeScale`, `SetActiveFaults`, `BroadcastAlerts`, `Observe`. The sweep is a
second process (`Sweep`). Both put the frames they built into `out` and send
them after unlocking (`Broadcast`), so the frames of the two may pass each
other. The hub's queues are `buf`; a subscriber whose queue is full does not
get the frame. Registration and retirement are split at the boundary between
the store and the ingester (`RetireRow`, `Forget`, `RemoveEntry`,
`RegisterRow`, `Add`). A dashboard has a fleet `card` and a list of `alerts`,
patches them from frames (`ReadFrame`), polls the fleet (`Poll`,
`PollAnswered`), and loses and regains its socket (`Connect`, `Disconnect`).

Abstractions. A message is one that decodes. Time is the age of the entry,
counted up to `MaxAge`; `Horizon` gives the age at which an entry is stale at
each reported time-scale (`internal/state/state.go:83-92`). The readings and
health maps that ride along in an entry, the telemetry and event frames'
contents, and the clearing of retained MQTT state are left out. A broadcast
reaches all subscribers at once: their queues are independent. `PollAnswered`
may deliver an answer that a later frame has overtaken, which is what a query
that was sent before the frame does.

### 2.4 StreamClient

The provider's effect makes a client and connects it, its cleanup closes it;
StrictMode, and every remount, does so again. `mounted` is the client of the
mounted provider; each client has the fields of the class (`stopped`, `state`,
`attempts`, `timer`, `ref`), each browser socket an owner and a state (`conn`).
A closed socket is `closing` until the browser delivers its event, which may be
after the next client's `Mount`. One action per callback: `Mount`, `Unmount`,
`Opened`, `Closed`, `TimerFires`; `Outage` and `Recovery` are the platform's.
The counter of attempts saturates at `MaxAttempts`, where the delay is at its
cap. Decoding of frames is in `LiveChart`.

### 2.5 LiveChart

Every greenhouse produces one sample per instant (`Tick`); the store has them
all, the open socket carries them. `ring`, `raf` and `series` are the refs and
the state of `useLiveSeries`; `view` is the greenhouse of the route and `sub` the one the effects
have subscribed for, since React renders before it runs the effects
(`Navigate`, then `Subscribe`). `Query` and `Answered` are the range query and
its cached answer, `Points` what the chart draws. A frame that does not parse
is dropped and counted (`drift`). One series stands for the several, which the
code treats alike; scales and smoothing are left out.

### 2.6 The pages

- **FleetPage**: the cached list with its poll, the register dialog, the retire
  action of a greenhouse's page, other operators writing the registry; the
  sparkline poll with `failuresRef`. A refetch at the end of the operator's own
  write (`Reload`) abandons the read in flight. Left out: the fleet's
  time-scale control, filtering and sorting. An error of the list is cleared by
  the next patched frame, as `setQueryData` does. The list starts loaded: the
  page before its first answer, which offers nothing to do, is left out.
- **SetpointForm**: the form seeded from the cached read, validation, the
  confirmation, the write, its two-step settlement (`Invalidate`, then
  `SettleEdit`), the page's own interval (`Elapse`, `Poll`, `ServeRead`,
  `FetchAnswered`), frames, and other writers. An answer may be lost with
  or without the write having been taken; a write that is taken is taken before
  its client stops waiting.
- **ProfileEditor**: stages, zones and their envelopes as the form builds them,
  with the rounding and the clamping; the checks of `submit` on the stages; one
  save in flight and the answer of a save whose form was dismissed (`stray`).
  The checks of the profile's own slug, name and crop are left out: `Submit`
  sends in more states than the code, so what holds of every save here holds
  there.
- **Profiles**: the library page (search, selected profile, stage cursor,
  deletion) and the assignment panel of a greenhouse's page, over one cached
  library that others change. Effects run to their fixed point before the next
  event and are part of the action that caused them (`Settled`).
- **OptimizerConsole**: the console and the plan panel over three cached reads
  (fleet row, the service's enable flag, the greenhouse's); the optimizer goes
  on meanwhile, with the overlap of `OptimizerCycle`: a tick picks the
  greenhouse (`Pick`) before its task adds the guard (`Dispatch`), a trigger
  adds it at once (`Reserve`), every cycle writes the one stage (`Enter`) and
  the last record (`RecordPlan`) and drops the guard at its own end (`End`),
  whoever else is under way. Two history variables, which no page looks at: the
  stage a record's own cycle stopped at (`plan.at`), and `overlapped`, set when
  a cycle claims the guard while another is under way and reset when one claims
  it alone. Left out: rows of offline greenhouses, the plan's own read and its
  404 (they enable nothing and the tracker does not use them), the model
  selector, the status filter and the status query; the reasons a cycle gives
  are one for each way to go on.

**Dashboard** composes them. The link lives above the routes and the pages work
on separate queries and separate React state, so a behaviour of `Dashboard` is
one part's behaviour, chosen by `route`, while the others keep their initial
state: products of independent machines would multiply states and show nothing
more. Where parts do interact the composition is real: `LiveChart` EXTENDS
`StreamClient`, and `LiveStatus` has hub, ingester, sweep and dashboards in one.

### 2.7 OptimizerCycle

`Greenhouses` and, for each, one cycle slot of the cadence tick (`Tick`) and
one per concurrent on-demand run (`Demands`). The event loop is
single-threaded, so an action is a stretch between awaits: `PickAll` (the
selection of the tick), `Dispatch` (a gathered task first runs and adds the
guard), `Reserve` (an on-demand request), `Acquire` (the semaphore), then the
cycle: `ContextAnswered`, `PlannerAnswered`, `Timeout`, `Commit`, `Submit`,
`PlatformTakes`, `WriteAnswered`, `End`. The timeout bounds the deliberation
only. Operators pause and resume (`SetEnabled`, `SetGreenhouseEnabled`), and
the process may restart. The gates, the twin and the planner are a choice among
the outcomes the code distinguishes. `wrote` is a history variable: the
platform took the cycle's write. Left out: escalations (nothing
calls `raise_escalation` any more; a cycle supersedes the legacy ones in the
step that records its plan), the sweep, metrics, plan contents.

## 3. What is checked

Each run asks one question. "Pass" runs finish without an error; a "violation"
run states one thing a document, comment or type of the repository says and
shows the code doing otherwise (section 6). Every property of a passing run has
a mutant in `PROJECT.json`: a plausible bug in one definition under which TLC
finds the property violated in the same run.

| Run | Properties | States | Bounds and why they suffice |
|---|---|---|---|
| `Reconciler_races` | `TypeOK`, `DeliveredRevisionWasAccepted`, `RevisionIsMine`, `KeepsIntent` | 874,702 | two writers (an edit the zone refuses, an optimizer submission) against the loop; one lost call, two retries, two parts: enough for a half-delivered bundle, an insert conflict and a back-off. No retire: with one the instance has 5.6 million states, on which `KeepsIntent` holds too |
| `Reconciler_converge` | `NoOrphans`, `Converges`, `Settles`, `SyncIsStable` | 964,924 | one profile assignment, two contents of a part, one lost call, one out-of-band edit or restart, one retire and registration, four retries, outages without a bound; more failures than retries are deliberately out of it |
| `ControllerConfig_latch` | `TypeOK`, `ConfigValid`, `Implements`, `WritesTakeEffect`, `SendsFinish` | 1,872 | five requests on two sections, two refused, two valid alone and invalid together; a channel of two for three senders, so that one waits |
| `LiveStatus_frames` | `TypeOK`, `AlertsAreCurrent`, `IngestNeverBlocked` | 791,618 | a one-frame queue, two faults: a change of fault without a change of their number, and every shed; a dashboard that need not read its queue |
| `LiveStatus_silence` | `SilenceShows` | 475,833 | one retire and registration; statuses, polls and shedding in every order |
| `LiveChart_edge` | `TypeOK`, `OnlyThisGreenhouse`, `CarriedIsDrawn` | 1,086,440 | two greenhouses, three instants, a ring of two: a change of greenhouse with samples and an animation frame pending, a ring that overflows, an outage, a frame that is dropped |
| `Dashboard_pages` | 11 invariants and 5 temporal properties, by part below | 832,166 | per part below |
| `OptimizerCycle_cycles` | `TypeOK`, `RecordTellsWrite`, `NoWriteWhilePaused`, `GuardDropped` | 168,080 | one greenhouse with a tick and two on-demand slots under a ceiling of two: cycles of one greenhouse are the only ones that share a guard and a record, and the third waits for a permit as one of another greenhouse would |

The parts of `Dashboard_pages`:

| Part | Properties | Bounds |
|---|---|---|
| link | `OneLiveSocket`, `ShownIsMine`, `NeverStranded`, `Reconnects` | three mounts, three sockets (two still closing while the third opens), a delay that reaches its cap after three attempts |
| fleet page | `BacksOff`, `ListNeverFallsBack` | one id, two registry writes (register and retire, by either operator), three missed polls, one more than the back-off distinguishes |
| setpoint form | `AnswerClosesOwnDialog`, `NoFallBack`, `FormFollows` | two fields that form a band, three values, two writes, one failed read, one content only the controller refuses |
| profile editor | `SentIsEnveloped`, `AnswerIsForItsForm` | two stages, two zones, three edits; a profile with a zone and no envelopes; an emptied field, which is 0 and the lower limit, and a value that rounding moves |
| profile pages | `StageOfProfile`, `UntouchedShowsAssignment`, `ShownStageExists` | five libraries that differ in profiles, stages and their order |
| optimizer console | `MarkerWhereItStopped` | two changes by the optimizer or operators, which may be a tick and a trigger that overlap; one triggered cycle at a time; a reason that two stages give; `Last = 4` stages, the code's six without the quality gate and the forecast, at which no modelled outcome arises |

`TypeOK` there holds the types of all of them: in particular the reconnect
delay never passes its cap, and an open editor keeps a stage.

`MarkerWhereItStopped` has one exception, which is the code's own: a row whose
cycles overlapped (`row.overlapped`). The guard does not keep cycles apart
(`OptimizerCycle_single_flight`), and of two that overlap the first to end makes
the row settled while the other goes on writing the stage; the tracker then
marks a stage the recorded cycle did not stop at (section 6). The exception ends
as soon as a cycle claims the guard with no other under way.

Some properties state more than they seem to.

- `DeliveredRevisionWasAccepted` relates the row, the ledger and the history of
  what the controller accepted *as a whole*: a delivery that stops after the
  first zone, or whose answers were lost, must not be booked.
- `KeepsIntent` is the refinement of `IntendedState`: an insert that reuses a
  number, a revision that is not what its request asked for, two revisions for
  one request, a bundle that was merged for nobody, and a booking of something
  not accepted are all steps that `IntendedState` does not have.
- `SyncIsStable` complements `Converges`, which says that the loop brings a
  controller into sync: from then on the loop PATCHes nothing and tells no
  drift, through any outages, lost reads and ticks, until someone writes,
  retires, edits or restarts. `InSync` includes where the loop is in its pass:
  a pass that began before the greenhouse was in sync may still PATCH.
- `AlertsAreCurrent` excuses only a dashboard that missed a frame (`gap`).
- `SilenceShows` is about the card, at the end of the chain from the entry's
  age, by way of the sweep's frame or a poll, whichever of them was shed or
  overtaken.
- `CarriedIsDrawn` compares the chart with what the indicator showed at each
  instant: a sample carried while the link was shown open is drawn once no
  animation frame is pending.
- `BacksOff` allows the poll's interval to be one failure behind: React Query
  sets the timer in the render before the effect that counts the failure.
- `ListNeverFallsBack` and `NoFallBack` speak of the newest write the operator
  was *told* of; a read that was in flight when it was committed must not put
  the older state back on the page.
- `UntouchedShowsAssignment` excuses selectors the operator moved, and selectors
  that stood on a stage a later read of the library takes away: both effects of
  the panel then run in one pass, each on the values of the render before, and
  the correction of the stage wins over the assignment just seeded.
- `RecordTellsWrite` excuses the one case nobody can decide: a write that
  failed for want of an answer.

### Fairness

- *Reconciler.* A request that has started runs to its end, the loop's ticker
  fires and the controller ticks: goroutines and timers. Nobody has to submit
  an edit, restart, or come online. A lost call is bounded by `MaxFaults`, not
  by fairness. `Converges` assumes that the greenhouse stays online from some
  time on, and that fewer deliveries fail than the retry limit (5 by default,
  `config.go:98`): see section 6.
- *ControllerConfig.* The loop's tick steps are fair. `Receive` is **not**:
  when every tick overruns its period the biased `select!` never takes a
  command, and the properties hold by the drain alone. A waiting `send` is
  served when the channel has room (tokio's semaphore is a queue).
- *LiveStatus.* The message handler, the sweep, time, broadcasts, fleet polls
  and the second half of a started retire or registration are fair. A
  controller owes no message and a dashboard need not read its socket: `SilenceShows` is
  about exactly that.
- *Dashboard.* The browser delivers a socket's events and fires a timer once
  set; the setpoint page's interval, reads and mutations end. `Reconnects`
  assumes a platform that stays up and a provider that stays mounted. A poll
  cancels a read that takes longer than its interval; not every read does,
  hence the strong fairness of `FetchAnswered`.
- *LiveChart.* Effects and animation frames run and a query is answered
  (`FairSpec`, used by `LiveChart_holes` only). No fairness makes samples come.
- *OptimizerCycle.* Every await of a cycle is bounded by a timeout and the
  semaphore serves its waiters in order (strong fairness of `Acquire`). Nobody
  owes a trigger, a pause or a restart.

Deadlock is checked in every run but those of `LiveChart`, whose clock ends.

## 4. What is proved

TLAPS checks the following for every value of the constants that satisfies the
assumptions its module names (`ConstantsAssumption`, `ControllerConfigAssumption`,
`LiveStatusAssumption`, `StreamClientAssumption`, `LiveChartAssumption`,
`FleetPageAssumption`, `SetpointFormAssumption`, `ProfilesAssumption`,
`ProfileEditorAssumption`, `ConsoleAssumption`, `OptimizerAssumption`); TLC
evaluates them on the runs. That a profile has a stage, and a stage a name and
targets but perhaps no envelopes, is what the wire schemas demand
(`climate-frontend/src/api/schemas.ts:776-789`).

Every invariant and every action property of the passing runs is proved, with
one exception (`IngestNeverBlocked`); the liveness properties are
model-checked.

**Platform, controller, optimizer**

| Theorem | Says | Argument |
|---|---|---|
| `ReconcilerProofs!TypeCorrect` | `Spec => []TypeOK` | `TypeOK /\ DeliveryInRange` is inductive: a fail count stays below `MaxRetries` in a delivery of the loop, so counting it once more keeps it in range; a delivery's index stays in the bundle |
| `DeliveredWasAccepted`, `RevisionsAreOwned` | `DeliveredRevisionWasAccepted`, `RevisionIsMine` | `Provenance`, see below |
| `NothingOrphaned` | `Spec => []NoOrphans` | each write of a row is guarded by `registered` (its foreign key) |
| `LedgerGrows` | `Spec => LedgerAppendOnly` | only an insert and a retire change the ledger |
| `IntentIsKept` | `Spec => KeepsIntent`, the refinement of `IntendedState` | `IntentInv`, see below |
| `ControllerIsLatched` | `Spec => ControllerLatches` | a PATCH that is accepted, or acted on before its answer is lost, is the latch's `Accept`; a tick's two halves are `Take` and `Publish`; a restart is its `Init` again |
| `SyncStays` | `Spec => SyncIsStable` | in sync, the loop reads the current bundle and a row without drift; both reads of the controller agree with it, so the pass ends in `markSynced`, which writes at most the status and the fail count |
| `ControllerConfigProofs!TypeCorrect`, `OnlyValidRuns` | types; `Spec => []ConfigValid` | every section waiting in a handler or in the channel has been validated |
| `LatchRefines` | `Spec => Implements` | a send is `Accept`, the end of the drain is `Take`, the end of the tick is `Publish`; receiving, draining and validating leave the mapped state alone |
| `CommandsAreAnswered`, `RunsWhatWasAnswered` | `Spec => []CommandsAnswered`, `Spec => []SectionsAnswered` | `AInv`: a request stands in the channel at most once and only after its 200, with the candidate it validated, and an answered request's candidate no longer changes; so what reaches the pipeline and the view is, section by section, the configured one or one request's, whole. This is what `WritesTakeEffect` needs besides fairness: nothing else can arrive |
| `LiveStatusProofs!LiveTypeCorrect`, `AlertsStayCurrent` | types and the queue's limit; `Spec => []AlertsAreCurrent` | `AlertsInv`, see below |
| `OptimizerCycleProofs!CycleTypeCorrect` | `Spec => []TypeOK`, the ceiling included | a cycle joins the running ones only below the ceiling, every other step keeps or shrinks the set |
| `RecordsAreTrue`, `PausedWritesNothing` | `RecordTellsWrite`, `NoWriteWhilePaused` | `CycleInv`: before its write is sent a cycle has nothing taken by the platform |
| `GuardsAreHeld` | `Spec => []GuardHasHolder` | the guard is added by the step that makes a cycle wait, and every end of a cycle drops it. This is what `GuardDropped` needs besides fairness: a greenhouse is not left in the in-flight set without a cycle that will take it out |

**Dashboard**

| Theorem | Says | Argument |
|---|---|---|
| `StreamClientProofs!LinkIsSingle`, `IndicatorIsTrue`, `LinkNeverStranded` | `OneLiveSocket`, `ShownIsMine`, `NeverStranded` | `LinkInv`: only the mounted client holds a socket or a timer and every earlier one is stopped; a closing socket's owner is stopped, so its event changes nothing |
| `LiveChartProofs!ChartTypeCorrect`, `ChartIsOfOneGreenhouse`, `WhatTheSocketCarriedIsDrawn` | `TypeOK`, `OnlyThisGreenhouse`, `CarriedIsDrawn` | `ChartInv`, see below |
| `DashboardProofs!FleetBacksOff`, `FleetListNeverFallsBack` | `BacksOff`, `ListNeverFallsBack` | `FleetInv`: the page's count is never behind the failures; a read that answers after an invalidation has seen the write it was for |
| `AnswersCloseTheirDialog`, `FormNeverFallsBack` | `AnswerClosesOwnDialog`, `NoFallBack` | `FormInv`: the same about the edit in flight; the form is disabled while an edit is pending, so the dialog of another cannot open |
| `FormShowsTheController` | `FormSpec => []UntouchedFormIsCurrent` | `ServedInv`: the cached read and the one in flight are of an earlier write or are what the controller has (`OfServer`), and the seeding effect leaves an untouched form equal to the cache. The safety kernel of `FormFollows` |
| `TrackerMarksTheStop` | `MarkerWhereItStopped` | `ConsoleInv`: the optimizer's row, and whichever row a read brought, pairs its plan with the stage at which that plan's cycle stopped (`Coherent`), unless the guard is held or cycles overlapped. It is inductive only with `Alone`: as long as cycles have not overlapped, at most one is under way, it has the guard, the stage shown is its own once it has one, and what it recorded is of that stage. For any set of triggered cycles and any number of stages from four |
| `ProfilePagesProofs!PanelStageOfProfile`, `PanelShowsAssignment` | `StageOfProfile`, `UntouchedShowsAssignment` | `PanelInv`, the two together with the shape of libraries and selections |
| `ShowsAStageThatIs` | `ShownStageExists` | `ListingInv`, see below |
| `SavesAreEnveloped` | `SentIsEnveloped` | `EditorInv`, see below |
| `EditorKeepsItsForm` | `AnswerIsForItsForm` | per action: no invariant is needed, a save's callbacks are its form's own |
| `DashboardProofs!DashboardIsItsParts` | `Spec` of `Dashboard` implies `LinkSpec`, `FleetSpec`, `FormSpec`, `EditorSpec`, `ProfilesSpec` and `ConsoleSpec` | a step of the dashboard is a step of one part and a stutter of the others |
| `DashboardTypeCorrect`, `DashboardSafe`, `DashboardNeverFallsBack` | `[]TypeOK`; eleven state invariants, the ten of `Dashboard_pages` besides `TypeOK` and `UntouchedFormIsCurrent`; its three action properties | from the theorems about the parts, by `DashboardIsItsParts` |

The type theorems (`LinkTypeCorrect`, `FleetTypeCorrect`, `FormTypeCorrect`,
`ConsoleTypeCorrect`, `PagesTypeCorrect`, `EditorTypeCorrect`) are what the
others rest on; together they are `DashboardTypeCorrect`.

The invariants that need a word:

- **`Provenance`.** `DeliveredRevisionWasAccepted` is not inductive: rows live
  in the locals of processes that will write them back. `Provenance` says that
  the stored row *and every row a process holds* names an accepted revision of
  the ledger (`RowSound`), that the loop carries the bundle of the revision it
  read and a request that of the one it inserted (`OwnRevision`), and that a
  request going on to record a delivery saw its bundle accepted. As the ledger
  and the history of accepted bundles only grow until a retire, a fact once
  read stays true however long a process sits on it; that is the lemma
  `SoundGrows`. All of it is under `retires = 0`: after a retire the ledger
  starts again, and old numbers can then reach the new row (section 6).
- **`IntentInv`.** `Provenance` with `AsksKept`: from the merge to the insert a
  request carries what it asks for, whichever baseline it was merged onto. The
  lemmas give, for each step of `Reconciler`, the step or stutter of
  `IntendedState` it is: `IntentInsert` (a `Record`; the key makes it append),
  `Refusal`, `IntentDelivery` (an `Accept`: a request delivers what it asks for
  while it is open, the loop a revision of the ledger, by `OwnRevision`) and
  `IntentUpsert` (a `Book`; the row in the local is sound). `OpenAfter` and
  `Unseen` say that every other step leaves the mapped state alone. The latter
  two promises need `retires = 0`, which is where `IntendedState` weakens them;
  that requests are answered once, each with what it asked for, is promised and
  proved across retires.
- **The controller's refinement.** `HasLasts` says that a section with a queued command has
  a last one, which makes `Latest` the function one expects (`LatestQueued`,
  `LatestRunning`); `SendLatches` and `ApplyKeepsLatched` are its two laws.
- **`AlertsInv`.** `AlertsAreCurrent` speaks of an empty queue and an idle
  handler, which no step preserves by itself. `AlertsInv` says what a queue
  *leads to* (`Leads`): after reading it, a dashboard that has missed nothing
  will show the entry's faults, unless the handler is between changing the
  faults and broadcasting them. The last alerts frame of a queue decides, so
  appending one (`LeadsAppend`), reading one and shedding are three short
  lemmas. `OutInv` adds that the handler hands over one alerts frame at a time
  and that the sweep hands over none.
- **`ChartInv`.** The ring holds samples of the *subscribed* greenhouse, dated
  at least as far back as they lie in the ring (`BufferInv`), so that a full
  ring that drops its head drops nothing within its capacity; what the socket
  carried since the subscription is in the ring, the newest last
  (`CarriedInv`); the drawn copy equals the ring unless a frame is pending.
  `OnlyThisGreenhouse` and `CarriedIsDrawn`, which speak of the chart, follow
  from these and from the filter by the route's greenhouse.
- **`ListingInv`.** The shown stage depends on the *filtered* library, a
  recursive function. The prover has no induction over data, so `LeastNumber`
  (a set of numbers has a least one) takes its place: `KeptExists`, `KeptIs`
  and `OnlyIs` consider the shortest prefix on which the recursion would fail
  and derive that it does not. What is left is that a selection survives, or is
  replaced in, every change of the library and of the filter.
- **`EditorInv`.** `SentIsEnveloped` is about a save, which copies the form:
  so every stage of the *form* must have an envelope for its zones exactly when
  it has zones (`Whole`), through every edit, seed and removal, whatever the
  profile came with. Containment is not an invariant of the form, where any
  number may be typed: `submit` checks it, and refuses.

Only model-checked: every liveness property (`Converges`, `Settles`,
`WritesTakeEffect`, `SendsFinish`, `SilenceShows`, `Reconnects`,
`FormFollows`, `GuardDropped`), which needs fairness, and `IngestNeverBlocked`,
which says that a step is enabled. Both are out of the prover's reach.

## 5. What is not modelled

- The interaction of several greenhouses: the loop staggers them and handles
  each on its own; nothing is shared but the database and the hub.
- Crashes of the platform. A request that dies half way is a prefix of the one
  modelled, which safety properties cover; the liveness properties assume that
  started requests end.
- PostgreSQL and the MQTT broker themselves, authentication, formatting,
  metrics, queries that only read, layout and wording of the user interface.
- Continuous control (PID loops, irrigation doses, the simulated plant, the
  optimizer's twin) and the planner, which is a language model. The controller's
  safety pipeline is sequential arithmetic on sensor values, one tick after
  another, on thresholds and timers.
- The ingest write buffer: what it sheds or fails to insert is logged and
  forgotten by design, so it promises nothing beyond its channel's bound.
- The optimizer's escalations: `raise_escalation` has no caller any more, so
  none is opened; a cycle supersedes the legacy ones where it records its plan,
  an operator's route resolves and the sweep expires and prunes them, each in
  one step of the event loop, and no cycle reads them.
- The activity feed: no document says what it should show beyond the union of a
  read and the frames, which the frames without deduplication do not give.
- The fleet's time-scale fan-out, whose calls share nothing and report each
  result; overrides and injections of the controller.

## 6. Where code and documentation disagree

Runs that show a disagreement; the quoted lines are in `PROJECT.json` under
`findings`.

| Run | What it shows |
|---|---|
| `Reconciler_abandoned` | without a single failed call, the loop's stale row, fail count included, overwrites the row of a newer revision, and the loop then never delivers that revision |
| `Reconciler_lost_edit` | of two concurrent edits of different zones the second revision undoes the first |
| `LiveChart_holes` | a chart that stays open over an outage keeps a hole between its history and its live edge |
| `OptimizerCycle_single_flight` | a tick and an on-demand run plan one greenhouse at the same time |

Further statements that do not hold of the models, without a run of their own;
each formula can be added to a configuration of the module to see a trace.

| Statement | Formula | Why it fails |
|---|---|---|
| "the platform enforces the active stage's crop-safe envelope" (`docs/specs/design/platform/05-spec-platform-crop-profiles.md:109-111`) | `EnvelopeEnforced` with an optimizer writer and an assignment | a stage assigned between the check and the insert: the revision lies outside the envelope of the stage in force |
| drift frames let the dashboard "reflect the fleet in real time without polling" (`09-spec-platform-interfaces.md:88-91`) | `ShownDriftSettles` | a drift frame overtaken by an older one; the pushed badge stays wrong until the fleet poll repairs it |
| "The controller's REST PATCH is a merge latched to the next tick" (`05-spec-platform-crop-profiles.md:81-82`) | `AcceptedFieldsSurvive` (ControllerConfig) | two PATCHes of different fields within one tick: both answered 200, one lost |
| "Add registers a greenhouse so its telemetry is accepted" (`ingest.go:91`) | `RegisteredIsKnown` (LiveStatus) with one retire | registering again while the retire is between the store and the ingester |
| the confirmation summarises the write (`docs/specs/design/frontend/08-spec-frontend-interactions.md:138-141`, `SetpointEditForm.tsx:17-19`) | `SummaryIsTheWrite` (SetpointForm) | the list is recomputed from the poll while the dialog is open, and the whole form is sent |
| `current_stage` is where a cycle in flight is (`10-spec-optimizer-interfaces.md:212-220`, `pipeline.ts:80`) | `StageIsLive` (OptimizerCycle) | a reserved cycle that waits for the semaphore still shows where the previous one stopped |
| "an idle greenhouse still shows where its last cycle stopped" (`orchestration/store.py:345-347`) | `MarkerAlwaysWhereItStopped` (OptimizerConsole, in `Dashboard_pages`) | a tick picks the greenhouse, a trigger reserves it, both cycles run; the first to end is recorded and drops the guard (`scheduler.py:163`, `172`), the other goes on writing the stage (`store.py:359-361`), and the tracker of the settled row marks that stage |
| an answer resets and closes the dialog of its own registration (what `RegisterGreenhouseDialog.tsx:91-123` is written for) | `NewFormKept` (FleetPage) | the late answer to one registration resets and closes the dialog opened for the next |
| the panel "shows the active profile/stage" (`ProfileAssignmentPanel.tsx:17-19`) | `UntouchedShowsAssignment` with `touched' = FALSE` in `Reseed` | a library read that drops the selected stage overrides the assignment seeded in the same pass |
| "After the first failure" the poll escalates (`fleet.ts:11-13`) | `BacksOff` with `Escalated(failed)` | the timer is set before the failure is counted |
| the state-change gate compares with "the forecast retained from the last cycle that ran the planner" (`docs/specs/design/optimizer/04-spec-optimizer-planning.md:69`) | none, the forecasts are not modelled | `cycle.py:507` retains the forecast only of a cycle whose plan was applied |
| "an invalid edit never becomes intended state" (`reconcile.go:121-122`) | `\A r \in 1..Len(ledger) : Accepts(ledger[r])` with the writer `bad` | an edit made while the controller is offline is recorded before any controller validates it |
| "controller acknowledged the current revision" (`intended.go:20`) | `Quiescent /\ recon.status = "delivered" => recon.last = Len(ledger)` with `op`, `op2` and one fault | the whole row is written back from an earlier read |
| the row names "which revision last reached the controller" (`000003_profiles.up.sql:46-47`) | `recon.last <= Len(ledger)` with one retire | a request in flight across a retire and a registration writes its old number |
| a greenhouse is re-asserted "within one reconciliation cycle of its own reconnect" (`docs/specs/design/platform/05-spec-platform-crop-profiles.md:88-89`) | `Converges` with `MaxFaults = MaxRetries` | `reassert` stops at the limit, and only an edit resets the count |
| "Remove ... drops its live state" (`ingest.go:98`) | `~registered /\ admin = {} /\ pc = "idle" => entry = NoEntry` with one retire | a message under way recreates the entry, which then goes offline (`SilenceShows`) |
| "a subscriber that cannot keep up has its oldest frames dropped" (`hub.go:14-15`) | after `Broadcast(g)`, `buf'[s]` ends with `Head(out[g])` for every open `s` | the frame being sent is the one dropped |
| "auto-refetch on focus/reconnect" (`docs/specs/design/frontend/03-spec-frontend-architecture.md:397`) | `Silent /\ <>[](s \in open /\ buf[s] = <<>>) => <>[](alerts[s] = Ensure.faults)` | an alerts frame missed while disconnected is not made up for on a page that stays open; opening the page again fetches them |

## 7. What could come next

The core is covered; what is left is at its edges, in the order it would pay.

1. `Reconciler` with the fleet status of `LiveStatus` in place of
   `StatusChange`, by way of an abstract specification of that status, as
   `LatchedConfig` stands for the controller.
2. `OptimizerCycle`'s write handed to the write path of `Reconciler`, so that a
   record names a revision of the ledger.
3. `OptimizerConsole`'s optimizer by way of an abstract specification that
   `OptimizerCycle` implements, as `LatchedConfig` stands for the controller.
4. The controller's safety pipeline, with the plant as a choice of readings.
5. Further safety kernels of liveness properties, as `GuardsAreHeld` is one of
   `GuardDropped` and `UntouchedFormIsCurrent` one of `FormFollows`: that the
   loop's fail count is the one obstacle to `Converges`, and that a stale entry
   is always followed by a status frame or a poll (`SilenceShows`).
6. `LiveStatus` with the status a controller reports as an abstract
   specification, and the card shown to implement it.
