----------------------------- MODULE Reconciler -----------------------------
(***************************************************************************)
(* The control-down engine of the platform (internal/reconcile): what the  *)
(* HTTP handlers that change a greenhouse's intended setpoints and the     *)
(* background reconciliation loop do to one greenhouse.                    *)
(*                                                                         *)
(* Every request and the loop are processes.  Each database statement,     *)
(* each controller REST call and each WebSocket broadcast is one action,   *)
(* because the code holds no lock and no transaction across them: between  *)
(* two of them every other process may run, and a process goes on with     *)
(* the rows it read earlier.                                               *)
(*                                                                         *)
(* A setpoint bundle maps each part (the global setpoints, then one part   *)
(* per zone, in PATCH order) to an abstract value.                         *)
(***************************************************************************)
EXTENDS Integers, Sequences, FiniteSets

CONSTANTS
    Writers,     \* requests that change intended state, one process each
    Loop,        \* the reconciliation goroutine
    PartSeq,     \* PATCH order of a bundle: the global part, then the zones
    Values,      \* abstract contents of a part
    Kind,        \* [Writers -> {"operator", "optimizer", "profile"}]
    Edit,        \* the partial bundle an operator or the optimizer submits
    Stages,      \* profile stages a greenhouse can be assigned
    Targets,     \* [Stages -> Bundle]: what a stage resolves to
    Envelope,    \* [Stages -> SUBSET Bundle]: the stage's crop-safe bundles
    NoStage,     \* no profile assigned
    Refused,     \* <<part, value>> pairs the controller's validation rejects
    Toml,        \* the bundle a controller boots with
    NoTick,      \* not a bundle: no control tick is under way
    MaxRetries,  \* DriftMaxRetries
    MaxFaults,   \* bound: REST calls that fail in transport
    MaxEdits,    \* bound: out-of-band edits and restarts of the controller
    MaxRetires   \* bound: times the greenhouse is retired

Parts  == {PartSeq[i] : i \in 1..Len(PartSeq)}
Procs  == Writers \cup {Loop}
Bundle == [Parts -> Values]

ASSUME ConstantsAssumption ==
    /\ Loop \notin Writers
    /\ PartSeq \in Seq(Parts) /\ Len(PartSeq) > 0
    /\ \A i, j \in 1..Len(PartSeq) : PartSeq[i] = PartSeq[j] => i = j
    /\ Kind \in [Writers -> {"operator", "optimizer", "profile"}]
    /\ \A w \in Writers : \A p \in Parts \cap DOMAIN Edit[w] : Edit[w][p] \in Values
    /\ NoStage \notin Stages
    /\ Targets \in [Stages -> Bundle]
    /\ Toml \in Bundle /\ NoTick \notin Bundle
    /\ MaxRetries \in Nat \ {0}
    /\ MaxFaults \in Nat /\ MaxEdits \in Nat /\ MaxRetires \in Nat

VARIABLES
    ledger,      \* setpoint_revisions: revision number -> bundle
    recon,       \* the reconciliation_state row
    assigned,    \* the profile_assignments row
    registered,  \* the greenhouses and controller_endpoints rows exist
    online,      \* the fleet's live status is not offline
    config,      \* the setpoints the controller runs, latched ones included
    taken,       \* what the tick under way runs on, NoTick between ticks
    view,        \* the read model its GET handlers serve
    ticked,      \* the controller has ticked since the last loop pass began
    local,       \* each process's program counter and local variables
    shownDrift,  \* the drift flag last broadcast to the dashboards
    acked,       \* history: bundles the controller accepted whole
    faults, edits, retires  \* spent bounds

platform == <<ledger, recon, assigned, registered>>
control  == <<config, taken, view, ticked>>
budget   == <<faults, edits, retires>>
vars == <<platform, control, budget, online, local, shownDrift, acked>>

Statuses == {"none", "delivered", "deferred", "rejected"}
Row      == [last : Nat, status : Statuses, drift : BOOLEAN, fails : 0..MaxRetries]
NoRow    == [last |-> 0, status |-> "none", drift |-> FALSE, fails |-> 0]

PCs   == {"idle", "seed", "bounds", "apply", "patch", "append", "insert",
          "bookkeep", "decide", "get", "upsert", "tell", "done"}
Tells == {"quiet", "raise", "clear"}
Local == [pc : PCs, bundle : Bundle, rev : Nat, i : Nat \ {0},
          row : Row, ok : BOOLEAN, tell : Tells]
Fresh == [pc |-> "idle", bundle |-> Toml, rev |-> 0, i |-> 1,
          row |-> NoRow, ok |-> FALSE, tell |-> "quiet"]

Current         == ledger[Len(ledger)]
Merge(b, e)     == [p \in Parts |-> IF p \in DOMAIN e THEN e[p] ELSE b[p]]
Refuses(p, v)   == <<p, v>> \in Refused
Finished(p)     == [Fresh EXCEPT !.pc = IF p = Loop THEN "idle" ELSE "done"]

At(p, pc)       == local[p].pc = pc
Become(p, l)    == local' = [local EXCEPT ![p] = l]
Return(p)       == Become(p, Finished(p))

Init ==
    /\ ledger = <<>> /\ recon = NoRow /\ assigned = NoStage /\ registered = TRUE
    /\ online \in BOOLEAN
    /\ config = Toml /\ taken = NoTick /\ view = Toml /\ ticked = TRUE
    /\ local = [p \in Procs |-> Fresh]
    /\ shownDrift = FALSE /\ acked = {}
    /\ faults = 0 /\ edits = 0 /\ retires = 0

-----------------------------------------------------------------------------
(* The write handlers, up to Reconciler.Apply.                             *)

(* Where a merged candidate goes: only the optimizer's is gated.           *)
Merged(w, base) ==
    [local[w] EXCEPT !.pc = IF Kind[w] = "optimizer" THEN "bounds" ELSE "apply",
                     !.bundle = Merge(base, Edit[w])]

(* A partial edit is merged onto the current intended bundle; without one  *)
(* the baseline is read from the controller.                               *)
ReadBaseline(w) ==
    /\ At(w, "idle") /\ Kind[w] # "profile" /\ registered
    /\ Become(w, IF ledger = <<>> THEN [local[w] EXCEPT !.pc = "seed"]
                                  ELSE Merged(w, Current))
    /\ UNCHANGED <<platform, control, budget, online, shownDrift, acked>>

(* The parts the n-th GET of a read of the controller returns: /setpoints, *)
(* then /zones.                                                            *)
ReadParts(n) == IF n = 1 THEN {PartSeq[1]} ELSE Parts \ {PartSeq[1]}
Overlay(b, n) == [p \in Parts |-> IF p \in ReadParts(n) THEN view[p] ELSE b[p]]

Seed(w) ==
    /\ At(w, "seed")
    /\ LET seen == Overlay(local[w].bundle, local[w].i)
       IN Become(w, IF local[w].i = 1
                    THEN [local[w] EXCEPT !.i = 2, !.bundle = seen]
                    ELSE Merged(w, seen))
    /\ UNCHANGED <<platform, control, budget, online, shownDrift, acked>>

(* The optimizer's candidate must lie in the assigned stage's envelope.    *)
CheckBounds(w) ==
    /\ At(w, "bounds")
    /\ IF assigned = NoStage \/ local[w].bundle \in Envelope[assigned]
       THEN Become(w, [local[w] EXCEPT !.pc = "apply"])
       ELSE Return(w)
    /\ UNCHANGED <<platform, control, budget, online, shownDrift, acked>>

(* An assignment is persisted before its targets are delivered.            *)
SetAssignment(w) ==
    /\ At(w, "idle") /\ Kind[w] = "profile" /\ registered
    /\ \E s \in Stages :
         /\ assigned' = s
         /\ Become(w, [local[w] EXCEPT !.pc = "apply", !.bundle = Targets[s]])
    /\ UNCHANGED <<ledger, recon, registered, control, budget, online, shownDrift, acked>>

(* Apply: unknown greenhouse, unreachable controller, or deliver.          *)
Apply(w) ==
    /\ At(w, "apply")
    /\ \/ ~registered /\ Return(w)
       \/ registered /\ ~online /\ Become(w, [local[w] EXCEPT !.pc = "append", !.ok = FALSE])
       \/ registered /\ online  /\ Become(w, [local[w] EXCEPT !.pc = "patch", !.i = 1])
    /\ UNCHANGED <<platform, control, budget, online, shownDrift, acked>>

-----------------------------------------------------------------------------
(* deliver: PATCH the parts in order; the first failure ends it.           *)

(* Variant: only a row that says delivered is taken for up to date.        *)
CorrectingDelivered(l) == l.row.last = l.rev /\ l.row.status = "delivered"

(* A loop delivery corrects drift when the revision it read is the one     *)
(* last delivered, and re-asserts otherwise.                               *)
Correcting(l) == l.row.last = l.rev

(* What a process does once deliver has returned.                          *)
AfterDelivery(p, outcome) ==
    LET l == local[p]
        counted == [l.row EXCEPT !.fails = @ + 1]
    IN CASE p # Loop /\ outcome = "refused" -> Finished(p)
         [] p # Loop /\ outcome # "refused" ->
              [l EXCEPT !.pc = "append", !.ok = (outcome = "accepted")]
         [] p = Loop /\ Correcting(l) -> [l EXCEPT !.pc = "upsert", !.row = counted]
         [] p = Loop /\ ~Correcting(l) /\ outcome = "accepted" ->
              [l EXCEPT !.pc = "upsert",
                        !.row = [@ EXCEPT !.last = l.rev, !.status = "delivered", !.fails = 0]]
         [] p = Loop /\ ~Correcting(l) /\ outcome # "accepted" ->
              [l EXCEPT !.pc = "upsert", !.row = [counted EXCEPT !.status = "rejected"]]

Target(p) == PartSeq[local[p].i]
Latch(p)  == config' = [config EXCEPT ![Target(p)] = local[p].bundle[Target(p)]]

PatchAccepted(p) ==
    /\ At(p, "patch") /\ ~Refuses(Target(p), local[p].bundle[Target(p)])
    /\ Latch(p)
    /\ IF local[p].i < Len(PartSeq)
       THEN Become(p, [local[p] EXCEPT !.i = @ + 1]) /\ UNCHANGED acked
       ELSE /\ Become(p, AfterDelivery(p, "accepted"))
            /\ acked' = acked \cup {local[p].bundle}
    /\ UNCHANGED <<platform, taken, view, ticked, budget, online, shownDrift>>

PatchRefused(p) ==
    /\ At(p, "patch") /\ Refuses(Target(p), local[p].bundle[Target(p)])
    /\ Become(p, AfterDelivery(p, "refused"))
    /\ UNCHANGED <<platform, control, budget, online, shownDrift, acked>>

(* A transport failure: the request or its answer was lost.                *)
PatchFailed(p) ==
    /\ At(p, "patch") /\ faults < MaxFaults /\ faults' = faults + 1
    /\ \/ UNCHANGED config
       \/ ~Refuses(Target(p), local[p].bundle[Target(p)]) /\ Latch(p)
    /\ Become(p, AfterDelivery(p, "failed"))
    /\ UNCHANGED <<platform, taken, view, ticked, edits, retires, online, shownDrift, acked>>

-----------------------------------------------------------------------------
(* record: append the revision, then rewrite the bookkeeping row.          *)

(* INSERT ... SELECT MAX(revision)+1: concurrent inserts see the same      *)
(* maximum, and the loser hits the primary key.                            *)
ReadMaxRevision(w) ==
    /\ At(w, "append")
    /\ Become(w, [local[w] EXCEPT !.pc = "insert", !.rev = Len(ledger)])
    /\ UNCHANGED <<platform, control, budget, online, shownDrift, acked>>

(* Variants of the insert: one upserts the number it read instead of       *)
(* failing on it, one appends without the key and keeps the stale number.  *)
InsertOverwriting(w) ==
    /\ At(w, "insert") /\ registered
    /\ ledger' = Append(SubSeq(ledger, 1, local[w].rev), local[w].bundle)
    /\ Become(w, [local[w] EXCEPT !.pc = "bookkeep", !.rev = @ + 1])
    /\ UNCHANGED <<recon, assigned, registered, control, budget, online, shownDrift, acked>>

InsertUnkeyed(w) ==
    /\ At(w, "insert") /\ registered
    /\ ledger' = Append(ledger, local[w].bundle)
    /\ Become(w, [local[w] EXCEPT !.pc = "bookkeep", !.rev = @ + 1])
    /\ UNCHANGED <<recon, assigned, registered, control, budget, online, shownDrift, acked>>

InsertRevision(w) ==
    /\ At(w, "insert") /\ registered /\ local[w].rev = Len(ledger)
    /\ ledger' = Append(ledger, local[w].bundle)
    /\ Become(w, [local[w] EXCEPT !.pc = "bookkeep", !.rev = @ + 1])
    /\ UNCHANGED <<recon, assigned, registered, control, budget, online, shownDrift, acked>>

InsertConflict(w) ==
    /\ At(w, "insert") /\ ~(registered /\ local[w].rev = Len(ledger))
    /\ Return(w)
    /\ UNCHANGED <<platform, control, budget, online, shownDrift, acked>>

(* Variant: a deferred revision is booked as delivered too.                *)
RecordedAlwaysDelivered(l, row) ==
    [last |-> l.rev, status |-> "delivered", drift |-> FALSE, fails |-> 0]

(* The row record writes back, from the row it read.                       *)
RecordedRow(l, row) ==
    IF l.ok THEN [last |-> l.rev, status |-> "delivered", drift |-> FALSE, fails |-> 0]
            ELSE [row EXCEPT !.status = "deferred", !.fails = 0]

ReadRow(w) ==
    /\ At(w, "bookkeep")
    /\ Become(w, [local[w] EXCEPT
                    !.pc = "upsert", !.row = RecordedRow(local[w], recon),
                    !.tell = IF local[w].ok /\ recon.drift THEN "clear" ELSE "quiet"])
    /\ UNCHANGED <<platform, control, budget, online, shownDrift, acked>>

(* Variant: the row is written without its foreign key.                    *)
UpsertUnkeyed(p) ==
    /\ At(p, "upsert")
    /\ recon' = local[p].row
    /\ Return(p)
    /\ UNCHANGED <<ledger, assigned, registered, control, budget, online, shownDrift, acked>>

(* The whole row is overwritten, whatever happened since it was read; the  *)
(* foreign key rejects it when the greenhouse is gone.                     *)
Upsert(p) ==
    /\ At(p, "upsert")
    /\ recon' = IF registered THEN local[p].row ELSE recon
    /\ IF registered /\ local[p].tell # "quiet"
       THEN Become(p, [local[p] EXCEPT !.pc = "tell"])
       ELSE Return(p)
    /\ UNCHANGED <<ledger, assigned, registered, control, budget, online, shownDrift, acked>>

BroadcastDrift(p) ==
    /\ At(p, "tell")
    /\ shownDrift' = (local[p].tell = "raise")
    /\ Return(p)
    /\ UNCHANGED <<platform, control, budget, online, acked>>

-----------------------------------------------------------------------------
(* The reconciliation loop.                                                *)

(* A pass reads the current revision.  Passes are 30 s apart and a         *)
(* controller ticks at least every 4 s, so one has happened in between.    *)
LoopRead ==
    /\ At(Loop, "idle") /\ registered /\ ledger # <<>> /\ ticked
    /\ ticked' = FALSE
    /\ Become(Loop, [Fresh EXCEPT !.pc = "decide", !.bundle = Current, !.rev = Len(ledger)])
    /\ UNCHANGED <<platform, config, taken, view, budget, online, shownDrift, acked>>

(* Reads the row, the endpoint and the live status, and picks the branch.  *)
LoopDecide ==
    /\ At(Loop, "decide")
    /\ LET l == [local[Loop] EXCEPT !.row = recon]
       IN \/ ~registered /\ Return(Loop)
          \/ /\ registered /\ ~online
             /\ IF recon.status = "deferred" THEN Return(Loop)
                ELSE Become(Loop, [l EXCEPT !.pc = "upsert", !.row.status = "deferred"])
          \/ /\ registered /\ online /\ ~Correcting(l)
             /\ IF recon.fails >= MaxRetries THEN Return(Loop)
                ELSE Become(Loop, [l EXCEPT !.pc = "patch"])
          \/ /\ registered /\ online /\ Correcting(l)
             /\ Become(Loop, [l EXCEPT !.pc = "get", !.ok = TRUE])
    /\ UNCHANGED <<platform, control, budget, online, shownDrift, acked>>

(* Variant: the failure count survives a pass that found the greenhouse in *)
(* sync.                                                                   *)
SyncedKeepingFails(l) ==
    LET row == [l.row EXCEPT !.status = "delivered", !.drift = FALSE]
    IN IF row = l.row THEN Finished(Loop)
       ELSE [l EXCEPT !.pc = "upsert", !.row = row,
                      !.tell = IF l.row.drift THEN "clear" ELSE "quiet"]

(* markSynced: clear what differs; nothing to write when nothing does.     *)
Synced(l) ==
    LET row == [l.row EXCEPT !.status = "delivered", !.fails = 0, !.drift = FALSE]
    IN IF row = l.row THEN Finished(Loop)
       ELSE [l EXCEPT !.pc = "upsert", !.row = row,
                      !.tell = IF l.row.drift THEN "clear" ELSE "quiet"]

(* Variants: one attempt too many before backing off; a correction only    *)
(* when the drift is new.                                                  *)
DriftedOnceMore(l) ==
    [l EXCEPT !.pc = IF l.row.fails <= MaxRetries THEN "patch" ELSE "upsert",
              !.i = 1, !.row.drift = TRUE,
              !.tell = IF l.row.drift THEN "quiet" ELSE "raise"]

DriftedFirstOnly(l) ==
    [l EXCEPT !.pc = IF ~l.row.drift THEN "patch" ELSE "upsert",
              !.i = 1, !.row.drift = TRUE,
              !.tell = IF l.row.drift THEN "quiet" ELSE "raise"]

(* handleDrift: flag it, and correct it unless backed off.                 *)
Drifted(l) ==
    [l EXCEPT !.pc = IF l.row.fails < MaxRetries THEN "patch" ELSE "upsert",
              !.i = 1, !.row.drift = TRUE,
              !.tell = IF l.row.drift THEN "quiet" ELSE "raise"]

(* Reconciled(reported): the parts the intended bundle governs match.      *)
LoopGet ==
    /\ At(Loop, "get")
    /\ LET l == local[Loop]
           same == l.ok /\ \A p \in ReadParts(l.i) : view[p] = l.bundle[p]
       IN Become(Loop, IF l.i = 1 THEN [l EXCEPT !.i = 2, !.ok = same]
                       ELSE IF same THEN Synced(l) ELSE Drifted(l))
    /\ UNCHANGED <<platform, control, budget, online, shownDrift, acked>>

(* A GET that fails ends a request with 503 and the loop's pass over this  *)
(* greenhouse.                                                             *)
GetFailed(p) ==
    /\ At(p, "seed") \/ At(p, "get")
    /\ faults < MaxFaults /\ faults' = faults + 1
    /\ Return(p)
    /\ UNCHANGED <<platform, control, edits, retires, online, shownDrift, acked>>

-----------------------------------------------------------------------------
(* The controller, its link and the registry.                              *)

(* A control tick takes the latched configuration, runs on it, and then    *)
(* rebuilds the read model from it: a write accepted in between is shown   *)
(* by the next tick.  A tick that finds nothing new only passes time.      *)
Take ==
    /\ taken = NoTick /\ view # config
    /\ taken' = config
    /\ UNCHANGED <<platform, config, view, ticked, budget, online, local, shownDrift, acked>>

Publish ==
    /\ taken # NoTick
    /\ view' = taken /\ taken' = NoTick /\ ticked' = TRUE
    /\ UNCHANGED <<platform, config, budget, online, local, shownDrift, acked>>

IdleTick ==
    /\ taken = NoTick /\ view = config /\ ticked' = TRUE
    /\ UNCHANGED <<platform, config, taken, view, budget, online, local, shownDrift, acked>>

Tick == Take \/ Publish \/ IdleTick

(* Someone edits the controller over its own REST API.                     *)
LocalEdit ==
    /\ edits < MaxEdits /\ edits' = edits + 1
    /\ \E p \in Parts, v \in Values :
         /\ ~Refuses(p, v) /\ config[p] # v
         /\ config' = [config EXCEPT ![p] = v]
    /\ UNCHANGED <<platform, taken, view, ticked, faults, retires, online, local, shownDrift, acked>>

(* A restarted controller is back at its TOML defaults.                    *)
Restart ==
    /\ edits < MaxEdits /\ edits' = edits + 1
    /\ config' = Toml /\ taken' = NoTick /\ view' = Toml
    /\ UNCHANGED <<platform, ticked, faults, retires, online, local, shownDrift, acked>>

StatusChange ==
    /\ online' = ~online
    /\ UNCHANGED <<platform, control, budget, local, shownDrift, acked>>

(* Retiring cascades to the ledger, the row and the assignment.            *)
Retire ==
    /\ registered /\ retires < MaxRetires /\ retires' = retires + 1
    /\ registered' = FALSE /\ ledger' = <<>> /\ recon' = NoRow /\ assigned' = NoStage
    /\ UNCHANGED <<control, faults, edits, online, local, shownDrift, acked>>

Register ==
    /\ ~registered /\ registered' = TRUE
    /\ UNCHANGED <<ledger, recon, assigned, control, budget, online, local, shownDrift, acked>>

-----------------------------------------------------------------------------
Write(w)   == \/ Seed(w) \/ CheckBounds(w) \/ Apply(w)
              \/ ReadMaxRevision(w) \/ InsertRevision(w) \/ InsertConflict(w) \/ ReadRow(w)
Deliver(p) == PatchAccepted(p) \/ PatchRefused(p) \/ PatchFailed(p)
Finish(p)  == Upsert(p) \/ BroadcastDrift(p)
Pass       == LoopRead \/ LoopDecide \/ LoopGet

Submit(w)  == ReadBaseline(w) \/ SetAssignment(w)
Environment == LocalEdit \/ Restart \/ StatusChange \/ Retire \/ Register

Next ==
    \/ \E w \in Writers : Submit(w) \/ Write(w)
    \/ \E p \in Procs : Deliver(p) \/ Finish(p) \/ GetFailed(p)
    \/ Pass \/ Tick \/ Environment

(* A started request runs to its end, the loop's ticker keeps firing and   *)
(* the controller keeps ticking; requests and the environment owe nothing. *)
Fairness ==
    /\ \A w \in Writers : WF_vars(Write(w))
    /\ \A p \in Procs : WF_vars(Deliver(p) \/ Finish(p))
    /\ WF_vars(Pass) /\ WF_vars(Tick)

Spec     == Init /\ [][Next]_vars
FairSpec == Spec /\ Fairness

-----------------------------------------------------------------------------
(* Types: every variable and every process-local value stays in its range; *)
(* a fail count never passes MaxRetries.                                   *)
TypeOK ==
    /\ ledger \in Seq(Bundle) /\ recon \in Row /\ assigned \in Stages \cup {NoStage}
    /\ registered \in BOOLEAN /\ online \in BOOLEAN /\ ticked \in BOOLEAN
    /\ config \in Bundle /\ view \in Bundle /\ taken \in Bundle \cup {NoTick}
    /\ local \in [Procs -> Local]
    /\ shownDrift \in BOOLEAN /\ acked \subseteq Bundle
    /\ faults \in 0..MaxFaults /\ edits \in 0..MaxEdits /\ retires \in 0..MaxRetires

(* A delivery points at a part of the bundle and starts at the first; the  *)
(* loop makes one only while it has attempts left.                         *)
DeliveryInRange ==
    /\ At(Loop, "decide") => local[Loop].i = 1
    /\ \A p \in Procs : At(p, "patch") => local[p].i <= Len(PartSeq)
    /\ At(Loop, "patch") => local[Loop].row.fails < MaxRetries

(* Until the greenhouse is first retired, the revision the bookkeeping row *)
(* names as last delivered is in the ledger, and the controller accepted   *)
(* that revision's whole bundle, zone by zone, in one delivery             *)
(* (Apply, record, reassert, deliver).                                     *)
DeliveredRevisionWasAccepted ==
    retires = 0 /\ recon.last # 0 =>
        recon.last \in 1..Len(ledger) /\ ledger[recon.last] \in acked

(* Why: every row a process holds, and will write back, names an accepted  *)
(* revision; the loop works on a revision of the ledger; and a request     *)
(* that goes on to record a delivery saw its bundle accepted.              *)
RowSound(row) ==
    row.last # 0 => row.last \in 1..Len(ledger) /\ ledger[row.last] \in acked

OwnRevision(l) == l.rev \in 1..Len(ledger) /\ ledger[l.rev] = l.bundle

LocalSound(p, l) ==
    /\ RowSound(l.row)
    /\ p = Loop /\ l.pc \in {"decide", "get", "patch"} => OwnRevision(l)
    /\ p # Loop /\ l.pc = "bookkeep" => OwnRevision(l)
    /\ p # Loop /\ l.pc \in {"append", "insert", "bookkeep"} /\ l.ok => l.bundle \in acked

Provenance == RowSound(recon) /\ \A p \in Procs : LocalSound(p, local[p])

(* The provenance ledger is dense and append-only: a step leaves it alone, *)
(* appends one revision, or retires the greenhouse (AppendRevision).       *)
LedgerAppendOnly ==
    [][\/ ledger' = ledger
       \/ Len(ledger') = Len(ledger) + 1 /\ SubSeq(ledger', 1, Len(ledger)) = ledger
       \/ ~registered']_vars

(* Two edits never write the same revision number: a request that saw its  *)
(* insert succeed still finds its own bundle under its number while it     *)
(* does the bookkeeping (AppendRevision's PRIMARY KEY).                    *)
RevisionIsMine ==
    retires = 0 => \A w \in Writers : At(w, "bookkeep") => OwnRevision(local[w])

-----------------------------------------------------------------------------
(* The controller of this model, seen as the latch that ControllerConfig   *)
(* implements.                                                             *)
Controller == INSTANCE LatchedConfig WITH
    Sections <- Parts, Valid <- Values, Boot <- Toml,
    latched <- config, running <- taken # NoTick,
    taken <- IF taken = NoTick THEN view ELSE taken, view <- view

(* All that the platform, other clients and time do to the controller      *)
(* amounts to steps of that latch and to restarts (the PATCH handlers, the *)
(* control tick).                                                          *)
ControllerLatches ==
    Controller!Init /\ [][Controller!Next \/ Controller!Init']_<<config, taken, view>>

(* What a request asks for, and the requests not answered by a revision or *)
(* a refusal yet.                                                          *)
Asked(w) ==
    IF Kind[w] = "profile" THEN {Targets[s] : s \in Stages}
    ELSE {b \in Bundle : \A p \in Parts \cap DOMAIN Edit[w] : b[p] = Edit[w][p]}

Open ==
    {w \in Writers : local[w].pc \in
        {"idle", "seed", "bounds", "apply", "patch", "append", "insert"}}

Platform == INSTANCE IntendedState WITH
    Requests <- Writers, Asks <- [w \in Writers |-> Asked(w)], Bundles <- Bundle,
    registered <- registered, ledger <- ledger,
    open <- Open, accepted <- acked, delivered <- recon.last, retired <- retires > 0

(* The handlers and the loop together keep one greenhouse's intended state *)
(* as IntendedState promises: every revision answers one request, once and *)
(* with what it asked for, after the revisions before it; the controller   *)
(* is sent nothing that nobody asked for; and the revision booked as       *)
(* delivered was accepted whole (Apply, record, reassert, deliver).        *)
KeepsIntent == Platform!Spec

-----------------------------------------------------------------------------
Accepts(b)  == \A p \in Parts : ~Refuses(p, b[p])
Quiescent   == \A p \in Procs : local[p].pc \in {"idle", "done"}

(* Once the greenhouse stays reachable, the controller ends up running the *)
(* current intended bundle and keeps running it, whatever writes, lost     *)
(* calls, local edits, restarts and outages came before: re-assert, drift  *)
(* correction, or the delivery of Apply itself gets it there.              *)
Converges ==
    <>[]online => <>[](ledger # <<>> /\ Accepts(Current) => config = Current)

(* ... and the bookkeeping row settles on it: delivered, that revision, no *)
(* drift, no failures counted (record, reassert, markSynced).              *)
Settles ==
    <>[]online => <>[](ledger # <<>> /\ Accepts(Current) =>
        recon = [last |-> Len(ledger), status |-> "delivered", drift |-> FALSE, fails |-> 0])

(* A greenhouse in sync: its controller runs and shows the current bundle, *)
(* its row says so, no request is under way, and wherever the loop is in   *)
(* its pass, it works on that bundle and that row.                         *)
InSync ==
    /\ registered /\ ledger # <<>>
    /\ config = Current /\ view = Current /\ taken \in {NoTick, Current}
    /\ recon.last = Len(ledger) /\ ~recon.drift
    /\ \A w \in Writers : local[w].pc \in {"idle", "done"}
    /\ LET l == local[Loop]
       IN /\ l.pc \in {"idle", "decide", "get", "upsert"} /\ l.tell = "quiet"
          /\ l.pc \in {"decide", "get"} => l.rev = Len(ledger) /\ l.bundle = Current
          /\ l.pc = "get" => l.ok
          /\ l.pc \in {"get", "upsert"} => l.row.last = Len(ledger) /\ ~l.row.drift

Disturbed == (\E w \in Writers : Submit(w)) \/ LocalEdit \/ Restart \/ Retire

(* A greenhouse in sync stays so, with nothing PATCHed and no drift told   *)
(* to the dashboards, through passes, outages, lost reads and ticks in any *)
(* order, until someone writes, retires, edits or restarts the controller  *)
(* (reconcileGreenhouse, handleDrift and markSynced).                      *)
SyncIsStable ==
    [][InSync /\ ~Disturbed => InSync' /\ UNCHANGED <<config, shownDrift>>]_vars

(* "the platform enforces the active stage's crop-safe envelope" on the    *)
(* optimizer's write path: the revision it appends lies in the envelope of *)
(* the stage assigned at that moment.                                      *)
EnvelopeEnforced ==
    [][\A w \in Writers : InsertRevision(w) /\ Kind[w] = "optimizer" =>
          assigned = NoStage \/ local[w].bundle \in Envelope[assigned]]_vars

(* An edit changes only the parts it names: what it leaves out keeps the   *)
(* value of the revision it is appended after, so that an earlier sticky   *)
(* edit survives it (applyPatch onto Baseline).                            *)
EditKeepsOtherParts ==
    [][\A w \in Writers : InsertRevision(w) /\ Kind[w] # "profile" /\ ledger # <<>> =>
          local[w].bundle = Merge(Current, Edit[w])]_vars

(* The drift flag the dashboards were last sent settles on the row's flag  *)
(* ("so the dashboard reflects the fleet in real time without polling").   *)
ShownDriftSettles == <>[]online => <>[](shownDrift = recon.drift)

(* A retired greenhouse leaves no row behind, however many requests and    *)
(* passes were under way: a late write is refused by its foreign key.      *)
NoOrphans ==
    ~registered => ledger = <<>> /\ recon = NoRow /\ assigned = NoStage

(* "Each greenhouse is still re-asserted within one reconciliation cycle   *)
(* of its own reconnect": while no REST call has failed, the loop has not  *)
(* given up on delivering the current revision to a controller that runs   *)
(* something else (reassert's back-off).                                   *)
AnsweringControllerNotAbandoned ==
    Quiescent /\ faults = 0 /\ recon.last # Len(ledger) /\ config # Current
        => recon.fails < MaxRetries
=============================================================================
