----------------------------- MODULE LiveStatus -----------------------------
(***************************************************************************)
(* The up path of the platform for one greenhouse: MQTT ingestion, the     *)
(* in-memory fleet view, the WebSocket hub, and the dashboards that patch  *)
(* their caches with its frames (internal/ingest, internal/state,          *)
(* internal/ws, climate-frontend).                                         *)
(*                                                                         *)
(* The MQTT client calls the handler for one message at a time; the        *)
(* liveness sweep is a goroutine of its own.  Each locked call on the      *)
(* fleet is one action, and each broadcast another: a frame is built under *)
(* the fleet's lock and sent after it is released.  A broadcast reaches    *)
(* all subscribers in one action, because their queues are independent and *)
(* no dashboard can tell when another one was reached.                     *)
(***************************************************************************)
EXTENDS Integers, Sequences

CONSTANTS
    Subs,       \* connected dashboards
    Faults,     \* faults a controller can report active
    Scales,     \* reported simulation time-scales, NoScale among them
    NoScale,    \* no time-scale reported yet
    Horizon,    \* [Scales -> Nat]: the age at which a greenhouse is stale
    MaxAge,     \* bound: the age of an entry, also that of one never seen
    Buffer,     \* subscriberBuffer
    NoEntry,    \* no live entry for the greenhouse
    NoAnswer,   \* no fleet poll in flight
    MaxRetires  \* bound: times the greenhouse is retired

Status == {"online", "degraded", "offline"}
Entry  == [age : 0..MaxAge, scale : Scales, degraded : BOOLEAN,
           status : Status, faults : SUBSET Faults]

ASSUME LiveStatusAssumption ==
    /\ NoScale \in Scales /\ NoEntry \notin Entry
    /\ MaxAge \in Nat \ {0} /\ Horizon \in [Scales -> 0..MaxAge-1]
    /\ Buffer \in Nat \ {0} /\ MaxRetires \in Nat

VARIABLES
    registered,  \* the registry row
    known,       \* the ingester's known map has the greenhouse
    admin,       \* retire and register requests between their two calls
    entry,       \* the fleet entry
    pc, msg,     \* the message handler and the message it is on
    rescaled,    \* SetTimeScale reported a change
    out,         \* frames each goroutine has yet to broadcast
    open, buf,   \* the hub's subscribers and their queues
    card,        \* status on each dashboard's fleet card
    alerts,      \* each dashboard's active alerts
    answer,      \* each dashboard's fleet poll in flight
    gap,         \* history: frames a dashboard has missed
    retires      \* spent bound

registry == <<registered, known, admin, retires>>
ingest   == <<entry, pc, msg, rescaled>>
hub      == <<out, open, buf, gap>>
boards   == <<card, alerts, answer>>
vars     == <<registry, ingest, hub, boards>>

Goroutines == {"ingest", "sweep"}
Message    == [kind : {"none", "sample", "fault", "state"}, degraded : BOOLEAN,
               scale : Scales, faults : SUBSET Faults]
Frame      == [type : {"data", "status", "alerts"}, status : Status, faults : SUBSET Faults]

Data          == [type |-> "data", status |-> "offline", faults |-> {}]
StatusFrame(e) == [Data EXCEPT !.type = "status", !.status = e.status]
AlertsFrame(a) == [Data EXCEPT !.type = "alerts", !.faults = a]

None   == [kind |-> "none", degraded |-> FALSE, scale |-> NoScale, faults |-> {}]
Messages == {[None EXCEPT !.kind = "sample"], [None EXCEPT !.kind = "fault"]}
            \cup [kind : {"state"}, degraded : BOOLEAN, scale : Scales \ {NoScale},
                  faults : SUBSET Faults]
Unseen == [age |-> MaxAge, scale |-> NoScale, degraded |-> FALSE,
           status |-> "offline", faults |-> {}]

Init ==
    /\ registered = TRUE /\ known = TRUE /\ admin = {} /\ retires = 0
    /\ entry = NoEntry /\ pc = "idle" /\ rescaled = FALSE
    /\ msg = None
    /\ out = [g \in Goroutines |-> <<>>]
    /\ open = Subs /\ buf = [s \in Subs |-> <<>>] /\ gap = {}
    /\ card = [s \in Subs |-> "offline"] /\ alerts = [s \in Subs |-> {}]
    /\ answer = [s \in Subs |-> NoAnswer]

-----------------------------------------------------------------------------
(* The fleet view (state.go, snapshot.go).                                 *)

Ensure == IF entry = NoEntry THEN Unseen ELSE entry

(* Variant: an active fault hides staleness.                               *)
DegradedFirst(e) ==
    IF e.degraded THEN "degraded" ELSE IF e.age > Horizon[e.scale] THEN "offline" ELSE "online"

(* deriveLocked: stale before degraded before online.                      *)
Derived(e) ==
    IF e.age > Horizon[e.scale] THEN "offline" ELSE IF e.degraded THEN "degraded" ELSE "online"

Refreshed(e) == [e EXCEPT !.status = Derived(e)]

(* Variant: a fault set of the same size is taken for the same.            *)
SizeChanged(old, new) == (old = {}) # (new = {})

(* SetActiveFaults reports a raise, a clear or a different fault.          *)
FaultsChanged(old, new) == old # new

-----------------------------------------------------------------------------
(* The hub (hub.go).                                                       *)

Idle(g) == out[g] = <<>>
Room(s) == Len(buf[s]) < Buffer

(* Variant: the send waits for room.                                       *)
BroadcastBlocking(g) ==
    /\ out[g] # <<>> /\ \A s \in open : Room(s)
    /\ out' = [out EXCEPT ![g] = Tail(@)]
    /\ buf' = [s \in Subs |-> IF s \in open THEN Append(buf[s], Head(out[g])) ELSE buf[s]]
    /\ UNCHANGED <<registry, ingest, open, gap, boards>>

(* Variant: nothing is shed.                                               *)
BroadcastUnbounded(g) ==
    /\ out[g] # <<>>
    /\ out' = [out EXCEPT ![g] = Tail(@)]
    /\ buf' = [s \in Subs |-> IF s \in open THEN Append(buf[s], Head(out[g])) ELSE buf[s]]
    /\ UNCHANGED <<registry, ingest, open, gap, boards>>

(* A subscriber whose queue is full has the frame shed.                    *)
Broadcast(g) ==
    /\ out[g] # <<>>
    /\ out' = [out EXCEPT ![g] = Tail(@)]
    /\ buf' = [s \in Subs |-> IF s \in open /\ Room(s) THEN Append(buf[s], Head(out[g]))
                                                       ELSE buf[s]]
    /\ gap' = gap \cup {s \in open : ~Room(s)}
    /\ UNCHANGED <<registry, ingest, open, boards>>

Connect(s) ==
    /\ s \notin open
    /\ open' = open \cup {s}
    /\ UNCHANGED <<registry, ingest, out, buf, gap, boards>>

Disconnect(s) ==
    /\ s \in open
    /\ open' = open \ {s} /\ gap' = gap \cup {s}
    /\ buf' = [buf EXCEPT ![s] = <<>>]
    /\ UNCHANGED <<registry, ingest, out, boards>>

-----------------------------------------------------------------------------
(* Ingestion (ingest.go).                                                  *)

(* A message of an unknown greenhouse is dropped.  A state message carries *)
(* the whole condition; others only say that the controller is alive, or   *)
(* that a fault occurred.                                                  *)
Receive ==
    /\ pc = "idle" /\ Idle("ingest") /\ known
    /\ msg' \in Messages
    /\ pc' = IF msg'.kind = "state" THEN "scale" ELSE "observe"
    /\ UNCHANGED <<registry, entry, rescaled, hub, boards>>

SetTimeScale ==
    /\ pc = "scale" /\ pc' = "faults"
    /\ entry' = [Ensure EXCEPT !.scale = msg.scale]
    /\ rescaled' = (Ensure.scale # msg.scale)
    /\ UNCHANGED <<registry, msg, hub, boards>>

SetActiveFaults ==
    /\ pc = "faults"
    /\ entry' = [Ensure EXCEPT !.faults = msg.faults]
    /\ pc' = IF FaultsChanged(Ensure.faults, msg.faults) THEN "alerts" ELSE "observe"
    /\ UNCHANGED <<registry, msg, rescaled, hub, boards>>

(* The alerts frame carries a second read of the entry.                    *)
BroadcastAlerts ==
    /\ pc = "alerts" /\ pc' = "observe"
    /\ out' = [out EXCEPT !["ingest"] =
                 <<AlertsFrame(IF entry = NoEntry THEN {} ELSE entry.faults)>>]
    /\ UNCHANGED <<registry, entry, msg, rescaled, open, buf, gap, boards>>

(* Observe or SetDegraded, and the frames that follow from it.             *)
Observed == [Ensure EXCEPT !.age = 0,
                           !.degraded = CASE msg.kind = "sample" -> @
                                          [] msg.kind = "fault"  -> TRUE
                                          [] msg.kind = "state"  -> msg.degraded]
Observe ==
    /\ pc = "observe" /\ Idle("ingest") /\ pc' = "idle" /\ msg' = None /\ rescaled' = FALSE
    /\ entry' = Refreshed(Observed)
    /\ LET first == IF msg.kind = "state" THEN <<>> ELSE <<Data>>
           changed == entry'.status # Ensure.status \/ rescaled
       IN out' = [out EXCEPT !["ingest"] =
                    first \o (IF changed THEN <<StatusFrame(entry')>> ELSE <<>>)]
    /\ UNCHANGED <<registry, open, buf, gap, boards>>

(* The sweep goroutine broadcasts what it found changed after unlocking.   *)
Sweep ==
    /\ Idle("sweep") /\ entry # NoEntry /\ Derived(entry) # entry.status
    /\ entry' = Refreshed(entry)
    /\ out' = [out EXCEPT !["sweep"] = <<StatusFrame(entry')>>]
    /\ UNCHANGED <<registry, pc, msg, rescaled, open, buf, gap, boards>>

-----------------------------------------------------------------------------
(* Registration (greenhouses.go): the store first, then the ingester.      *)

RetireRow ==
    /\ registered /\ retires < MaxRetires /\ "retire" \notin admin
    /\ registered' = FALSE /\ retires' = retires + 1
    /\ admin' = admin \cup {"retire"}
    /\ UNCHANGED <<known, ingest, hub, boards>>

Forget ==
    /\ "retire" \in admin
    /\ known' = FALSE /\ admin' = (admin \ {"retire"}) \cup {"remove"}
    /\ UNCHANGED <<registered, retires, ingest, hub, boards>>

RemoveEntry ==
    /\ "remove" \in admin
    /\ entry' = NoEntry /\ admin' = admin \ {"remove"}
    /\ UNCHANGED <<registered, known, retires, pc, msg, rescaled, hub, boards>>

RegisterRow ==
    /\ ~registered /\ registered' = TRUE
    /\ admin' = admin \cup {"register"}
    /\ UNCHANGED <<known, retires, ingest, hub, boards>>

Add ==
    /\ "register" \in admin
    /\ known' = TRUE /\ admin' = admin \ {"register"}
    /\ UNCHANGED <<registered, retires, ingest, hub, boards>>

-----------------------------------------------------------------------------
(* The dashboards (ws.ts, livePatch.ts, greenhouses.ts).                   *)

(* A status frame patches the card of a greenhouse the list has; frames of *)
(* other types leave it as it is.                                          *)
Patched(c, f) == IF f.type = "status" /\ c # "absent" THEN f.status ELSE c

(* What GET /greenhouses says of the greenhouse.                           *)
Answer == IF ~registered THEN "absent" ELSE Ensure.status

ReadFrame(s) ==
    /\ s \in open /\ buf[s] # <<>>
    /\ buf' = [buf EXCEPT ![s] = Tail(@)]
    /\ LET f == Head(buf[s])
       IN /\ card' = [card EXCEPT ![s] = Patched(@, f)]
          /\ alerts' = IF f.type = "alerts" THEN [alerts EXCEPT ![s] = f.faults] ELSE alerts
    /\ UNCHANGED <<registry, ingest, out, open, gap, answer>>

(* Each dashboard re-reads the fleet on a timer of its own.                *)
Poll(s) ==
    /\ answer[s] = NoAnswer
    /\ answer' = [answer EXCEPT ![s] = Answer]
    /\ UNCHANGED <<registry, ingest, hub, card, alerts>>

PollAnswered(s) ==
    /\ answer[s] # NoAnswer
    /\ card' = [card EXCEPT ![s] = answer[s]]
    /\ answer' = [answer EXCEPT ![s] = NoAnswer]
    /\ UNCHANGED <<registry, ingest, hub, alerts>>

-----------------------------------------------------------------------------
Age ==
    /\ entry # NoEntry /\ entry.age < MaxAge
    /\ entry' = [entry EXCEPT !.age = @ + 1]
    /\ UNCHANGED <<registry, pc, msg, rescaled, hub, boards>>

Handle     == SetTimeScale \/ SetActiveFaults \/ BroadcastAlerts \/ Observe
Administer == RetireRow \/ Forget \/ RemoveEntry \/ RegisterRow \/ Add
Refresh(s) == Poll(s) \/ PollAnswered(s)
Link(s)    == Connect(s) \/ Disconnect(s) \/ ReadFrame(s)

Next ==
    \/ Receive \/ Handle \/ Sweep \/ Administer \/ Age
    \/ \E g \in Goroutines : Broadcast(g)
    \/ \E s \in Subs : Refresh(s) \/ Link(s)

(* The goroutines run, time passes and the poll timers fire; a controller  *)
(* may fall silent and a dashboard may never read its socket.              *)
Fairness ==
    /\ WF_vars(Handle) /\ WF_vars(Sweep) /\ WF_vars(Age)
    /\ \A g \in Goroutines : WF_vars(Broadcast(g))
    /\ \A s \in Subs : WF_vars(Refresh(s))
    /\ WF_vars(Forget \/ RemoveEntry \/ Add)

Spec     == Init /\ [][Next]_vars
FairSpec == Spec /\ Fairness

-----------------------------------------------------------------------------
TypeOK ==
    /\ registered \in BOOLEAN /\ known \in BOOLEAN
    /\ admin \subseteq {"retire", "remove", "register"} /\ retires \in 0..MaxRetires
    /\ entry \in Entry \cup {NoEntry}
    /\ pc \in {"idle", "scale", "faults", "alerts", "observe"}
    /\ msg \in Message /\ rescaled \in BOOLEAN
    /\ out \in [Goroutines -> Seq(Frame)]
    /\ open \subseteq Subs /\ gap \subseteq Subs
    /\ buf \in [Subs -> Seq(Frame)] /\ \A s \in Subs : Len(buf[s]) <= Buffer
    /\ card \in [Subs -> Status \cup {"absent"}] /\ alerts \in [Subs -> SUBSET Faults]
    /\ answer \in [Subs -> Status \cup {"absent", NoAnswer}]

(* A dashboard that missed no frame and has read all of them shows exactly *)
(* the greenhouse's active faults: SetActiveFaults publishes every change, *)
(* and nothing can overtake it on the way (until a retire drops the entry).*)
AlertsAreCurrent ==
    \A s \in Subs \ gap :
        pc = "idle" /\ Idle("ingest") /\ buf[s] = <<>> /\ retires = 0
            => alerts[s] = Ensure.faults

(* A dashboard that does not read its socket never holds up ingestion: at  *)
(* every moment of a message's handling its next step can be taken,        *)
(* whatever the queues hold.                                               *)
IngestNeverBlocked ==
    pc # "idle" \/ ~Idle("ingest") => ENABLED (Handle \/ Broadcast("ingest"))

(* When the controller falls silent, its greenhouse goes offline and every *)
(* fleet card ends up saying so, also when a status frame was shed or the  *)
(* sweep's and the handler's frames arrived in the wrong order.            *)
Silent == <>[][pc = "idle" => pc' = "idle"]_vars
SilenceShows ==
    Silent => <>[](/\ Answer \in {"offline", "absent"}
                         /\ \A s \in Subs : card[s] = Answer)

(* "Add registers a greenhouse so its telemetry is accepted": once every   *)
(* registry request is done, a registered greenhouse is ingested.          *)
RegisteredIsKnown == admin = {} => known = registered
=============================================================================
