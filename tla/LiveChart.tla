------------------------------ MODULE LiveChart ------------------------------
(***************************************************************************)
(* What the detail view draws of one greenhouse: the history a range query *)
(* answered, merged with the live edge a ring buffer keeps of the stream   *)
(* (GreenhouseDetail.tsx, hooks/useLiveSeries.ts, hooks/useLiveActuators,  *)
(* lib/derivations.ts), over the link of StreamClient.                     *)
(*                                                                         *)
(* Every greenhouse produces a sample at each instant of one clock; the    *)
(* platform stores them and pushes each to the open socket.  A sample is   *)
(* its greenhouse and its instant.  React renders a new greenhouse before  *)
(* the hooks' effects run for it, and the ring is copied to the drawn      *)
(* series once per animation frame.                                        *)
(***************************************************************************)
EXTENDS StreamClient, Sequences, FiniteSets

CONSTANTS
    Greenhouses,
    Capacity,    \* readings the ring buffer keeps of a series
    Window,      \* the length of the chosen range
    MaxClock,    \* bound: instants
    NoFetch

ASSUME LiveChartAssumption ==
    /\ Capacity \in Nat \ {0} /\ Window \in Nat /\ MaxClock \in Nat
    /\ NoFetch \notin 0..MaxClock

VARIABLES
    clock,     \* the newest instant, and how far the platform's store goes
    view,      \* the greenhouse of the route
    sub,       \* the greenhouse the hooks subscribed for
    ring,      \* buffers.current
    raf,       \* rafId.current: none, of a pending frame, or of a cancelled one
    series,    \* the flushed copy
    drift,     \* schemaDrift counts a dropped frame
    since,     \* history: the instant the hooks subscribed at
    link,      \* history: what the indicator showed at each instant
    hist,      \* the last instant of each greenhouse's cached range answer
    fetch      \* the answer of each range query in flight

drawn     == <<view, sub, ring, raf, series, drift, since, link>>
queries   == <<hist, fetch>>
chartVars == <<clock, drawn, queries>>
vars      == <<linkVars, chartVars>>

Sample(g, t) == [gh |-> g, ts |-> t]
Samples      == [gh : Greenhouses, ts : 1..MaxClock]

Init ==
    /\ LinkInit
    /\ clock = 0 /\ view \in Greenhouses /\ sub = view
    /\ ring = <<>> /\ raf = "none" /\ series = <<>>
    /\ drift = FALSE /\ since = 0 /\ link = <<>>
    /\ hist = [g \in Greenhouses |-> 0]
    /\ fetch = [g \in Greenhouses |-> IF g = view THEN 0 ELSE NoFetch]

-----------------------------------------------------------------------------
(* Variant: the buffer is not cut to its capacity.                         *)
PushUntrimmed(buffer, r) == Append(buffer, r)

(* The last capacity readings.                                             *)
Push(buffer, r) ==
    LET b == Append(buffer, r)
    IN SubSeq(b, IF Len(b) > Capacity THEN Len(b) - Capacity + 1 ELSE 1, Len(b))

(* A frame of the subscribed greenhouse; one flush per animation frame.    *)
Receive(g, t) ==
    /\ ring' = Push(ring, Sample(g, t))
    /\ raf' = IF raf = "none" THEN "pending" ELSE raf

(* handleMessage: a frame of a known type that does not validate any more  *)
(* is dropped and counted.                                                 *)
HandleMessage(valid) ==
    IF valid THEN Receive(sub, clock') /\ UNCHANGED drift
             ELSE drift' = TRUE /\ UNCHANGED <<ring, raf>>

(* The greenhouses produce a sample; the open socket carries it.           *)
Tick ==
    /\ clock < MaxClock /\ clock' = clock + 1
    /\ \/ shown # "open" /\ link' = Append(link, shown) /\ UNCHANGED <<ring, raf, drift>>
       \/ shown = "open" /\ link' = Append(link, shown) /\ HandleMessage(TRUE)
       \/ shown = "open" /\ link' = Append(link, "rejected") /\ HandleMessage(FALSE)
    /\ UNCHANGED <<linkVars, view, sub, series, since, queries>>

(* Variant: the pending frame is cancelled but its id is kept.             *)
CleanupKeepingId == raf' = IF raf = "pending" THEN "cancelled" ELSE raf

(* The cleanup of the effect cancels the pending frame.                    *)
Cleanup == raf' = "none"

(* Variant: the buffers of the old greenhouse are kept.                    *)
ClearKeepingBuffers == ring' = ring /\ series' = <<>>

Clear == ring' = <<>> /\ series' = <<>>

(* The effect for the greenhouse rendered.                                 *)
Subscribe ==
    /\ sub # view
    /\ sub' = view /\ since' = clock /\ Cleanup /\ Clear
    /\ UNCHANGED <<linkVars, clock, view, drift, link, queries>>

Flush ==
    /\ raf = "pending" /\ raf' = "none" /\ series' = ring
    /\ UNCHANGED <<linkVars, clock, view, sub, ring, drift, since, link, queries>>

Query(g) == fetch' = [fetch EXCEPT ![g] = IF @ = NoFetch THEN clock ELSE @]

(* Another greenhouse, while the old one's subscription still stands; its  *)
(* range is queried unless the cache has a fresh answer.                   *)
Navigate ==
    /\ view' \in Greenhouses \ {view} /\ sub = view
    /\ Query(view') \/ (hist[view'] > 0 /\ UNCHANGED fetch)
    /\ UNCHANGED <<linkVars, clock, sub, ring, raf, series, drift, since, link, hist>>

(* A range not looked at yet has no answer, another one an older one.      *)
PickRange ==
    /\ \E n \in 0..hist[view] : hist' = [hist EXCEPT ![view] = n]
    /\ fetch' = [fetch EXCEPT ![view] = clock]
    /\ UNCHANGED <<linkVars, clock, drawn>>

Answered(g) ==
    /\ fetch[g] # NoFetch
    /\ hist' = [hist EXCEPT ![g] = fetch[g]] /\ fetch' = [fetch EXCEPT ![g] = NoFetch]
    /\ UNCHANGED <<linkVars, clock, drawn>>

Link == (LinkNext /\ UNCHANGED chartVars)

Next ==
    \/ Link \/ Tick \/ Subscribe \/ Flush \/ Navigate \/ PickRange
    \/ \E g \in Greenhouses : Answered(g)

Fairness ==
    /\ WF_vars(Subscribe) /\ WF_vars(Flush)
    /\ \A g \in Greenhouses : WF_vars(Answered(g))

Spec     == Init /\ [][Next]_vars
FairSpec == Spec /\ LinkFairness /\ Fairness

-----------------------------------------------------------------------------
(* The range answer of a greenhouse: the stored samples of its window.     *)
History(g) == {Sample(g, t) : t \in {u \in 1..hist[g] : u > hist[g] - Window}}
LiveEdge   == {series[i] : i \in 1..Len(series)}

(* mergeReadings: both, less what is a window older than the newest.       *)
Merged(historical, live) ==
    LET all == historical \cup live
    IN {r \in all : \A s \in all : r.ts >= s.ts - Window}
Points == Merged(History(view), LiveEdge)

(* useLiveActuators keeps the last sample, drawn at once.                  *)
LiveActuators == IF ring # <<>> THEN ring[Len(ring)].ts ELSE 0

(* latestActuators: a live sample overrides the range's newest.            *)
LatestActuators(live) == IF live > 0 THEN live ELSE hist[view]

(* Instants the chart passes over.                                         *)
Holes ==
    {t \in 1..clock : /\ \E p, q \in Points : p.ts < t /\ t < q.ts
                      /\ Sample(view, t) \notin Points}

-----------------------------------------------------------------------------
TypeOK ==
    /\ LinkTypeOK
    /\ clock \in 0..MaxClock /\ view \in Greenhouses /\ sub \in Greenhouses
    /\ ring \in Seq(Samples) /\ Len(ring) <= Capacity
    /\ drift \in BOOLEAN /\ raf \in {"none", "pending", "cancelled"} /\ series \in Seq(Samples)
    /\ hist \in [Greenhouses -> 0..MaxClock]
    /\ fetch \in [Greenhouses -> 0..MaxClock \cup {NoFetch}]
    /\ since \in 0..MaxClock /\ link \in Seq(States \cup {"rejected"}) /\ Len(link) = clock

(* Once the hooks' effects have run, the chart holds no sample of another  *)
(* greenhouse, whatever was buffered, or waiting for an animation frame,   *)
(* when the operator moved on.                                             *)
OnlyThisGreenhouse == sub = view => \A r \in Points : r.gh = view

(* What the socket carried is drawn: every instant since the operator      *)
(* opened the greenhouse at which the link was up, as far back as the ring *)
(* reaches, is on the chart, or an animation frame is pending that will    *)
(* put it there; a burst is coalesced and nothing of it is lost.  The      *)
(* actuator panel shows the last sample, also after an older range answer; *)
(* and what was dropped because it did not validate is named by the badge. *)
CarriedIsDrawn ==
    sub = view =>
        /\ \/ raf = "pending"
           \/ \A t \in since+1 .. clock :
                 t > clock - Capacity /\ t > clock - Window /\ link[t] = "open"
                     => Sample(view, t) \in Points
        /\ clock > since /\ link[clock] = "open" => LatestActuators(LiveActuators) = clock
        /\ \A t \in 1..clock : link[t] = "rejected" => drift

(* "After a gap, re-run the relevant range query to fill what the socket   *)
(* missed, then resume appending - no silent holes": with the link back    *)
(* for good, what was missed while it reconnected gets drawn.              *)
NoSilentHoles ==
    <>[](shown = "open") => []<>(\A t \in Holes : link[t] # "reconnecting")
=============================================================================
