-------------------------- MODULE LiveChartProofs --------------------------
(***************************************************************************)
(* Proofs about the detail view's live chart: for any buffer capacity,     *)
(* window and number of greenhouses, and any order of samples, frames,     *)
(* navigation, range answers and outages of the link, the chart holds      *)
(* nothing of another greenhouse and everything the socket carried.        *)
(***************************************************************************)
EXTENDS LiveChart, StreamClientProofs, SequenceTheorems

Last(buffer) == buffer[Len(buffer)]

(* The buffer and the drawn copy hold samples of the subscribed greenhouse *)
(* only, and each sample of the buffer is as far back in time as it is in  *)
(* the buffer, at least: one is kept per instant, the newest last.         *)
BufferInv ==
    /\ ring \in Seq(Samples) /\ Len(ring) <= Capacity
    /\ \A i \in 1..Len(ring) : /\ ring[i].gh = sub
                               /\ ring[i].ts + (Len(ring) - i) <= clock
    /\ series \in Seq(Samples)
    /\ \A i \in 1..Len(series) : series[i].gh = sub /\ series[i].ts <= clock
    /\ raf \in {"none", "pending"}
    /\ raf = "none" => series = ring

(* What the link carried since the subscription, and the buffer's capacity *)
(* reaches, is in the buffer; the newest of it is the last.                *)
CarriedInv ==
    /\ \A t \in since+1 .. clock :
          link[t] = "open" /\ t > clock - Capacity
              => \E i \in 1..Len(ring) : ring[i] = Sample(sub, t)
    /\ clock > since /\ link[clock] = "open" => ring # <<>> /\ Last(ring).ts = clock
    /\ \A t \in 1..clock : link[t] = "rejected" => drift

(* The history of the link covers the clock, and no range answer is of the *)
(* future.                                                                 *)
HistoryInv ==
    /\ clock \in 0..MaxClock /\ view \in Greenhouses /\ sub \in Greenhouses
    /\ drift \in BOOLEAN /\ since \in 0..clock
    /\ link \in Seq(States \cup {"rejected"}) /\ Len(link) = clock
    /\ hist \in [Greenhouses -> 0..clock]
    /\ fetch \in [Greenhouses -> 0..clock \cup {NoFetch}]

ChartInv == HistoryInv /\ BufferInv /\ CarriedInv

-----------------------------------------------------------------------------
LEMMA SamplesDated ==
    \A q \in Seq(Samples) : \A i \in 1..Len(q) : q[i] \in Samples /\ q[i].ts \in Int
<1>1. \A q \in Seq(Samples) : \A i \in 1..Len(q) : q[i] \in Samples
      BY ElementOfSeq
<1>2. \A q \in Samples : q.ts \in Int
      BY DEF Samples
<1> QED BY <1>1, <1>2

(* What a push leaves: the buffer, without its oldest reading if it was    *)
(* full, and the new reading.                                              *)
LEMMA Pushed ==
    ASSUME NEW b \in Seq(Samples), Len(b) <= Capacity, NEW r \in Samples,
           NEW cut \in {0, 1}, cut = 1 <=> Len(b) = Capacity
    PROVE  /\ Push(b, r) \in Seq(Samples)
           /\ Len(Push(b, r)) = Len(b) + 1 - cut
           /\ \A i \in 1..Len(b) - cut : Push(b, r)[i] = b[i + cut]
           /\ Last(Push(b, r)) = r
<1> DEFINE a == Append(b, r)
           p == SubSeq(a, cut + 1, Len(a))
<1> USE LiveChartAssumption
<1>1. /\ a \in Seq(Samples) /\ Len(a) = Len(b) + 1 /\ a[Len(a)] = r
      /\ \A i \in 1..Len(b) : a[i] = b[i]
      BY AppendProperties
<1>2. Len(b) \in Nat /\ cut \in {0, 1} /\ cut <= Len(b)
      OBVIOUS
<1>3. Push(b, r) = p
  <2>1. (IF Len(a) > Capacity THEN Len(a) - Capacity + 1 ELSE 1) = cut + 1
        BY <1>1, <1>2
  <2>2. Push(b, r) = SubSeq(a, IF Len(a) > Capacity THEN Len(a) - Capacity + 1 ELSE 1, Len(a))
        BY DEF Push
  <2> QED BY ONLY <2>1, <2>2
<1>4. \A i \in cut + 1 .. Len(a) : a[i] \in Samples
      BY <1>1, <1>2
<1> HIDE DEF a
<1>5. /\ p \in Seq(Samples)
      /\ Len(p) = IF cut + 1 <= Len(a) THEN Len(a) - (cut + 1) + 1 ELSE 0
      /\ \A i \in 1 .. Len(a) - (cut + 1) + 1 : p[i] = a[cut + 1 + i - 1]
  <2>1. cut + 1 \in Int /\ Len(a) \in Int
        BY <1>1, <1>2
  <2> QED BY <1>4, <2>1, SubSeqProperties
<1> HIDE DEF p
<1>6. Len(p) = Len(b) + 1 - cut
      BY <1>1, <1>2, <1>5
<1>7. ASSUME NEW i \in 1 .. Len(b) + 1 - cut
      PROVE  p[i] = a[i + cut]
  <2>1. i \in 1 .. Len(a) - (cut + 1) + 1 /\ cut + 1 + i - 1 = i + cut
        BY <1>1, <1>2
  <2> QED BY <1>5, <2>1
<1>8. p[Len(p)] = r
  <2>1. Len(p) \in 1 .. Len(b) + 1 - cut /\ Len(p) + cut = Len(a)
        BY <1>1, <1>2, <1>6
  <2> QED BY <1>1, <1>7, <2>1
<1>9. ASSUME NEW i \in 1 .. Len(b) - cut
      PROVE  p[i] = b[i + cut]
  <2>1. i \in 1 .. Len(b) + 1 - cut /\ i + cut \in 1..Len(b)
        BY <1>2
  <2> QED BY <1>1, <1>7, <2>1
<1> QED BY <1>3, <1>5, <1>6, <1>8, <1>9 DEF Last

(* A received sample of a new instant goes to the end of the buffer.       *)
LEMMA ReceiveKeeps ==
    ASSUME HistoryInv, BufferInv, CarriedInv, HistoryInv',
           clock' = clock + 1, clock' \in 1..MaxClock, UNCHANGED <<sub, series, since>>,
           UNCHANGED drift,
           link' = Append(link, "open"), Receive(sub, clock')
    PROVE  BufferInv' /\ CarriedInv'
<1> DEFINE r   == Sample(sub, clock')
           cut == IF Len(ring) = Capacity THEN 1 ELSE 0
<1> USE LiveChartAssumption
<1>1. r \in Samples /\ r.gh = sub /\ r.ts = clock'
      BY DEF Samples, Sample, HistoryInv
<1>2. ring' = Push(ring, r) /\ raf' = "pending"
      BY DEF Receive, BufferInv
<1>3. /\ ring' \in Seq(Samples) /\ Len(ring') = Len(ring) + 1 - cut
      /\ \A i \in 1..Len(ring) - cut : ring'[i] = ring[i + cut]
      /\ Last(ring') = r
  <2>1. ring \in Seq(Samples) /\ Len(ring) <= Capacity
        BY DEF BufferInv
  <2>2. cut \in {0, 1} /\ (cut = 1 <=> Len(ring) = Capacity)
        OBVIOUS
  <2> HIDE DEF r, cut
  <2> QED BY <1>1, <1>2, <2>1, <2>2, Pushed
<1>4. /\ ring \in Seq(Samples) /\ \A i \in 1..Len(ring) : ring[i] \in Samples /\ ring[i].ts \in Int
      /\ \A i \in 1..Len(series) : series[i] \in Samples /\ series[i].ts \in Int
      BY SamplesDated DEF BufferInv
<1>5. /\ Len(ring) \in Nat /\ cut \in {0, 1} /\ cut <= Len(ring) /\ clock \in Nat
      /\ link'[clock'] = "open" /\ \A t \in 1..clock : link'[t] = link[t]
      BY AppendProperties DEF HistoryInv, BufferInv
<1> HIDE DEF r, cut
<1>6. BufferInv'
  <2>1. Len(ring') <= Capacity
        BY <1>3, <1>5 DEF cut, BufferInv
  <2>2. ASSUME NEW i \in 1..Len(ring')
        PROVE  ring'[i].gh = sub' /\ ring'[i].ts + (Len(ring') - i) <= clock'
    <3>1. CASE i = Len(ring')
          BY <1>1, <1>3, <1>5, <3>1 DEF Last
    <3>2. CASE i # Len(ring')
      <4>1. i + cut \in 1..Len(ring) /\ ring'[i] = ring[i + cut]
        <5>1. i \in 1..Len(ring) - cut
              BY <1>3, <1>5, <3>2
        <5>2. i + cut \in 1..Len(ring)
              BY <1>5, <5>1
        <5> QED BY <1>3, <5>1, <5>2
      <4>2. /\ ring[i + cut].gh = sub
            /\ ring[i + cut].ts + (Len(ring) - (i + cut)) <= clock
            /\ ring[i + cut].ts \in Int
            BY <1>4, <4>1 DEF BufferInv
      <4> QED BY <1>3, <1>5, <4>1, <4>2
    <3> QED BY <3>1, <3>2
  <2> QED BY <1>2, <1>3, <1>4, <1>5, <2>1, <2>2 DEF BufferInv
<1>7. CarriedInv'
  <2>1. ASSUME NEW t \in since+1 .. clock', link'[t] = "open", t > clock' - Capacity
        PROVE  \E i \in 1..Len(ring') : ring'[i] = Sample(sub, t)
    <3>1. CASE t = clock'
          BY <1>3, <1>5, <3>1 DEF Last, r
    <3>2. CASE t # clock'
      <4>1. t \in since+1 .. clock /\ t \in 1..clock /\ t > clock - Capacity
            BY <3>2, <2>1 DEF HistoryInv
      <4>2. PICK j \in 1..Len(ring) : ring[j] = Sample(sub, t)
            BY <1>5, <2>1, <4>1 DEF CarriedInv
      <4>3. t + (Len(ring) - j) <= clock
            BY <4>2 DEF BufferInv, Sample
      <4>4. j - cut \in 1..Len(ring) - cut
            BY <1>5, <2>1, <4>1, <4>3 DEF cut
      <4>5. ring'[j - cut] = ring[j]
            BY <1>3, <1>5, <4>4
      <4> QED BY <1>3, <1>5, <4>2, <4>4, <4>5
    <3> QED BY <3>1, <3>2
  <2>2. ring' # <<>> /\ Last(ring').ts = clock'
        BY <1>1, <1>3, <1>5
  <2>3. ASSUME NEW t \in 1..clock', link'[t] = "rejected" PROVE drift'
        BY <1>5, <2>3 DEF CarriedInv, HistoryInv
  <2> QED BY <2>1, <2>2, <2>3 DEF CarriedInv
<1> QED BY <1>6, <1>7

(* What the greenhouse moved on from leaves behind is nothing.             *)
LEMMA SubscribeKeeps == ChartInv /\ Subscribe => ChartInv'
<1> SUFFICES ASSUME ChartInv, Subscribe PROVE ChartInv'
    OBVIOUS
<1>1. /\ sub' = view /\ since' = clock /\ raf' = "none" /\ ring' = <<>> /\ series' = <<>>
      /\ UNCHANGED <<clock, view, drift, link, hist, fetch>>
      BY DEF Subscribe, Cleanup, Clear, queries
<1>2. HistoryInv'
      BY <1>1 DEF ChartInv, HistoryInv
<1>3. BufferInv'
      BY <1>1, LiveChartAssumption DEF BufferInv
<1>4. CarriedInv'
      BY <1>1 DEF ChartInv, HistoryInv, CarriedInv
<1> QED BY <1>2, <1>3, <1>4 DEF ChartInv

LEMMA TickKeeps == ChartInv /\ LinkTypeOK /\ Tick => ChartInv'
<1> SUFFICES ASSUME ChartInv, LinkTypeOK, Tick PROVE ChartInv'
    OBVIOUS
<1> USE LiveChartAssumption
<1>1. /\ clock' = clock + 1 /\ clock' \in 1..MaxClock /\ clock \in Nat
      /\ UNCHANGED <<view, sub, series, since, hist, fetch>>
      BY DEF Tick, queries, ChartInv, HistoryInv
<1>2. PICK now \in States \cup {"rejected"} :
         /\ link' = Append(link, now)
         /\ \/ now # "open" /\ now # "rejected" /\ UNCHANGED <<ring, raf, drift>>
            \/ now = "open" /\ HandleMessage(TRUE)
            \/ now = "rejected" /\ HandleMessage(FALSE)
      BY DEF Tick, LinkTypeOK, States
<1>3. /\ link' \in Seq(States \cup {"rejected"}) /\ Len(link') = clock'
      /\ link'[clock'] = now /\ \A t \in 1..clock : link'[t] = link[t]
  <2>1. link \in Seq(States \cup {"rejected"}) /\ Len(link) = clock
        BY DEF ChartInv, HistoryInv
  <2>2. /\ link' \in Seq(States \cup {"rejected"}) /\ Len(link') = Len(link) + 1
        /\ link'[Len(link) + 1] = now /\ \A t \in 1..Len(link) : link'[t] = link[t]
        BY <1>2, <2>1, AppendProperties
  <2> QED BY <1>1, <2>1, <2>2
<1>4. drift' \in BOOLEAN /\ (drift => drift') /\ (now = "rejected" => drift')
      BY <1>2 DEF HandleMessage, ChartInv, HistoryInv
<1>5. HistoryInv'
      BY <1>1, <1>3, <1>4 DEF ChartInv, HistoryInv
<1>6. CASE now = "open"
  <2>1. Receive(sub, clock') /\ UNCHANGED drift /\ link' = Append(link, "open")
        BY <1>2, <1>6 DEF HandleMessage
  <2> QED BY <1>1, <1>5, <2>1, ReceiveKeeps DEF ChartInv
<1>7. CASE now # "open"
  <2>1. UNCHANGED <<ring, raf>>
        BY <1>2, <1>7 DEF HandleMessage
  <2>2. /\ \A i \in 1..Len(ring) : ring[i].ts \in Int
        /\ \A i \in 1..Len(series) : series[i].ts \in Int
        BY SamplesDated DEF ChartInv, BufferInv
  <2>3. BufferInv'
        BY <1>1, <2>1, <2>2 DEF ChartInv, BufferInv
  <2>4. CarriedInv'
    <3>1. ASSUME NEW t \in since+1 .. clock', link'[t] = "open", t > clock' - Capacity
          PROVE  \E i \in 1..Len(ring) : ring[i] = Sample(sub, t)
      <4>1. t \in since+1 .. clock /\ t \in 1..clock /\ t > clock - Capacity
            BY <1>1, <1>3, <1>7, <3>1 DEF ChartInv, HistoryInv
      <4> QED BY <1>3, <3>1, <4>1 DEF ChartInv, CarriedInv
    <3>2. ASSUME NEW t \in 1..clock', link'[t] = "rejected" PROVE drift'
          BY <1>1, <1>3, <1>4, <3>2 DEF ChartInv, CarriedInv
    <3> QED BY <1>1, <1>3, <1>7, <2>1, <3>1, <3>2 DEF CarriedInv, Sample
  <2> QED BY <1>5, <2>3, <2>4 DEF ChartInv
<1> QED BY <1>6, <1>7

LEMMA ChartStart == Init => LinkInv /\ ChartInv
<1> SUFFICES ASSUME Init PROVE LinkInv /\ ChartInv
    OBVIOUS
<1> USE LiveChartAssumption
<1>1. LinkInv
      BY LinkStarts DEF Init
<1>2. HistoryInv
  <2>1. clock = 0 /\ link = <<>> /\ since = 0 /\ drift = FALSE /\ view \in Greenhouses /\ sub = view
        BY DEF Init
  <2>2. hist \in [Greenhouses -> 0..clock] /\ fetch \in [Greenhouses -> 0..clock \cup {NoFetch}]
        BY <2>1 DEF Init
  <2>3. link \in Seq(States \cup {"rejected"}) /\ Len(link) = 0
        BY <2>1
  <2>4. clock \in 0..MaxClock /\ since \in 0..clock
        BY <2>1
  <2>5. drift \in BOOLEAN
        BY <2>1
  <2> QED BY <2>1, <2>2, <2>3, <2>4, <2>5 DEF HistoryInv
<1>3. BufferInv /\ CarriedInv
      BY DEF Init, BufferInv, CarriedInv
<1> QED BY <1>1, <1>2, <1>3 DEF ChartInv

LEMMA ChartStep == LinkInv /\ ChartInv /\ [Next]_vars => LinkInv' /\ ChartInv'
<1> SUFFICES ASSUME LinkInv, ChartInv, [Next]_vars PROVE LinkInv' /\ ChartInv'
    OBVIOUS
<1> USE LiveChartAssumption
<1>1. [LinkNext]_linkVars
      BY DEF Next, vars, Link, Tick, Subscribe, Flush, Navigate, PickRange, Answered
<1>2. LinkInv'
      BY <1>1, LinkStepKeeps
<1>3. CASE Link \/ UNCHANGED vars
  <2>1. UNCHANGED chartVars
        BY <1>3 DEF Link, vars
  <2> QED BY <1>2, <2>1 DEF chartVars, drawn, queries, ChartInv, HistoryInv, BufferInv, CarriedInv, Last
<1>4. CASE Tick
      BY <1>2, <1>4, TickKeeps DEF LinkInv
<1>5. CASE Subscribe
      BY <1>2, <1>5, SubscribeKeeps
<1>6. CASE Flush
  <2>1. raf' = "none" /\ series' = ring
        /\ UNCHANGED <<clock, view, sub, ring, drift, since, link, hist, fetch>>
        BY <1>6 DEF Flush, queries
  <2>2. \A i \in 1..Len(ring) : ring[i].gh = sub /\ ring[i].ts <= clock
        BY SamplesDated DEF ChartInv, HistoryInv, BufferInv
  <2> QED BY <1>2, <2>1, <2>2 DEF ChartInv, HistoryInv, BufferInv, CarriedInv, Last
<1>7. CASE Navigate \/ PickRange \/ \E g \in Greenhouses : Answered(g)
  <2>1. UNCHANGED <<clock, sub, ring, raf, series, drift, since, link>>
        BY <1>7 DEF Navigate, PickRange, Answered, drawn
  <2>2. view' \in Greenhouses /\ hist' \in [Greenhouses -> 0..clock]
        /\ fetch' \in [Greenhouses -> 0..clock \cup {NoFetch}]
    <3>1. CASE Navigate
          BY <3>1 DEF Navigate, Query, ChartInv, HistoryInv
    <3>2. CASE PickRange
          BY <3>2 DEF PickRange, drawn, ChartInv, HistoryInv
    <3>3. CASE \E g \in Greenhouses : Answered(g)
          BY <3>3 DEF Answered, drawn, ChartInv, HistoryInv
    <3> QED BY <1>7, <3>1, <3>2, <3>3
  <2> QED BY <1>2, <2>1, <2>2 DEF ChartInv, HistoryInv, BufferInv, CarriedInv, Last
<1> QED BY <1>3, <1>4, <1>5, <1>6, <1>7 DEF Next

THEOREM ChartInvariant == Spec => [](LinkInv /\ ChartInv)
BY ChartStart, ChartStep, PTL DEF Spec

-----------------------------------------------------------------------------
(* For any capacity and window, every variable of the chart and of the     *)
(* link keeps its range: the buffer never outgrows its capacity, and the   *)
(* drawn copy is one of samples (useLiveSeries.ts).                        *)
THEOREM ChartTypeCorrect == Spec => []TypeOK
<1>1. LinkInv /\ ChartInv => TypeOK
      BY LiveChartAssumption DEF LinkInv, ChartInv, HistoryInv, BufferInv, TypeOK
<1> QED BY <1>1, ChartInvariant, PTL

(* For any greenhouses, capacity and window, the chart of a greenhouse     *)
(* whose hooks have subscribed holds no other greenhouse's sample: the     *)
(* effect's cleanup and reset leave nothing to flush (useLiveSeries.ts).   *)
THEOREM ChartIsOfOneGreenhouse == Spec => []OnlyThisGreenhouse
<1>1. ChartInv => OnlyThisGreenhouse
      BY DEF ChartInv, BufferInv, OnlyThisGreenhouse, Points, Merged, History, LiveEdge, Sample
<1> QED BY <1>1, ChartInvariant, PTL

(* For any capacity and window, what the open socket carried since the     *)
(* greenhouse was opened, and both reach, is on the chart or about to be   *)
(* flushed to it, the actuator panel shows the newest of it, and a         *)
(* rejected frame is admitted by the badge (useLiveSeries.ts,              *)
(* useLiveActuators.ts, mergeReadings of derivations.ts).                  *)
THEOREM WhatTheSocketCarriedIsDrawn == Spec => []CarriedIsDrawn
<1>1. ChartInv => CarriedIsDrawn
  <2> SUFFICES ASSUME ChartInv, sub = view
               PROVE  /\ \/ raf = "pending"
                         \/ \A t \in since+1 .. clock :
                               t > clock - Capacity /\ t > clock - Window /\ link[t] = "open"
                                   => Sample(view, t) \in Points
                      /\ clock > since /\ link[clock] = "open"
                            => LatestActuators(LiveActuators) = clock
                      /\ \A t \in 1..clock : link[t] = "rejected" => drift
      BY DEF CarriedIsDrawn
  <2> USE LiveChartAssumption
  <2>1. ASSUME raf # "pending", NEW t \in since+1 .. clock, t > clock - Capacity,
               t > clock - Window, link[t] = "open"
        PROVE  Sample(view, t) \in Points
    <3>1. PICK i \in 1..Len(series) : series[i] = Sample(view, t)
          BY <2>1 DEF ChartInv, CarriedInv, BufferInv
    <3>2. Sample(view, t) \in LiveEdge
          BY <3>1 DEF LiveEdge
    <3>3. ASSUME NEW s \in History(view) \cup LiveEdge
          PROVE  t >= s.ts - Window
      <4>1. s.ts <= clock /\ s.ts \in Int
        <5>1. CASE s \in History(view)
              BY <5>1 DEF History, Sample, ChartInv, HistoryInv
        <5>2. CASE s \in LiveEdge
          <6>1. PICK j \in 1..Len(series) : s = series[j]
                BY <5>2 DEF LiveEdge
          <6> QED BY <6>1, SamplesDated DEF ChartInv, BufferInv
        <5> QED BY <5>1, <5>2
      <4> QED BY <2>1, <4>1 DEF ChartInv, HistoryInv
    <3> QED BY <3>2, <3>3 DEF Points, Merged, Sample
  <2>2. ASSUME clock > since, link[clock] = "open"
        PROVE  LatestActuators(LiveActuators) = clock
        BY <2>2 DEF LatestActuators, LiveActuators, ChartInv, HistoryInv, CarriedInv, Last
  <2>3. \A t \in 1..clock : link[t] = "rejected" => drift
        BY DEF ChartInv, CarriedInv
  <2> QED BY <2>1, <2>2, <2>3
<1> QED BY <1>1, ChartInvariant, PTL
=============================================================================
