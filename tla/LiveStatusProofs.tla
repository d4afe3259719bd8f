-------------------------- MODULE LiveStatusProofs --------------------------
(***************************************************************************)
(* Proofs about the platform's up path, for any dashboards, faults, queue  *)
(* length and horizons: types, and that a dashboard which missed no frame  *)
(* shows the active faults once it has read what was sent to it.           *)
(***************************************************************************)
EXTENDS LiveStatus, SequenceTheorems, TLAPS

(* The handler is on a message of the kind its next step handles.          *)
MsgInv ==
    /\ pc \in {"scale", "faults", "alerts"} => msg.kind = "state"
    /\ pc = "observe" => msg.kind \in {"sample", "fault", "state"}

UpInv == TypeOK /\ MsgInv

-----------------------------------------------------------------------------
(* The fleet's functions on entries.                                       *)
LEMMA UnseenType == Unseen \in Entry
BY LiveStatusAssumption DEF Unseen, Entry, Status

LEMMA EnsureType == ASSUME TypeOK PROVE Ensure \in Entry
BY UnseenType DEF Ensure, TypeOK

LEMMA RefreshedType ==
    ASSUME NEW e \in Entry
    PROVE  Refreshed(e) \in Entry /\ Refreshed(e).faults = e.faults
<1>1. Derived(e) \in Status
      BY DEF Derived, Status
<1> HIDE DEF Derived
<1> QED BY <1>1 DEF Refreshed, Entry

LEMMA ObservedType ==
    ASSUME UpInv, pc = "observe"
    PROVE  Observed \in Entry /\ Observed.faults = Ensure.faults
<1> DEFINE d == CASE msg.kind = "sample" -> Ensure.degraded
                  [] msg.kind = "fault"  -> TRUE
                  [] msg.kind = "state"  -> msg.degraded
<1>1. Ensure \in Entry /\ Ensure.degraded \in BOOLEAN
      BY EnsureType DEF UpInv, Entry
<1>2. d \in BOOLEAN
      BY <1>1 DEF UpInv, MsgInv, TypeOK, Message
<1>3. Observed = [Ensure EXCEPT !.age = 0, !.degraded = d]
      BY <1>1 DEF Observed, Entry
<1> HIDE DEF d
<1>4. 0 \in 0..MaxAge
      BY LiveStatusAssumption
<1> QED BY <1>1, <1>2, <1>3, <1>4 DEF Entry

LEMMA FrameTypes ==
    /\ Data \in Frame /\ Data.type # "alerts"
    /\ \A e \in Entry : StatusFrame(e) \in Frame /\ StatusFrame(e).type # "alerts"
    /\ \A a \in SUBSET Faults :
          AlertsFrame(a) \in Frame /\ AlertsFrame(a).type = "alerts" /\ AlertsFrame(a).faults = a
<1>1. Data \in Frame /\ Data.type # "alerts"
      BY DEF Data, Frame, Status
<1>2. ASSUME NEW e \in Entry PROVE StatusFrame(e) \in Frame /\ StatusFrame(e).type # "alerts"
  <2>1. e.status \in Status
        BY DEF Entry
  <2> QED BY <2>1 DEF StatusFrame, Data, Frame
<1>3. ASSUME NEW a \in SUBSET Faults
      PROVE  AlertsFrame(a) \in Frame /\ AlertsFrame(a).type = "alerts" /\ AlertsFrame(a).faults = a
      BY DEF AlertsFrame, Data, Frame, Status
<1> QED BY <1>1, <1>2, <1>3

LEMMA MessageTypes == None \in Message /\ Messages \subseteq Message
    /\ \A m \in Messages : m.kind \in {"sample", "fault", "state"}
BY LiveStatusAssumption DEF None, Message, Messages

(* What Observe hands to be broadcast.                                     *)
ObserveOut ==
    LET first == IF msg.kind = "state" THEN <<>> ELSE <<Data>>
        changed == entry'.status # Ensure.status \/ rescaled
    IN first \o (IF changed THEN <<StatusFrame(entry')>> ELSE <<>>)

NoAlerts(q) == \A i \in 1..Len(q) : q[i].type # "alerts"

LEMMA ObserveOutType ==
    ASSUME entry' \in Entry
    PROVE  ObserveOut \in Seq(Frame) /\ NoAlerts(ObserveOut)
<1>1. StatusFrame(entry') \in Frame /\ StatusFrame(entry').type # "alerts"
      BY FrameTypes
<1>2. Data \in Frame /\ Data.type # "alerts"
      BY FrameTypes
<1> DEFINE sf == StatusFrame(entry')
           first == IF msg.kind = "state" THEN <<>> ELSE <<Data>>
           second == IF entry'.status # Ensure.status \/ rescaled THEN <<sf>> ELSE <<>>
<1> HIDE DEF sf
<1>3. first \in Seq(Frame) /\ Len(first) \in 0..1 /\ (Len(first) = 1 => first[1] = Data)
      BY <1>2
<1>4. second \in Seq(Frame) /\ Len(second) \in 0..1 /\ (Len(second) = 1 => second[1] = sf)
      BY <1>1 DEF sf
<1>5. ObserveOut = first \o second
      BY DEF ObserveOut, sf
<1> HIDE DEF first, second
<1>6. /\ first \o second \in Seq(Frame) /\ Len(first \o second) = Len(first) + Len(second)
      /\ \A i \in 1 .. Len(first) + Len(second) :
            (first \o second)[i] = IF i <= Len(first) THEN first[i] ELSE second[i - Len(first)]
      BY <1>3, <1>4, ConcatProperties
<1>7. ASSUME NEW i \in 1..Len(first \o second) PROVE (first \o second)[i].type # "alerts"
      BY <1>1, <1>2, <1>3, <1>4, <1>6 DEF sf
<1> QED BY <1>5, <1>6, <1>7 DEF NoAlerts

-----------------------------------------------------------------------------
(* Types.  Handling a message, one lemma per step.                         *)
LEMMA HandleTypes == ASSUME UpInv, Receive \/ Handle PROVE UpInv'
<1> USE DEF UpInv
<1>1. CASE Receive
  <2>1. msg' \in Message /\ msg'.kind \in {"sample", "fault", "state"}
        BY <1>1, MessageTypes DEF Receive
  <2>2. TypeOK'
        BY <1>1, <2>1 DEF Receive, TypeOK, registry, hub, boards
  <2>3. MsgInv'
        BY <1>1, <2>1 DEF Receive, MsgInv
  <2> QED BY <2>2, <2>3
<1>2. CASE SetTimeScale
  <2>1. entry' \in Entry
    <3>1. Ensure \in Entry /\ msg.scale \in Scales
          BY EnsureType DEF TypeOK, Message
    <3> QED BY <1>2, <3>1 DEF SetTimeScale, Entry
  <2>2. TypeOK'
        BY <1>2, <2>1 DEF SetTimeScale, TypeOK, registry, hub, boards
  <2> QED BY <1>2, <2>2 DEF SetTimeScale, MsgInv
<1>3. CASE SetActiveFaults
  <2>1. entry' \in Entry
    <3>1. Ensure \in Entry /\ msg.faults \in SUBSET Faults
          BY EnsureType DEF TypeOK, Message
    <3> QED BY <1>3, <3>1 DEF SetActiveFaults, Entry
  <2>2. TypeOK'
        BY <1>3, <2>1 DEF SetActiveFaults, TypeOK, registry, hub, boards
  <2>3. MsgInv'
        BY <1>3 DEF SetActiveFaults, MsgInv
  <2> QED BY <2>2, <2>3
<1>4. CASE BroadcastAlerts
  <2> DEFINE a == IF entry = NoEntry THEN {} ELSE entry.faults
  <2>1. AlertsFrame(a) \in Frame
    <3>1. a \in SUBSET Faults
          BY DEF TypeOK, Entry
    <3> QED BY <3>1, FrameTypes
  <2>2. <<AlertsFrame(a)>> \in Seq(Frame)
        BY <2>1
  <2>3. out' \in [Goroutines -> Seq(Frame)]
        BY <1>4, <2>2 DEF BroadcastAlerts, TypeOK
  <2>4. TypeOK'
        BY <1>4, <2>3 DEF BroadcastAlerts, TypeOK, registry, boards
  <2>5. MsgInv'
        BY <1>4 DEF BroadcastAlerts, MsgInv
  <2> QED BY <2>4, <2>5
<1>5. CASE Observe
  <2>1. entry' \in Entry
        BY <1>5, ObservedType, RefreshedType DEF Observe
  <2>2. out' = [out EXCEPT !["ingest"] = ObserveOut] /\ ObserveOut \in Seq(Frame)
        BY <1>5, <2>1, ObserveOutType DEF Observe, ObserveOut
  <2>3. out' \in [Goroutines -> Seq(Frame)]
        BY <2>2 DEF TypeOK
  <2>4. TypeOK'
        BY <1>5, <2>1, <2>3, MessageTypes DEF Observe, TypeOK, registry, boards
  <2>5. MsgInv'
        BY <1>5 DEF Observe, MsgInv
  <2> QED BY <2>4, <2>5
<1> QED BY <1>1, <1>2, <1>3, <1>4, <1>5 DEF Handle

(* The sweep, the passing of time and the registry.                        *)
LEMMA BackgroundTypes == ASSUME UpInv, Sweep \/ Age \/ Administer PROVE UpInv'
<1> USE DEF UpInv
<1>1. CASE Sweep
  <2>1. entry' \in Entry
        BY <1>1, RefreshedType DEF Sweep, TypeOK
  <2>2. <<StatusFrame(entry')>> \in Seq(Frame)
    <3>1. StatusFrame(entry') \in Frame
          BY <2>1, FrameTypes
    <3> QED BY <3>1
  <2>3. out' \in [Goroutines -> Seq(Frame)]
        BY <1>1, <2>2 DEF Sweep, TypeOK
  <2>4. TypeOK'
        BY <1>1, <2>1, <2>3 DEF Sweep, TypeOK, registry, boards
  <2> QED BY <1>1, <2>4 DEF Sweep, MsgInv
<1>2. CASE Age
  <2>1. entry' \in Entry
    <3>1. entry \in Entry /\ entry.age + 1 \in 0..MaxAge
          BY <1>2, LiveStatusAssumption DEF Age, TypeOK, Entry
    <3> QED BY <1>2, <3>1 DEF Age, Entry
  <2>2. TypeOK'
        BY <1>2, <2>1 DEF Age, TypeOK, registry, hub, boards
  <2> QED BY <1>2, <2>2 DEF Age, MsgInv
<1>3. CASE Administer
  <2>1. registered' \in BOOLEAN /\ known' \in BOOLEAN
        BY <1>3 DEF Administer, RetireRow, Forget, RemoveEntry, RegisterRow, Add, TypeOK
  <2>2. admin' \subseteq {"retire", "remove", "register"} /\ retires' \in 0..MaxRetires
    <3>1. admin \subseteq {"retire", "remove", "register"} /\ retires \in 0..MaxRetires
          BY DEF TypeOK
    <3>2. \/ admin' = admin \cup {"retire"} \/ admin' = (admin \ {"retire"}) \cup {"remove"}
          \/ admin' = admin \ {"remove"} \/ admin' = admin \cup {"register"}
          \/ admin' = admin \ {"register"}
          BY <1>3 DEF Administer, RetireRow, Forget, RemoveEntry, RegisterRow, Add
    <3>3. retires' = retires \/ (retires < MaxRetires /\ retires' = retires + 1)
          BY <1>3 DEF Administer, RetireRow, Forget, RemoveEntry, RegisterRow, Add
    <3>4. admin' \subseteq {"retire", "remove", "register"}
          BY <3>1, <3>2
    <3>5. retires' \in 0..MaxRetires
          BY <3>1, <3>3, LiveStatusAssumption
    <3> QED BY <3>4, <3>5
  <2>3. entry' \in {entry, NoEntry} /\ UNCHANGED <<pc, msg, rescaled, hub, boards>>
        BY <1>3 DEF Administer, RetireRow, Forget, RemoveEntry, RegisterRow, Add, ingest
  <2>4. TypeOK'
        BY <2>1, <2>2, <2>3 DEF TypeOK, hub, boards
  <2> QED BY <2>3, <2>4 DEF MsgInv
<1> QED BY <1>1, <1>2, <1>3

(* What a broadcast leaves in a subscriber's queue.                        *)
LEMMA BroadcastQueue ==
    ASSUME UpInv, NEW g \in Goroutines, Broadcast(g)
    PROVE  /\ Head(out[g]) \in Frame /\ Tail(out[g]) \in Seq(Frame)
           /\ Head(out[g]) = out[g][1]
           /\ \A s \in Subs : /\ buf'[s] \in Seq(Frame) /\ Len(buf'[s]) <= Buffer
                              /\ (s \in open /\ Room(s) => buf'[s] = Append(buf[s], Head(out[g])))
                              /\ ~(s \in open /\ Room(s)) => buf'[s] = buf[s]
<1>1. Head(out[g]) \in Frame /\ Tail(out[g]) \in Seq(Frame) /\ Head(out[g]) = out[g][1]
  <2>1. out[g] \in Seq(Frame) /\ out[g] # <<>>
        BY DEF UpInv, TypeOK, Broadcast
  <2> QED BY <2>1, HeadTailProperties
<1> DEFINE f == Head(out[g])
<1> HIDE DEF f
<1>2. ASSUME NEW s \in Subs
      PROVE  /\ buf'[s] \in Seq(Frame) /\ Len(buf'[s]) <= Buffer
             /\ (s \in open /\ Room(s) => buf'[s] = Append(buf[s], f))
             /\ ~(s \in open /\ Room(s)) => buf'[s] = buf[s]
  <2>1. buf[s] \in Seq(Frame) /\ Len(buf[s]) <= Buffer /\ f \in Frame
        BY <1>1 DEF UpInv, TypeOK, f
  <2>2. Append(buf[s], f) \in Seq(Frame) /\ Len(Append(buf[s], f)) = Len(buf[s]) + 1
        BY <2>1, AppendProperties
  <2>3. buf'[s] = IF s \in open /\ Room(s) THEN Append(buf[s], f) ELSE buf[s]
        BY DEF Broadcast, f
  <2>4. Room(s) => Len(buf[s]) + 1 <= Buffer
        BY <2>1, LiveStatusAssumption DEF Room
  <2> QED BY <2>1, <2>2, <2>3, <2>4
<1> QED BY <1>1, <1>2 DEF f

LEMMA BroadcastTypes == ASSUME UpInv, NEW g \in Goroutines, Broadcast(g) PROVE UpInv'
<1>1. buf' \in [Subs -> Seq(Frame)] /\ \A s \in Subs : Len(buf'[s]) <= Buffer
  <2>1. DOMAIN buf' = Subs /\ buf' = [s \in Subs |-> buf'[s]]
        BY DEF Broadcast
  <2> QED BY <2>1, BroadcastQueue
<1>2. out' \in [Goroutines -> Seq(Frame)]
      BY BroadcastQueue DEF Broadcast, UpInv, TypeOK
<1>3. TypeOK'
      BY <1>1, <1>2 DEF Broadcast, UpInv, TypeOK, registry, ingest, boards
<1> QED BY <1>3 DEF Broadcast, ingest, UpInv, MsgInv

(* Dashboards.                                                             *)
LEMMA ReadQueue ==
    ASSUME UpInv, NEW s \in Subs, buf[s] # <<>>
    PROVE  /\ Head(buf[s]) \in Frame /\ Head(buf[s]) = buf[s][1]
           /\ Tail(buf[s]) \in Seq(Frame) /\ Len(Tail(buf[s])) = Len(buf[s]) - 1
           /\ \A i \in 1..Len(Tail(buf[s])) : Tail(buf[s])[i] = buf[s][i + 1]
<1>1. buf[s] \in Seq(Frame)
      BY DEF UpInv, TypeOK
<1> QED BY <1>1, HeadTailProperties

LEMMA LinkTypes == ASSUME UpInv, NEW s \in Subs, Refresh(s) \/ Link(s) PROVE UpInv'
<1> USE DEF UpInv
<1>1. CASE Connect(s)
      BY <1>1 DEF Connect, TypeOK, MsgInv, registry, ingest, boards
<1>2. CASE Disconnect(s)
  <2>1. buf' \in [Subs -> Seq(Frame)] /\ \A t \in Subs : Len(buf'[t]) <= Buffer
        BY <1>2, LiveStatusAssumption DEF Disconnect, TypeOK
  <2> QED BY <1>2, <2>1 DEF Disconnect, TypeOK, MsgInv, registry, ingest, boards
<1>3. CASE ReadFrame(s)
  <2> DEFINE f == Head(buf[s])
  <2>1. /\ f \in Frame /\ Tail(buf[s]) \in Seq(Frame) /\ Len(Tail(buf[s])) <= Buffer
    <3>1. Len(buf[s]) \in Nat /\ Len(buf[s]) <= Buffer /\ Buffer \in Nat
          BY LiveStatusAssumption DEF TypeOK
    <3> QED BY <1>3, <3>1, ReadQueue DEF ReadFrame
  <2>2. buf' \in [Subs -> Seq(Frame)] /\ \A t \in Subs : Len(buf'[t]) <= Buffer
        BY <1>3, <2>1 DEF ReadFrame, TypeOK
  <2>3. f.status \in Status /\ f.faults \in SUBSET Faults
        BY <2>1 DEF Frame
  <2>4. Patched(card[s], f) \in Status \cup {"absent"}
        BY <2>3 DEF Patched, TypeOK
  <2>5. card' \in [Subs -> Status \cup {"absent"}] /\ alerts' \in [Subs -> SUBSET Faults]
        BY <1>3, <2>3, <2>4 DEF ReadFrame, TypeOK
  <2> QED BY <1>3, <2>2, <2>5 DEF ReadFrame, TypeOK, MsgInv, registry, ingest
<1>4. CASE Poll(s)
  <2>1. Answer \in Status \cup {"absent"}
        BY EnsureType DEF Answer, Entry
  <2> QED BY <1>4, <2>1 DEF Poll, TypeOK, MsgInv, registry, ingest, hub
<1>5. CASE PollAnswered(s)
      BY <1>5 DEF PollAnswered, TypeOK, MsgInv, registry, ingest, hub
<1> QED BY <1>1, <1>2, <1>3, <1>4, <1>5 DEF Refresh, Link

LEMMA UpStart == Init => UpInv
<1> SUFFICES ASSUME Init PROVE UpInv
    OBVIOUS
<1>1. out \in [Goroutines -> Seq(Frame)] /\ buf \in [Subs -> Seq(Frame)]
      /\ \A s \in Subs : Len(buf[s]) <= Buffer
      BY LiveStatusAssumption DEF Init
<1>2. card \in [Subs -> Status \cup {"absent"}]
      BY DEF Init, Status
<1>3. registered \in BOOLEAN /\ known \in BOOLEAN /\ rescaled \in BOOLEAN
      BY DEF Init
<1>4. alerts \in [Subs -> SUBSET Faults] /\ answer \in [Subs -> Status \cup {"absent", NoAnswer}]
      BY DEF Init
<1>5. retires \in 0..MaxRetires
      BY LiveStatusAssumption DEF Init
<1>6. msg \in Message
      BY MessageTypes DEF Init
<1>7. TypeOK
      BY <1>1, <1>2, <1>3, <1>4, <1>5, <1>6 DEF Init, TypeOK
<1> QED BY <1>7 DEF Init, UpInv, MsgInv

LEMMA UpStep == UpInv /\ [Next]_vars => UpInv'
<1> SUFFICES ASSUME UpInv, [Next]_vars PROVE UpInv'
    OBVIOUS
<1>1. CASE UNCHANGED vars
      BY <1>1 DEF vars, registry, ingest, hub, boards, UpInv, TypeOK, MsgInv
<1> QED BY <1>1, HandleTypes, BackgroundTypes, BroadcastTypes, LinkTypes DEF Next

(* The platform's live state, every frame on its way and every dashboard   *)
(* keep their types, and no subscriber's queue (hub.go's subscriberBuffer) *)
(* ever holds more than Buffer frames, whatever is broadcast to it.        *)
THEOREM LiveTypeCorrect == Spec => []TypeOK
<1>1. Spec => []UpInv
      BY UpStart, UpStep, PTL DEF Spec
<1> QED BY <1>1, PTL DEF UpInv

-----------------------------------------------------------------------------
(* Only a state message's second step hands an alerts frame over, and with *)
(* nothing else; nobody retires the greenhouse while retires is 0.         *)
Pending == pc = "observe" /\ out["ingest"] # <<>>
OutInv ==
    /\ NoAlerts(out["sweep"])
    /\ pc = "idle" => NoAlerts(out["ingest"])
    /\ pc \in {"scale", "faults", "alerts"} => out["ingest"] = <<>>
    /\ Pending => /\ Len(out["ingest"]) = 1 /\ out["ingest"][1].type = "alerts"
                  /\ retires = 0 => out["ingest"][1].faults = Ensure.faults
    /\ retires = 0 => admin \cap {"retire", "remove"} = {}

(* After reading q, a dashboard that shows d will show F.                  *)
Leads(q, d, F) ==
    /\ NoAlerts(q) => d = F
    /\ \A i \in 1..Len(q) :
          q[i].type = "alerts" /\ (\A j \in (i + 1)..Len(q) : q[j].type # "alerts")
             => q[i].faults = F

Settled    == retires = 0 /\ pc # "alerts" /\ ~Pending
BoardsInv  ==
    \A s \in Subs \ gap : s \in open /\ (Settled => Leads(buf[s], alerts[s], Ensure.faults))
AlertsInv  == UpInv /\ OutInv /\ BoardsInv

-----------------------------------------------------------------------------
(* What a queue leads to when a frame joins it or its head is read.        *)
LEMMA LeadsEmpty == ASSUME NEW d, NEW F, Leads(<<>>, d, F) PROVE d = F
BY DEF Leads, NoAlerts

LEMMA LeadsAppend ==
    ASSUME NEW q \in Seq(Frame), NEW f \in Frame, NEW d, NEW F,
           f.type # "alerts" => Leads(q, d, F),
           f.type = "alerts" => f.faults = F
    PROVE  Leads(Append(q, f), d, F)
<1> DEFINE a == Append(q, f)
           n == Len(q)
<1>1. /\ n \in Nat /\ Len(a) = n + 1 /\ a[n + 1] = f /\ \A i \in 1..n : a[i] = q[i]
      BY AppendProperties
<1> HIDE DEF a, n
<1>2. CASE f.type = "alerts"
  <2>1. ~NoAlerts(a)
        BY <1>1, <1>2 DEF NoAlerts
  <2>2. ASSUME NEW i \in 1..Len(a), \A j \in (i + 1)..Len(a) : a[j].type # "alerts"
        PROVE  a[i].faults = F
        BY <1>1, <1>2, <2>2
  <2> QED BY <2>1, <2>2 DEF Leads, a
<1>3. CASE f.type # "alerts"
  <2>1. NoAlerts(a) => NoAlerts(q)
        BY <1>1 DEF NoAlerts, n
  <2>2. ASSUME NEW i \in 1..Len(a), a[i].type = "alerts",
               \A j \in (i + 1)..Len(a) : a[j].type # "alerts"
        PROVE  a[i].faults = F
    <3>1. i \in 1..n /\ q[i].type = "alerts" /\ q[i] = a[i]
          BY <1>1, <1>3, <2>2
    <3>2. \A j \in (i + 1)..n : q[j].type # "alerts"
          BY <1>1, <2>2
    <3> QED BY <1>3, <3>1, <3>2 DEF Leads, n
  <2>3. Leads(q, d, F)
        BY <1>3
  <2> QED BY <2>1, <2>2, <2>3 DEF Leads, a
<1> QED BY <1>2, <1>3

LEMMA LeadsTail ==
    ASSUME UpInv, NEW s \in Subs, buf[s] # <<>>, NEW d, NEW F, Leads(buf[s], d, F)
    PROVE  LET f == Head(buf[s])
           IN  Leads(Tail(buf[s]), IF f.type = "alerts" THEN f.faults ELSE d, F)
<1> DEFINE q == buf[s]
           t == Tail(q)
           f == Head(q)
           e == IF f.type = "alerts" THEN f.faults ELSE d
<1>1. /\ f = q[1] /\ Len(q) \in Nat /\ Len(q) >= 1 /\ Len(t) = Len(q) - 1
      /\ \A i \in 1..Len(t) : t[i] = q[i + 1]
  <2>1. q \in Seq(Frame) /\ q # <<>>
        BY DEF UpInv, TypeOK
  <2>2. Len(q) \in Nat /\ Len(q) # 0
        BY <2>1, EmptySeq, LenProperties
  <2> QED BY <2>2, ReadQueue
<1>2. Leads(q, d, F)
      OBVIOUS
<1> HIDE DEF q, t, f
<1>3. ASSUME NoAlerts(t) PROVE e = F
  <2>1. \A j \in 2..Len(q) : q[j].type # "alerts"
    <3>1. ASSUME NEW j \in 2..Len(q) PROVE q[j].type # "alerts"
      <4>1. (j - 1) \in 1..Len(t) /\ t[j - 1] = q[(j - 1) + 1] /\ (j - 1) + 1 = j
            BY <1>1
      <4> QED BY <1>3, <4>1 DEF NoAlerts
    <3> QED BY <3>1
  <2>2. CASE f.type = "alerts"
        BY <1>1, <1>2, <2>1, <2>2 DEF Leads
  <2>3. CASE f.type # "alerts"
        BY <1>1, <1>2, <2>1, <2>3 DEF Leads, NoAlerts
  <2> QED BY <2>2, <2>3
<1>4. ASSUME NEW i \in 1..Len(t), t[i].type = "alerts",
             \A j \in (i + 1)..Len(t) : t[j].type # "alerts"
      PROVE  t[i].faults = F
  <2>1. i + 1 \in 1..Len(q) /\ q[i + 1].type = "alerts" /\ q[i + 1] = t[i]
        BY <1>1, <1>4
  <2>2. ASSUME NEW j \in (i + 2)..Len(q) PROVE q[j].type # "alerts"
    <3>1. (j - 1) \in (i + 1)..Len(t) /\ t[j - 1] = q[(j - 1) + 1] /\ (j - 1) + 1 = j
          BY <1>1
    <3> QED BY <1>4, <3>1
  <2> QED BY <1>2, <2>1, <2>2 DEF Leads
<1> QED BY <1>3, <1>4 DEF Leads, q, t, f

-----------------------------------------------------------------------------
(* The faults of the entry change in SetActiveFaults and RemoveEntry only. *)
LEMMA SameFaults ==
    ASSUME UpInv, SetTimeScale \/ BroadcastAlerts \/ Observe \/ Sweep \/ Age \/ Receive
    PROVE  Ensure'.faults = Ensure.faults
<1>1. entry \in Entry \cup {NoEntry} /\ Ensure \in Entry /\ NoEntry \notin Entry
      BY EnsureType, LiveStatusAssumption DEF UpInv, TypeOK
<1>2. CASE SetTimeScale
  <2>1. msg.scale \in Scales
        BY DEF UpInv, TypeOK, Message
  <2>2. entry' \in Entry /\ entry'.faults = Ensure.faults
        BY <1>1, <1>2, <2>1 DEF SetTimeScale, Entry
  <2> QED BY <1>1, <2>2 DEF Ensure
<1>3. CASE BroadcastAlerts \/ Receive
      BY <1>3 DEF BroadcastAlerts, Receive, Ensure
<1>4. CASE Observe
  <2>1. entry' \in Entry /\ entry'.faults = Ensure.faults
        BY <1>4, ObservedType, RefreshedType DEF Observe
  <2> QED BY <1>1, <2>1 DEF Ensure
<1>5. CASE Sweep
  <2>1. entry \in Entry /\ entry' \in Entry /\ entry'.faults = entry.faults
        BY <1>1, <1>5, RefreshedType DEF Sweep
  <2> QED BY <1>1, <2>1 DEF Ensure
<1>6. CASE Age
  <2>1. entry \in Entry /\ entry'.faults = entry.faults /\ entry' \in Entry
    <3>1. entry \in Entry /\ entry' = [entry EXCEPT !.age = @ + 1]
          BY <1>1, <1>6 DEF Age
    <3>2. entry.age + 1 \in 0..MaxAge
          BY <1>6, <3>1, LiveStatusAssumption DEF Age, Entry
    <3> QED BY <3>1, <3>2 DEF Entry
  <2> QED BY <1>1, <2>1 DEF Ensure
<1> QED BY <1>2, <1>3, <1>4, <1>5, <1>6

LEMMA OutHandle == ASSUME AlertsInv, Receive \/ Handle PROVE OutInv'
<1> USE DEF AlertsInv
<1>1. CASE Receive
      BY <1>1 DEF Receive, OutInv, Pending, Idle, registry, hub
<1>2. CASE SetTimeScale
      BY <1>2 DEF SetTimeScale, OutInv, Pending, registry, hub
<1>3. CASE SetActiveFaults
      BY <1>3 DEF SetActiveFaults, OutInv, Pending, registry, hub
<1>4. CASE BroadcastAlerts
  <2> DEFINE a == IF entry = NoEntry THEN {} ELSE entry.faults
             f == AlertsFrame(a)
  <2>1. a = Ensure.faults /\ a = Ensure'.faults /\ a \in SUBSET Faults
        BY <1>4 DEF BroadcastAlerts, Ensure, Unseen, UpInv, TypeOK, Entry
  <2>2. f.type = "alerts" /\ f.faults = Ensure'.faults
        BY <2>1, FrameTypes
  <2>3. out' = [out EXCEPT !["ingest"] = <<f>>] /\ pc' = "observe"
        BY <1>4 DEF BroadcastAlerts
  <2> HIDE DEF f, a
  <2>4. out'["ingest"] = <<f>> /\ out'["sweep"] = out["sweep"]
        BY <2>3 DEF UpInv, TypeOK, Goroutines
  <2>5. NoAlerts(out'["sweep"])
        BY <2>4 DEF OutInv
  <2>6. admin' = admin /\ retires' = retires
        BY <1>4 DEF BroadcastAlerts, registry
  <2> QED BY <2>2, <2>3, <2>4, <2>5, <2>6 DEF OutInv, Pending
<1>5. CASE Observe
  <2>1. entry' \in Entry
        BY <1>5, ObservedType, RefreshedType DEF Observe
  <2>2. out' = [out EXCEPT !["ingest"] = ObserveOut] /\ NoAlerts(ObserveOut) /\ pc' = "idle"
        BY <1>5, <2>1, ObserveOutType DEF Observe, ObserveOut
  <2>3. NoAlerts(out'["ingest"]) /\ out'["sweep"] = out["sweep"]
        BY <2>2 DEF UpInv, TypeOK, Goroutines
  <2>4. admin' = admin /\ retires' = retires
        BY <1>5 DEF Observe, registry
  <2>5. NoAlerts(out'["sweep"])
        BY <2>3 DEF OutInv
  <2> QED BY <2>2, <2>3, <2>4, <2>5 DEF OutInv, Pending
<1> QED BY <1>1, <1>2, <1>3, <1>4, <1>5 DEF Handle

(* A step that touches neither the handler, nor the frames it handed over, *)
(* nor the faults, keeps what is known of them.                            *)
LEMMA OutQuiet ==
    ASSUME OutInv, NoAlerts(out'["sweep"]),
           UNCHANGED <<pc, admin, retires>>, out'["ingest"] = out["ingest"],
           retires = 0 => Ensure'.faults = Ensure.faults
    PROVE  OutInv' /\ (Settled' <=> Settled)
BY DEF OutInv, Pending, Settled

LEMMA OutBroadcast ==
    ASSUME AlertsInv, NEW g \in Goroutines, Broadcast(g)
    PROVE  OutInv'
<1> DEFINE q == out[g]
<1>1. q \in Seq(Frame) /\ q # <<>>
      BY DEF AlertsInv, UpInv, TypeOK, Broadcast
<1>2. /\ Len(q) \in Nat /\ Len(q) # 0 /\ Len(Tail(q)) = Len(q) - 1
      /\ \A i \in 1..Len(Tail(q)) : Tail(q)[i] = q[i + 1]
      BY <1>1, HeadTailProperties, EmptySeq, LenProperties
<1>3. Tail(q) \in Seq(Frame)
      BY <1>1, HeadTailProperties
<1>4. /\ out'[g] = Tail(q) /\ \A o \in Goroutines \ {g} : out'[o] = out[o]
      /\ UNCHANGED <<pc, admin, retires>> /\ entry' = entry
      BY DEF Broadcast, AlertsInv, UpInv, TypeOK, registry, ingest
<1>5. NoAlerts(q) => NoAlerts(Tail(q))
      BY <1>2 DEF NoAlerts
<1>6. Len(q) = 1 => Tail(q) = <<>>
  <2>1. Tail(q) = <<>> <=> Len(Tail(q)) = 0
        BY <1>3, EmptySeq
  <2> QED BY <1>2, <2>1
<1> HIDE DEF q
<1>7. CASE g = "sweep"
  <2>1. NoAlerts(out'["sweep"])
        BY <1>4, <1>5, <1>7 DEF AlertsInv, OutInv, q
  <2>2. out'["ingest"] = out["ingest"] /\ Ensure' = Ensure
        BY <1>4, <1>7 DEF Goroutines, Ensure
  <2> QED BY <1>4, <2>1, <2>2, OutQuiet DEF AlertsInv
<1>8. CASE g = "ingest"
  <2>1. out'["sweep"] = out["sweep"] /\ out'["ingest"] = Tail(q) /\ q = out["ingest"]
        BY <1>4, <1>8 DEF Goroutines, q
  <2>2. pc \notin {"scale", "faults", "alerts"} /\ (pc = "observe" => Len(q) = 1)
        BY <1>1, <2>1 DEF AlertsInv, OutInv, Pending, q
  <2>3. NoAlerts(out'["sweep"])
        BY <2>1 DEF AlertsInv, OutInv
  <2>4. pc = "idle" => NoAlerts(Tail(q))
        BY <1>5, <2>1 DEF AlertsInv, OutInv
  <2> QED BY <1>4, <1>6, <2>1, <2>2, <2>3, <2>4 DEF AlertsInv, OutInv, Pending
<1> QED BY <1>7, <1>8 DEF Goroutines

LEMMA OutBackground ==
    ASSUME AlertsInv, Sweep \/ Age \/ Administer \/ \E s \in Subs : Refresh(s) \/ Link(s)
    PROVE  OutInv'
<1> USE DEF AlertsInv
<1>0. NoAlerts(out["sweep"])
      BY DEF OutInv
<1>1. CASE Sweep
  <2>1. entry' \in Entry
        BY <1>1, RefreshedType DEF Sweep, UpInv, TypeOK
  <2> DEFINE f == StatusFrame(entry')
  <2>2. f.type # "alerts"
        BY <2>1, FrameTypes
  <2>3. out' = [out EXCEPT !["sweep"] = <<f>>]
        BY <1>1 DEF Sweep
  <2> HIDE DEF f
  <2>4. out'["sweep"] = <<f>> /\ out'["ingest"] = out["ingest"]
        BY <2>3 DEF UpInv, TypeOK, Goroutines
  <2>5. NoAlerts(out'["sweep"])
        BY <2>2, <2>4 DEF NoAlerts
  <2>6. UNCHANGED <<pc, admin, retires>> /\ Ensure'.faults = Ensure.faults
        BY <1>1, SameFaults DEF Sweep, registry
  <2> QED BY <2>4, <2>5, <2>6, OutQuiet
<1>2. CASE Age
  <2>1. UNCHANGED <<pc, admin, retires, out>> /\ Ensure'.faults = Ensure.faults
        BY <1>2, SameFaults DEF Age, registry, hub
  <2> QED BY <1>0, <2>1, OutQuiet
<1>3. CASE Administer
  <2>1. UNCHANGED <<pc, out>>
        BY <1>3 DEF Administer, RetireRow, Forget, RemoveEntry, RegisterRow, Add, ingest, hub
  <2>2. retires' = 0 => retires = 0 /\ admin' \cap {"retire", "remove"} = {} /\ entry' = entry
        BY <1>3
        DEF Administer, RetireRow, Forget, RemoveEntry, RegisterRow, Add, ingest,
            UpInv, TypeOK, OutInv
  <2>3. retires' = 0 => Ensure' = Ensure
        BY <2>2 DEF Ensure
  <2> QED BY <2>1, <2>2, <2>3 DEF OutInv, Pending
<1>4. CASE \E s \in Subs : Refresh(s) \/ Link(s)
  <2>1. UNCHANGED <<pc, admin, retires, out, entry>>
        BY <1>4 DEF Refresh, Link, Poll, PollAnswered, Connect, Disconnect, ReadFrame,
                    registry, ingest, hub
  <2>2. Ensure' = Ensure
        BY <2>1 DEF Ensure
  <2> QED BY <1>0, <2>1, <2>2, OutQuiet
<1> QED BY <1>1, <1>2, <1>3, <1>4

(* Dashboards whose queue and alerts a step leaves alone.                  *)
LEMMA BoardsQuiet ==
    ASSUME BoardsInv, UNCHANGED <<open, gap, buf, alerts>>,
           Settled' => Settled /\ Ensure'.faults = Ensure.faults
    PROVE  BoardsInv'
BY DEF BoardsInv

LEMMA BoardsHandle == ASSUME AlertsInv, Receive \/ Handle PROVE BoardsInv'
<1>1. UNCHANGED <<open, gap, buf, alerts, retires>>
      BY DEF Receive, Handle, SetTimeScale, SetActiveFaults, BroadcastAlerts, Observe,
             registry, hub, boards
<1>2. Settled' => Settled /\ Ensure'.faults = Ensure.faults
  <2>1. CASE Receive
        BY <1>1, <2>1, SameFaults DEF Receive, Settled, Pending, AlertsInv
  <2>2. CASE SetTimeScale
        BY <1>1, <2>2, SameFaults DEF SetTimeScale, Settled, Pending, AlertsInv
  <2>3. CASE SetActiveFaults
    <3>1. entry' = [Ensure EXCEPT !.faults = msg.faults] /\ Ensure \in Entry
          BY <2>3, EnsureType DEF SetActiveFaults, AlertsInv, UpInv
    <3>2. entry' \in Entry
      <4>1. msg.faults \in SUBSET Faults
            BY DEF AlertsInv, UpInv, TypeOK, Message
      <4> QED BY <3>1, <4>1 DEF Entry
    <3>3. Ensure'.faults = msg.faults
          BY <3>1, <3>2, LiveStatusAssumption DEF Ensure, Entry
    <3> QED BY <1>1, <2>3, <3>3 DEF SetActiveFaults, FaultsChanged, Settled, Pending
  <2>4. CASE BroadcastAlerts
    <3>1. out'["ingest"] # <<>>
          BY <2>4 DEF BroadcastAlerts, AlertsInv, UpInv, TypeOK, Goroutines
    <3> QED BY <2>4, <3>1 DEF BroadcastAlerts, Settled, Pending
  <2>5. CASE Observe
        BY <1>1, <2>5, SameFaults DEF Observe, Idle, Settled, Pending, AlertsInv
  <2> QED BY <2>1, <2>2, <2>3, <2>4, <2>5 DEF Handle
<1> QED BY <1>1, <1>2, BoardsQuiet DEF AlertsInv

LEMMA BoardsBackground == ASSUME AlertsInv, Sweep \/ Age \/ Administer PROVE BoardsInv'
<1> USE DEF AlertsInv
<1>1. UNCHANGED <<open, gap, buf, alerts>>
      BY DEF Sweep, Age, Administer, RetireRow, Forget, RemoveEntry, RegisterRow, Add, hub, boards
<1>2. CASE Sweep \/ Age
  <2>1. UNCHANGED <<pc, retires>> /\ out'["ingest"] = out["ingest"]
        BY <1>2 DEF Sweep, Age, registry, hub, UpInv, TypeOK, Goroutines
  <2>2. Settled' => Settled
        BY <2>1 DEF Settled, Pending
  <2> QED BY <1>1, <1>2, <2>2, SameFaults, BoardsQuiet
<1>3. CASE Administer
  <2>1. UNCHANGED <<pc, out>>
        BY <1>3 DEF Administer, RetireRow, Forget, RemoveEntry, RegisterRow, Add, ingest, hub
  <2>2. retires' = 0 => retires = 0 /\ entry' = entry
        BY <1>3
        DEF Administer, RetireRow, Forget, RemoveEntry, RegisterRow, Add, ingest,
            UpInv, TypeOK, OutInv
  <2> QED BY <1>1, <2>1, <2>2, BoardsQuiet DEF Settled, Pending, Ensure
<1> QED BY <1>2, <1>3

LEMMA BoardsBroadcast ==
    ASSUME AlertsInv, NEW g \in Goroutines, Broadcast(g)
    PROVE  BoardsInv'
<1> USE DEF AlertsInv
<1> DEFINE f == Head(out[g])
<1>1. /\ f \in Frame /\ f = out[g][1] /\ out[g] \in Seq(Frame) /\ out[g] # <<>>
      /\ \A s \in Subs : s \in open /\ Room(s) => buf'[s] = Append(buf[s], f)
      BY BroadcastQueue DEF Broadcast, UpInv, TypeOK
<1>2. 1 \in 1..Len(out[g])
      BY <1>1, EmptySeq, LenProperties
<1>3. /\ gap' = gap \cup {s \in open : ~Room(s)}
      /\ UNCHANGED <<open, alerts, pc, retires, entry>> /\ Ensure' = Ensure
      BY DEF Broadcast, registry, ingest, boards, Ensure
<1>4. f.type = "alerts" => /\ g = "ingest" /\ pc = "observe"
                           /\ retires = 0 => f.faults = Ensure.faults
      BY <1>1, <1>2 DEF OutInv, NoAlerts, Pending, Goroutines, UpInv, TypeOK
<1>5. f.type # "alerts" /\ Settled' => Settled
  <2>1. CASE g = "ingest"
        BY <1>1, <1>3, <2>1 DEF OutInv, Settled, Pending
  <2>2. CASE g = "sweep"
    <3>1. out'["ingest"] = out["ingest"]
          BY <2>2 DEF Broadcast, UpInv, TypeOK, Goroutines
    <3> QED BY <1>3, <3>1 DEF Settled, Pending
  <2> QED BY <2>1, <2>2 DEF Goroutines
<1> HIDE DEF f
<1>6. ASSUME NEW s \in Subs \ gap'
      PROVE  s \in open' /\ (Settled' => Leads(buf'[s], alerts'[s], Ensure'.faults))
  <2>1. s \in Subs \ gap /\ s \in open /\ Room(s)
        BY <1>3, <1>6 DEF BoardsInv
  <2>2. buf'[s] = Append(buf[s], f) /\ buf[s] \in Seq(Frame)
        BY <1>1, <2>1 DEF UpInv, TypeOK
  <2>3. ASSUME Settled' PROVE Leads(Append(buf[s], f), alerts[s], Ensure.faults)
    <3>1. retires = 0
          BY <1>3, <2>3 DEF Settled
    <3>2. f.type = "alerts" => f.faults = Ensure.faults
          BY <1>4, <3>1
    <3>3. f.type # "alerts" => Leads(buf[s], alerts[s], Ensure.faults)
          BY <1>5, <2>1, <2>3 DEF BoardsInv
    <3> QED BY <1>1, <2>2, <3>2, <3>3, LeadsAppend
  <2> QED BY <1>3, <2>1, <2>2, <2>3
<1> QED BY <1>6 DEF BoardsInv

LEMMA BoardsLink ==
    ASSUME AlertsInv, NEW s \in Subs, Refresh(s) \/ Link(s)
    PROVE  BoardsInv'
<1> USE DEF AlertsInv
<1>1. UNCHANGED <<pc, out, retires, entry>>
      BY DEF Refresh, Link, Poll, PollAnswered, Connect, Disconnect, ReadFrame,
             registry, ingest, hub
<1>2. (Settled' <=> Settled) /\ Ensure' = Ensure
      BY <1>1 DEF Settled, Pending, Ensure
<1>3. CASE Connect(s)
      BY <1>2, <1>3 DEF Connect, BoardsInv, boards
<1>4. CASE Disconnect(s)
      BY <1>2, <1>4 DEF Disconnect, BoardsInv, boards, UpInv, TypeOK
<1>5. CASE ReadFrame(s)
  <2> DEFINE f == Head(buf[s])
  <2>1. /\ \A t \in Subs \ {s} : buf'[t] = buf[t] /\ alerts'[t] = alerts[t]
        /\ buf'[s] = Tail(buf[s]) /\ buf[s] # <<>>
        /\ alerts'[s] = IF f.type = "alerts" THEN f.faults ELSE alerts[s]
        /\ open' = open /\ gap' = gap
        BY <1>5 DEF ReadFrame, UpInv, TypeOK
  <2>2. s \notin gap /\ Settled => Leads(buf'[s], alerts'[s], Ensure.faults)
        BY <2>1, LeadsTail DEF BoardsInv
  <2> HIDE DEF f
  <2> QED BY <1>2, <2>1, <2>2 DEF BoardsInv
<1>6. CASE Refresh(s)
  <2>1. UNCHANGED <<open, gap, buf, alerts>>
        BY <1>6 DEF Refresh, Poll, PollAnswered, hub
  <2> QED BY <1>2, <2>1, BoardsQuiet
<1> QED BY <1>3, <1>4, <1>5, <1>6 DEF Link

LEMMA AlertsStart == Init => AlertsInv
<1> SUFFICES ASSUME Init PROVE AlertsInv
    OBVIOUS
<1>1. UpInv /\ OutInv
      BY UpStart DEF Init, OutInv, Pending, NoAlerts, Goroutines
<1>2. ASSUME NEW s \in Subs PROVE s \in open /\ Leads(buf[s], alerts[s], Ensure.faults)
      BY DEF Init, Leads, NoAlerts, Ensure, Unseen
<1> QED BY <1>1, <1>2 DEF AlertsInv, BoardsInv

LEMMA AlertsStep == AlertsInv /\ [Next]_vars => AlertsInv'
<1> SUFFICES ASSUME AlertsInv, [Next]_vars PROVE AlertsInv'
    OBVIOUS
<1>1. UpInv'
      BY UpStep DEF AlertsInv
<1>2. CASE UNCHANGED vars
  <2>1. UNCHANGED <<open, gap, buf, alerts, pc, out, retires, entry, admin>>
        BY <1>2 DEF vars, registry, ingest, hub, boards
  <2>2. OutInv' /\ BoardsInv'
        BY <2>1, BoardsQuiet DEF AlertsInv, OutInv, Pending, Settled, Ensure
  <2> QED BY <1>1, <2>2 DEF AlertsInv
<1>3. CASE Next
  <2>1. OutInv'
        BY <1>3, OutHandle, OutBroadcast, OutBackground DEF Next
  <2>2. BoardsInv'
        BY <1>3, BoardsHandle, BoardsBackground, BoardsBroadcast, BoardsLink DEF Next
  <2> QED BY <1>1, <2>1, <2>2 DEF AlertsInv
<1> QED BY <1>2, <1>3

(* While its greenhouse stays registered, a dashboard that missed no frame *)
(* and has read all it was sent shows exactly the active faults: for any   *)
(* number of dashboards and faults, any queue length and any horizons.     *)
(* SetActiveFaults (snapshot.go) reports every change, the change is       *)
(* broadcast with the entry's value before the handler goes on, and the    *)
(* last alerts frame in a queue therefore carries the current faults.      *)
THEOREM AlertsStayCurrent == Spec => []AlertsAreCurrent
<1>1. AlertsInv => AlertsAreCurrent
  <2> SUFFICES ASSUME AlertsInv, NEW s \in Subs \ gap,
                      pc = "idle", Idle("ingest"), buf[s] = <<>>, retires = 0
               PROVE  alerts[s] = Ensure.faults
      BY DEF AlertsAreCurrent
  <2>1. Settled
        BY DEF Settled, Pending
  <2>2. Leads(<<>>, alerts[s], Ensure.faults)
        BY <2>1 DEF AlertsInv, BoardsInv
  <2> QED BY <2>2, LeadsEmpty
<1>2. Spec => []AlertsInv
      BY AlertsStart, AlertsStep, PTL DEF Spec
<1> QED BY <1>1, <1>2, PTL
=============================================================================
