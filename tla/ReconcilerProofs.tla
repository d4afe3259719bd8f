-------------------------- MODULE ReconcilerProofs --------------------------
(***************************************************************************)
(* For any number of requests, parts, values, retries and for any bounds:  *)
(* types are kept, the revision named as last delivered was accepted whole *)
(* by the controller, and the loop leaves a controller in sync alone.      *)
(***************************************************************************)
EXTENDS Reconciler, TLAPS

(* Typing of one process's locals.                                         *)
LEMMA FreshType == ASSUME NEW p \in Procs PROVE Fresh \in Local /\ Finished(p) \in Local
<1>1. NoRow \in Row
  BY ConstantsAssumption DEF NoRow, Row, Statuses
<1>2. Fresh \in Local
  BY <1>1, ConstantsAssumption DEF Fresh, Local, PCs, Tells
<1>3. Finished(p) \in Local
  <2>1. CASE p = Loop  BY <1>2, <2>1 DEF Finished, Local, PCs
  <2>2. CASE p # Loop  BY <1>2, <2>2 DEF Finished, Local, PCs
  <2>3. QED  BY <2>1, <2>2
<1>4. QED  BY <1>2, <1>3

(* Updates of the bookkeeping row that the code makes.                     *)
LEMMA RowUpdates ==
    ASSUME NEW row \in Row, NEW last \in Nat, NEW status \in Statuses
    PROVE  /\ [row EXCEPT !.status = status, !.fails = 0] \in Row
           /\ [row EXCEPT !.status = status] \in Row
           /\ [row EXCEPT !.drift = TRUE] \in Row
           /\ [row EXCEPT !.status = status, !.fails = 0, !.drift = FALSE] \in Row
           /\ [row EXCEPT !.last = last, !.status = status, !.fails = 0] \in Row
           /\ [last |-> last, status |-> status, drift |-> FALSE, fails |-> 0] \in Row
           /\ row.fails < MaxRetries =>
                /\ [row EXCEPT !.fails = @ + 1] \in Row
                /\ [row EXCEPT !.fails = @ + 1, !.status = status] \in Row
<1>1. MaxRetries \in Nat
  BY ConstantsAssumption
<1>2. row.last \in Nat /\ row.drift \in BOOLEAN /\ row.status \in Statuses
      /\ row.fails \in 0..MaxRetries /\ 0 \in 0..MaxRetries
  BY <1>1 DEF Row
<1>3. /\ [row EXCEPT !.status = status, !.fails = 0] \in Row
      /\ [row EXCEPT !.status = status] \in Row
      /\ [row EXCEPT !.drift = TRUE] \in Row
  BY <1>2 DEF Row
<1>4. /\ [row EXCEPT !.status = status, !.fails = 0, !.drift = FALSE] \in Row
      /\ [row EXCEPT !.last = last, !.status = status, !.fails = 0] \in Row
      /\ [last |-> last, status |-> status, drift |-> FALSE, fails |-> 0] \in Row
  BY <1>2 DEF Row
<1>5. ASSUME row.fails < MaxRetries
      PROVE  /\ [row EXCEPT !.fails = @ + 1] \in Row
             /\ [row EXCEPT !.fails = @ + 1, !.status = status] \in Row
  <2>1. row.fails + 1 \in 0..MaxRetries
    BY <1>1, <1>2, <1>5
  <2>2. QED  BY <1>2, <2>1 DEF Row
<1>6. QED  BY <1>3, <1>4, <1>5

(* Updates of a process's locals that the actions make.                    *)
LEMMA SetPc == ASSUME NEW l \in Local, NEW pc \in PCs
    PROVE  [l EXCEPT !.pc = pc] \in Local
BY DEF Local
LEMMA SetPcOk == ASSUME NEW l \in Local, NEW pc \in PCs, NEW ok \in BOOLEAN
    PROVE  [l EXCEPT !.pc = pc, !.ok = ok] \in Local
BY DEF Local
LEMMA SetPcI == ASSUME NEW l \in Local, NEW pc \in PCs, NEW k \in Nat \ {0}
    PROVE  [l EXCEPT !.pc = pc, !.i = k] \in Local
BY DEF Local
LEMMA SetPcRev == ASSUME NEW l \in Local, NEW pc \in PCs, NEW n \in Nat
    PROVE  [l EXCEPT !.pc = pc, !.rev = n] \in Local
BY DEF Local
LEMMA SetPcBundle == ASSUME NEW l \in Local, NEW pc \in PCs, NEW b \in Bundle
    PROVE  [l EXCEPT !.pc = pc, !.bundle = b] \in Local
BY DEF Local
LEMMA SetPcBundleRev == ASSUME NEW l \in Local, NEW pc \in PCs, NEW b \in Bundle, NEW n \in Nat
    PROVE  [l EXCEPT !.pc = pc, !.bundle = b, !.rev = n] \in Local
BY DEF Local
LEMMA SetI == ASSUME NEW l \in Local, NEW k \in Nat \ {0}
    PROVE  [l EXCEPT !.i = k] \in Local
BY DEF Local
LEMMA SetIBundle == ASSUME NEW l \in Local, NEW k \in Nat \ {0}, NEW b \in Bundle
    PROVE  [l EXCEPT !.i = k, !.bundle = b] \in Local
BY DEF Local
LEMMA SetIOk == ASSUME NEW l \in Local, NEW k \in Nat \ {0}, NEW ok \in BOOLEAN
    PROVE  [l EXCEPT !.i = k, !.ok = ok] \in Local
BY DEF Local
LEMMA SetPcRow == ASSUME NEW l \in Local, NEW pc \in PCs, NEW row \in Row
    PROVE  [l EXCEPT !.pc = pc, !.row = row] \in Local
BY DEF Local
LEMMA SetPcRowTell == ASSUME NEW l \in Local, NEW pc \in PCs, NEW row \in Row, NEW t \in Tells
    PROVE  [l EXCEPT !.pc = pc, !.row = row, !.tell = t] \in Local
BY DEF Local
LEMMA SetRow == ASSUME NEW l \in Local, NEW row \in Row
    PROVE  [l EXCEPT !.row = row] \in Local
BY DEF Local

LEMMA StepType ==
    ASSUME NEW p \in Procs, NEW l \in Local, TypeOK, local' = [local EXCEPT ![p] = l]
    PROVE  local' \in [Procs -> Local] /\ local'[p] = l
           /\ \A q \in Procs : q # p => local'[q] = local[q]
BY DEF TypeOK

(* The current revision is a bundle, and merging an edit keeps it one.     *)
LEMMA CurrentType == ASSUME TypeOK, ledger # <<>> PROVE Current \in Bundle /\ Len(ledger) \in 1..Len(ledger)
BY DEF TypeOK, Current

LEMMA MergedType ==
    ASSUME TypeOK, NEW w \in Writers, NEW b \in Bundle
    PROVE  Merged(w, b) \in Local
<1>1. Merge(b, Edit[w]) \in Bundle
  BY ConstantsAssumption DEF Merge, Bundle
<1>2. local[w] \in Local
  BY DEF TypeOK, Procs
<1>3. QED
  BY <1>1, <1>2 DEF Merged, Local, PCs

(* What a delivery hands on: well typed while the loop had attempts left.  *)
USE DEF At, Become, Return, platform, control, budget

LEMMA AfterDeliveryType ==
    ASSUME TypeOK, DeliveryInRange, NEW p \in Procs, At(p, "patch"),
           NEW outcome \in {"accepted", "refused", "failed"}
    PROVE  AfterDelivery(p, outcome) \in Local /\ AfterDelivery(p, outcome).pc \notin {"patch", "decide"}
<1>1. local[p] \in Local /\ local[p].row \in Row
  BY DEF TypeOK, Local
<1>2. CASE p # Loop
  <2>1. CASE outcome = "refused"
    BY <1>2, <2>1, FreshType DEF AfterDelivery, Finished, Fresh
  <2>2. CASE outcome # "refused"
    <3>1. "append" \in PCs /\ (outcome = "accepted") \in BOOLEAN
      BY DEF PCs
    <3>2. AfterDelivery(p, outcome) = [local[p] EXCEPT !.pc = "append", !.ok = (outcome = "accepted")]
      BY <1>2, <2>2 DEF AfterDelivery
    <3>3. AfterDelivery(p, outcome).pc = "append"
      BY <1>1, <3>2 DEF Local
    <3>4. AfterDelivery(p, outcome) \in Local
      <4> DEFINE ok == outcome = "accepted"
      <4>1. ok \in BOOLEAN /\ AfterDelivery(p, outcome) = [local[p] EXCEPT !.pc = "append", !.ok = ok]
        BY <3>1, <3>2
      <4> HIDE DEF ok
      <4>2. QED  BY <1>1, <3>1, <4>1 DEF Local
    <3>5. QED  BY <3>3, <3>4
  <2>3. QED  BY <2>1, <2>2
<1>3. CASE p = Loop
  <2>1. local[p].row.fails < MaxRetries
    BY <1>3 DEF DeliveryInRange
  <2>2. [local[p].row EXCEPT !.fails = @ + 1] \in Row
    BY <1>1, <2>1, RowUpdates DEF Statuses
  <2>3. [local[p].row EXCEPT !.fails = @ + 1, !.status = "rejected"] \in Row
    BY <1>1, <2>1, RowUpdates DEF Statuses
  <2>4. [local[p].row EXCEPT !.last = local[p].rev, !.status = "delivered", !.fails = 0] \in Row
    BY <1>1, RowUpdates DEF Statuses, Local
  <2>5. CASE Correcting(local[p])
    BY <1>1, <1>3, <2>2, <2>5 DEF AfterDelivery, Local, PCs
  <2>6. CASE ~Correcting(local[p]) /\ outcome = "accepted"
    BY <1>1, <1>3, <2>4, <2>6 DEF AfterDelivery, Local, PCs
  <2>7. CASE ~Correcting(local[p]) /\ outcome # "accepted"
    BY <1>1, <1>3, <2>3, <2>7 DEF AfterDelivery, Local, PCs
  <2>8. QED  BY <2>5, <2>6, <2>7
<1>4. QED  BY <1>2, <1>3

(* A step in which p becomes a well-typed l keeps the locals' invariants,  *)
(* provided l delivers in range.                                           *)
InRange(p, l) ==
    /\ l.pc = "patch" => l.i <= Len(PartSeq) /\ (p = Loop => l.row.fails < MaxRetries)
    /\ p = Loop /\ l.pc = "decide" => l.i = 1

(* Only a delivery and the loop's decision carry an obligation.            *)
LEMMA NotDelivering ==
    ASSUME NEW p, NEW l, l.pc \notin {"patch", "decide"} PROVE InRange(p, l)
BY DEF InRange

LEMMA StepInRange ==
    ASSUME NEW p \in Procs, NEW l \in Local, TypeOK, DeliveryInRange, InRange(p, l),
           local' = [local EXCEPT ![p] = l]
    PROVE  local' \in [Procs -> Local] /\ DeliveryInRange'
BY StepType DEF DeliveryInRange, InRange, Procs

TypeInv == TypeOK /\ DeliveryInRange

(* Types are kept by every step, and the loop never delivers beyond its    *)
(* attempts (reassert and handleDrift back off at MaxRetries).             *)
LEMMA TypeInvStep == TypeInv /\ [Next]_vars => TypeInv'
<1> SUFFICES ASSUME TypeOK, DeliveryInRange, [Next]_vars PROVE TypeInv'
  BY DEF TypeInv
<1> USE DEF TypeInv
<1>a. Len(PartSeq) \in Nat \ {0} /\ MaxRetries \in Nat \ {0}
  BY ConstantsAssumption
<1>pcs. /\ {"seed", "apply", "patch", "append", "insert", "bookkeep"} \subseteq PCs
        /\ {"decide", "get", "upsert", "tell"} \subseteq PCs
  BY DEF PCs
<1>fields. \A p \in Procs : /\ local[p] \in Local /\ local[p].bundle \in Bundle
                            /\ local[p].rev \in Nat /\ local[p].row \in Row
                            /\ local[p].i \in Nat \ {0}
  BY DEF TypeOK, Local
<1>fin. \A p \in Procs : Finished(p) \in Local /\ InRange(p, Finished(p))
  <2>1. ASSUME NEW p \in Procs PROVE Finished(p).pc \notin {"patch", "decide"}
    BY DEF Finished, Fresh
  <2>2. QED  BY <2>1, FreshType, NotDelivering
<1>1. ASSUME NEW w \in Writers, ReadBaseline(w) PROVE TypeInv'
  <2>1. w \in Procs /\ local[w] \in Local
    BY DEF TypeOK, Procs
  <2>2. CASE ledger = <<>>
    <3> DEFINE l == [local[w] EXCEPT !.pc = "seed"]
    <3>1. l \in Local /\ InRange(w, l)
      <4>1. l \in Local  BY <1>pcs, <2>1, SetPc
      <4>2. l.pc = "seed"  BY <2>1 DEF Local
      <4>3. QED  BY <4>1, <4>2, NotDelivering
    <3>2. local' \in [Procs -> Local] /\ DeliveryInRange'
      BY <1>1, <2>1, <2>2, <3>1, StepInRange DEF ReadBaseline
    <3>3. QED  BY <1>1, <3>2 DEF ReadBaseline, TypeOK
  <2>3. CASE ledger # <<>>
    <3> DEFINE l == Merged(w, Current)
    <3>1. l \in Local
      BY <2>3, CurrentType, MergedType
    <3>2. InRange(w, l)
      <4>1. l.pc \notin {"patch", "decide"}  BY <2>1 DEF Local, Merged
      <4>2. QED  BY <4>1, NotDelivering
    <3>3. local' \in [Procs -> Local] /\ DeliveryInRange'
      BY <1>1, <2>1, <2>3, <3>1, <3>2, StepInRange DEF ReadBaseline
    <3>4. QED  BY <1>1, <3>3 DEF ReadBaseline, TypeOK
  <2>4. QED  BY <2>2, <2>3
<1>2. ASSUME NEW w \in Writers, Seed(w) PROVE TypeInv'
  <2>1. w \in Procs /\ local[w] \in Local /\ local[w].bundle \in Bundle
    BY DEF TypeOK, Procs, Local
  <2>2. Overlay(local[w].bundle, local[w].i) \in Bundle
    BY <2>1 DEF TypeOK, Overlay, Bundle
  <2> DEFINE l == IF local[w].i = 1
                  THEN [local[w] EXCEPT !.i = 2, !.bundle = Overlay(local[w].bundle, local[w].i)]
                  ELSE Merged(w, Overlay(local[w].bundle, local[w].i))
  <2>3. l \in Local /\ InRange(w, l)
    <3>1. CASE local[w].i = 1
      <4>1. l \in Local
        <5>1. 2 \in Nat \ {0}  OBVIOUS
        <5>2. QED  BY <2>1, <2>2, <3>1, <5>1, SetIBundle
      <4>2. l.pc = "seed"  BY <1>2, <2>1, <3>1 DEF Local, Seed
      <4>3. QED  BY <4>1, <4>2, NotDelivering
    <3>2. CASE local[w].i # 1
      <4>1. l.pc \notin {"patch", "decide"}  BY <2>1, <3>2 DEF Merged, Local
      <4>2. QED  BY <2>2, <3>2, <4>1, MergedType, NotDelivering
    <3>3. QED  BY <3>1, <3>2
  <2>4. local' \in [Procs -> Local] /\ DeliveryInRange'
    BY <1>2, <2>1, <2>3, StepInRange DEF Seed
  <2>5. QED  BY <1>2, <2>4 DEF Seed, TypeOK
<1>3. ASSUME NEW w \in Writers, CheckBounds(w) PROVE TypeInv'
  <2>1. w \in Procs /\ local[w] \in Local
    BY DEF TypeOK, Procs
  <2> DEFINE l == [local[w] EXCEPT !.pc = "apply"]
  <2>2. l \in Local /\ InRange(w, l)
    <3>1. l \in Local  BY <1>pcs, <2>1, SetPc
    <3>2. l.pc = "apply"  BY <2>1 DEF Local
    <3>3. QED  BY <3>1, <3>2, NotDelivering
  <2>3. local' \in [Procs -> Local] /\ DeliveryInRange'
    BY <1>3, <1>fin, <2>1, <2>2, StepInRange DEF CheckBounds
  <2>4. QED  BY <1>3, <2>3 DEF CheckBounds, TypeOK
<1>4. ASSUME NEW w \in Writers, SetAssignment(w) PROVE TypeInv'
  <2>1. w \in Procs /\ local[w] \in Local
    BY DEF TypeOK, Procs
  <2>2. PICK s \in Stages : /\ assigned' = s
                            /\ local' = [local EXCEPT ![w] = [local[w] EXCEPT !.pc = "apply", !.bundle = Targets[s]]]
    BY <1>4 DEF SetAssignment
  <2> DEFINE l == [local[w] EXCEPT !.pc = "apply", !.bundle = Targets[s]]
  <2>3. l \in Local /\ InRange(w, l)
    <3>1. Targets[s] \in Bundle  BY ConstantsAssumption
    <3>2. l \in Local  BY <1>pcs, <2>1, <3>1, SetPcBundle
    <3>3. l.pc = "apply"  BY <2>1 DEF Local
    <3>4. QED  BY <3>2, <3>3, NotDelivering
  <2>4. local' \in [Procs -> Local] /\ DeliveryInRange'
    BY <2>1, <2>2, <2>3, StepInRange
  <2>5. QED  BY <1>4, <2>2, <2>4 DEF SetAssignment, TypeOK
<1>5. ASSUME NEW w \in Writers, Apply(w) PROVE TypeInv'
  <2>1. w \in Procs /\ local[w] \in Local /\ w # Loop
    BY ConstantsAssumption DEF TypeOK, Procs
  <2> DEFINE hold == [local[w] EXCEPT !.pc = "append", !.ok = FALSE]
             send == [local[w] EXCEPT !.pc = "patch", !.i = 1]
  <2>2. hold \in Local /\ InRange(w, hold)
    <3>1. hold \in Local  BY <1>pcs, <2>1, SetPcOk
    <3>2. hold.pc = "append"  BY <2>1 DEF Local
    <3>3. QED  BY <3>1, <3>2, NotDelivering
  <2>3. send \in Local /\ InRange(w, send)
    <3>1. send \in Local
      <4>1. 1 \in Nat \ {0}  OBVIOUS
      <4>2. QED  BY <1>pcs, <2>1, <4>1, SetPcI
    <3>2. send.pc = "patch" /\ send.i = 1  BY <2>1 DEF Local
    <3>3. QED  BY <1>a, <2>1, <3>1, <3>2 DEF InRange
  <2>4. Finished(w) \in Local /\ InRange(w, Finished(w))
    BY <1>fin, <2>1
  <2>5. local' \in [Procs -> Local] /\ DeliveryInRange'
    BY <1>5, <2>1, <2>2, <2>3, <2>4, StepInRange DEF Apply
  <2>6. QED  BY <1>5, <2>5 DEF Apply, TypeOK
<1>6. ASSUME NEW w \in Writers, ReadMaxRevision(w) PROVE TypeInv'
  <2>1. w \in Procs /\ local[w] \in Local /\ Len(ledger) \in Nat
    BY DEF TypeOK, Procs
  <2> DEFINE l == [local[w] EXCEPT !.pc = "insert", !.rev = Len(ledger)]
  <2>2. l \in Local /\ l.pc = "insert"
    <3>1. l \in Local  BY <1>pcs, <2>1, SetPcRev
    <3>2. l.pc = "insert"  BY <2>1 DEF Local
    <3>3. QED  BY <3>1, <3>2
  <2>3. local' \in [Procs -> Local] /\ DeliveryInRange'
    <3>1. InRange(w, l)
      BY <2>2, NotDelivering
    <3>2. QED  BY <1>6, <2>1, <2>2, <3>1, StepInRange DEF ReadMaxRevision
  <2>4. QED  BY <1>6, <2>3 DEF ReadMaxRevision, TypeOK
<1>7. ASSUME NEW w \in Writers, InsertRevision(w) PROVE TypeInv'
  <2>1. w \in Procs /\ local[w] \in Local /\ local[w].bundle \in Bundle
    BY DEF TypeOK, Procs, Local
  <2> DEFINE l == [local[w] EXCEPT !.pc = "bookkeep", !.rev = @ + 1]
  <2>2. l \in Local /\ InRange(w, l)
    <3>1. local[w].rev + 1 \in Nat  BY <1>fields, <2>1
    <3>2. l \in Local  BY <1>pcs, <2>1, <3>1, SetPcRev
    <3>3. l.pc = "bookkeep"  BY <2>1 DEF Local
    <3>4. QED  BY <3>2, <3>3, NotDelivering
  <2>3. local' \in [Procs -> Local] /\ DeliveryInRange'
    BY <1>7, <2>1, <2>2, StepInRange DEF InsertRevision
  <2>4. ledger' \in Seq(Bundle)
    BY <1>7, <2>1 DEF InsertRevision, TypeOK
  <2>5. QED  BY <1>7, <2>3, <2>4 DEF InsertRevision, TypeOK
<1>8. ASSUME NEW p \in Procs, Return(p), UNCHANGED <<platform, control, online, shownDrift, acked, edits, retires>>,
             faults' \in 0..MaxFaults
      PROVE TypeInv'
  <2>1. Finished(p) \in Local /\ InRange(p, Finished(p))
    BY <1>fin
  <2>2. local' \in [Procs -> Local] /\ DeliveryInRange'
    BY <1>8, <2>1, StepInRange
  <2>3. QED  BY <1>8, <2>2 DEF TypeOK
<1>9. ASSUME NEW w \in Writers, ReadRow(w) PROVE TypeInv'
  <2>1. w \in Procs /\ local[w] \in Local /\ local[w].rev \in Nat /\ recon \in Row
    BY DEF TypeOK, Procs, Local
  <2>2. RecordedRow(local[w], recon) \in Row
    BY <2>1, RowUpdates DEF RecordedRow, Statuses
  <2> DEFINE l == [local[w] EXCEPT !.pc = "upsert", !.row = RecordedRow(local[w], recon),
                                   !.tell = IF local[w].ok /\ recon.drift THEN "clear" ELSE "quiet"]
  <2>3. (IF local[w].ok /\ recon.drift THEN "clear" ELSE "quiet") \in Tells
    BY DEF Tells
  <2>4. l \in Local /\ InRange(w, l)
    <3>1. l \in Local  BY <1>pcs, <2>1, <2>2, <2>3, SetPcRowTell
    <3>2. l.pc = "upsert"  BY <2>1 DEF Local
    <3>3. QED  BY <3>1, <3>2, NotDelivering
  <2>5. local' \in [Procs -> Local] /\ DeliveryInRange'
    BY <1>9, <2>1, <2>4, StepInRange DEF ReadRow
  <2>6. QED  BY <1>9, <2>5 DEF ReadRow, TypeOK
<1>10. ASSUME NEW p \in Procs, At(p, "patch"),
              NEW outcome \in {"accepted", "refused", "failed"},
              Become(p, AfterDelivery(p, outcome))
       PROVE  local' \in [Procs -> Local] /\ DeliveryInRange'
  <2>1. AfterDelivery(p, outcome) \in Local /\ InRange(p, AfterDelivery(p, outcome))
    BY <1>10, AfterDeliveryType, NotDelivering
  <2>2. QED  BY <1>10, <2>1, StepInRange
<1>11. ASSUME NEW p \in Procs, At(p, "patch") PROVE [config EXCEPT ![Target(p)] = local[p].bundle[Target(p)]] \in Bundle
  BY <1>11 DEF Target, TypeOK, Bundle, Local
<1>12. ASSUME NEW p \in Procs, PatchAccepted(p) PROVE TypeInv'
  <2>1. local[p] \in Local /\ local[p].bundle \in Bundle /\ config' \in Bundle
    BY <1>11, <1>12 DEF TypeOK, Local, PatchAccepted, Latch
  <2>2. CASE local[p].i < Len(PartSeq)
    <3> DEFINE l == [local[p] EXCEPT !.i = @ + 1]
    <3>1. l \in Local /\ l.i = local[p].i + 1 /\ l.pc = "patch" /\ l.row = local[p].row
      <4>1. local[p].i + 1 \in Nat \ {0}  BY <1>fields
      <4>2. l \in Local  BY <2>1, <4>1, SetI
      <4>3. l.i = local[p].i + 1 /\ l.pc = "patch" /\ l.row = local[p].row
        BY <1>12, <2>1 DEF Local, PatchAccepted
      <4>4. QED  BY <4>2, <4>3
    <3>11. InRange(p, l)
      BY <1>a, <1>12, <1>fields, <2>2, <3>1 DEF InRange, PatchAccepted, DeliveryInRange
    <3>2. local' \in [Procs -> Local] /\ DeliveryInRange'
      BY <1>12, <2>2, <3>1, <3>11, StepInRange DEF PatchAccepted
    <3>3. QED  BY <1>12, <2>1, <2>2, <3>2 DEF PatchAccepted, TypeOK
  <2>3. CASE ~(local[p].i < Len(PartSeq))
    <3>1. local' \in [Procs -> Local] /\ DeliveryInRange'
      BY <1>10, <1>12, <2>3 DEF PatchAccepted
    <3>2. QED  BY <1>12, <2>1, <2>3, <3>1 DEF PatchAccepted, TypeOK
  <2>4. QED  BY <2>2, <2>3
<1>13. ASSUME NEW p \in Procs, PatchRefused(p) PROVE TypeInv'
  <2>1. local' \in [Procs -> Local] /\ DeliveryInRange'
    BY <1>10, <1>13 DEF PatchRefused
  <2>2. QED  BY <1>13, <2>1 DEF PatchRefused, TypeOK
<1>14. ASSUME NEW p \in Procs, PatchFailed(p) PROVE TypeInv'
  <2>1. local' \in [Procs -> Local] /\ DeliveryInRange'
    BY <1>10, <1>14 DEF PatchFailed
  <2>2. config' \in Bundle
    BY <1>11, <1>14 DEF PatchFailed, Latch, TypeOK
  <2>3. faults' \in 0..MaxFaults
    BY <1>14, ConstantsAssumption DEF PatchFailed, TypeOK
  <2>4. QED  BY <1>14, <2>1, <2>2, <2>3 DEF PatchFailed, TypeOK
<1>15. ASSUME NEW p \in Procs, Upsert(p) PROVE TypeInv'
  <2>1. local[p] \in Local /\ local[p].row \in Row
    BY DEF TypeOK, Local
  <2> DEFINE l == [local[p] EXCEPT !.pc = "tell"]
  <2>2. l \in Local /\ InRange(p, l)
    <3>1. l \in Local  BY <1>pcs, <2>1, SetPc
    <3>2. l.pc = "tell"  BY <2>1 DEF Local
    <3>3. QED  BY <3>1, <3>2, NotDelivering
  <2>3. local' \in [Procs -> Local] /\ DeliveryInRange'
    BY <1>15, <1>fin, <2>2, StepInRange DEF Upsert
  <2>4. QED  BY <1>15, <2>1, <2>3 DEF Upsert, TypeOK
<1>16. ASSUME NEW p \in Procs, BroadcastDrift(p) PROVE TypeInv'
  <2>1. Finished(p) \in Local /\ InRange(p, Finished(p))
    BY <1>fin
  <2>2. local' \in [Procs -> Local] /\ DeliveryInRange'
    BY <1>16, <2>1, StepInRange DEF BroadcastDrift
  <2>3. QED  BY <1>16, <2>2 DEF BroadcastDrift, TypeOK
<1>b. Loop \in Procs /\ local[Loop] \in Local /\ local[Loop].row \in Row
  BY DEF Procs, TypeOK, Local
<1>17. ASSUME LoopRead PROVE TypeInv'
  <2> DEFINE l == [Fresh EXCEPT !.pc = "decide", !.bundle = Current, !.rev = Len(ledger)]
  <2>1. l \in Local /\ InRange(Loop, l)
    <3>1. Current \in Bundle /\ Len(ledger) \in Nat
      BY <1>17, CurrentType DEF LoopRead, TypeOK
    <3>2. l \in Local  BY <1>b, <1>pcs, <3>1, FreshType, SetPcBundleRev
    <3>3. l.pc = "decide" /\ l.i = 1  BY DEF Fresh
    <3>4. QED  BY <3>2, <3>3 DEF InRange
  <2>2. local' \in [Procs -> Local] /\ DeliveryInRange'
    BY <1>17, <1>b, <2>1, StepInRange DEF LoopRead
  <2>3. QED  BY <1>17, <2>2 DEF LoopRead, TypeOK
<1>18. ASSUME LoopDecide PROVE TypeInv'
  <2> DEFINE l == [local[Loop] EXCEPT !.row = recon]
             held == [l EXCEPT !.pc = "upsert", !.row.status = "deferred"]
             sent == [l EXCEPT !.pc = "patch"]
             seen == [l EXCEPT !.pc = "get", !.ok = TRUE]
  <2>1. l \in Local /\ recon \in Row /\ local[Loop].i \in Nat \ {0}
    <3>1. recon \in Row  BY DEF TypeOK
    <3>2. QED  BY <1>b, <1>fields, <3>1, SetRow
  <2>2. [recon EXCEPT !.status = "deferred"] \in Row
    BY <2>1, RowUpdates DEF Statuses
  <2>3. held \in Local /\ InRange(Loop, held)
    <3>1. held = [local[Loop] EXCEPT !.pc = "upsert", !.row = [recon EXCEPT !.status = "deferred"]]
      BY <1>b DEF Local
    <3>2. held \in Local  BY <1>b, <1>pcs, <2>2, <3>1, SetPcRow
    <3>3. held.pc = "upsert"  BY <1>b, <3>1 DEF Local
    <3>4. QED  BY <3>2, <3>3, NotDelivering
  <2>4. seen \in Local /\ InRange(Loop, seen) /\ sent \in Local
    <3>1. seen \in Local /\ sent \in Local  BY <1>pcs, <2>1, SetPc, SetPcOk
    <3>2. seen.pc = "get"  BY <2>1 DEF Local
    <3>3. QED  BY <3>1, <3>2, NotDelivering
  <2>5. Finished(Loop) \in Local /\ InRange(Loop, Finished(Loop))
    BY <1>b, <1>fin
  <2>6. local' \in [Procs -> Local] /\ DeliveryInRange'
    <3>1. CASE local' = [local EXCEPT ![Loop] = Finished(Loop)]
      BY <1>b, <2>5, <3>1, StepInRange
    <3>2. CASE local' = [local EXCEPT ![Loop] = held]
      BY <1>b, <2>3, <3>2, StepInRange
    <3>3. CASE local' = [local EXCEPT ![Loop] = seen]
      BY <1>b, <2>4, <3>3, StepInRange
    <3>4. CASE local' = [local EXCEPT ![Loop] = sent] /\ ~(recon.fails >= MaxRetries)
      <4>1. recon.fails < MaxRetries /\ sent.row = recon
        BY <1>a, <1>b, <2>1, <3>4 DEF Row, Local
      <4>2. sent.pc = "patch" /\ sent.i = 1
        BY <1>18, <1>b DEF Local, LoopDecide, DeliveryInRange
      <4>3. InRange(Loop, sent)  BY <1>a, <4>1, <4>2 DEF InRange
      <4>4. QED  BY <1>b, <2>4, <3>4, <4>3, StepInRange
    <3>5. QED  BY <1>18, <3>1, <3>2, <3>3, <3>4 DEF LoopDecide
  <2>7. QED  BY <1>18, <2>6 DEF LoopDecide, TypeOK
<1>19. ASSUME LoopGet PROVE TypeInv'
  <2> DEFINE l == local[Loop]
             same == l.ok /\ \A p \in ReadParts(l.i) : view[p] = l.bundle[p]
             more == [l EXCEPT !.i = 2, !.ok = same]
  <2>1. more \in Local /\ InRange(Loop, more)
    <3>1. 2 \in Nat \ {0} /\ same \in BOOLEAN
      BY <1>b DEF Local
    <3>2. more \in Local  BY <1>b, <3>1, SetIOk
    <3>3. more.pc = "get"  BY <1>b, <1>19 DEF Local, LoopGet
    <3>4. QED  BY <3>2, <3>3, NotDelivering
  <2>2. Synced(l) \in Local /\ InRange(Loop, Synced(l))
    <3> DEFINE row == [l.row EXCEPT !.status = "delivered", !.fails = 0, !.drift = FALSE]
               t == IF l.row.drift THEN "clear" ELSE "quiet"
    <3>1. row \in Row  BY <1>b, RowUpdates DEF Statuses
    <3>2. CASE row = l.row
      BY <1>b, <1>fin, <3>2 DEF Synced
    <3>3. CASE row # l.row
      <4>1. Synced(l) = [l EXCEPT !.pc = "upsert", !.row = row, !.tell = t]
        BY <3>3 DEF Synced
      <4>2. t \in Tells  BY DEF Tells
      <4> HIDE DEF row, t
      <4>3. Synced(l) \in Local  BY <1>b, <1>pcs, <3>1, <4>1, <4>2 DEF Local
      <4>4. Synced(l).pc = "upsert"  BY <1>b, <4>1 DEF Local
      <4>5. QED  BY <4>3, <4>4, NotDelivering
    <3>4. QED  BY <3>2, <3>3
  <2>3. Drifted(l) \in Local /\ InRange(Loop, Drifted(l))
    <3> DEFINE pc == IF l.row.fails < MaxRetries THEN "patch" ELSE "upsert"
               row == [l.row EXCEPT !.drift = TRUE]
               t == IF l.row.drift THEN "quiet" ELSE "raise"
    <3>11. row \in Row  BY <1>b, RowUpdates DEF Statuses
    <3>12. row.fails = l.row.fails  BY <1>b DEF Row
    <3>1. row \in Row /\ row.fails = l.row.fails  BY <3>11, <3>12
    <3>2. pc \in PCs /\ t \in Tells /\ 1 \in Nat \ {0}  BY <1>pcs DEF Tells
    <3>3. Drifted(l) = [l EXCEPT !.pc = pc, !.i = 1, !.row = row, !.tell = t]
      BY <1>b DEF Drifted, Local
    <3>pc. pc = "patch" => l.row.fails < MaxRetries  OBVIOUS
    <3>q. pc # "decide"  OBVIOUS
    <3> HIDE DEF pc, row, t
    <3>4. Drifted(l) \in Local  BY <1>b, <3>1, <3>2, <3>3 DEF Local
    <3>5. Drifted(l).pc = pc /\ Drifted(l).i = 1 /\ Drifted(l).row = row
      BY <1>b, <3>3 DEF Local
    <3>6. InRange(Loop, Drifted(l))  BY <1>a, <3>1, <3>5, <3>pc, <3>q DEF InRange
    <3>7. QED  BY <3>4, <3>6
  <2>4. local' \in [Procs -> Local] /\ DeliveryInRange'
    <3>1. \/ local' = [local EXCEPT ![Loop] = more]
          \/ local' = [local EXCEPT ![Loop] = Synced(l)]
          \/ local' = [local EXCEPT ![Loop] = Drifted(l)]
      BY <1>19 DEF LoopGet
    <3>2. QED  BY <1>b, <2>1, <2>2, <2>3, <3>1, StepInRange
  <2>5. QED  BY <1>19, <2>4 DEF LoopGet, TypeOK
<1>20. ASSUME NEW w \in Writers, InsertConflict(w) PROVE TypeInv'
  BY <1>8, <1>20 DEF InsertConflict, Procs, TypeOK
<1>21. ASSUME NEW p \in Procs, GetFailed(p) PROVE TypeInv'
  <2>1. faults' \in 0..MaxFaults
    BY <1>21, ConstantsAssumption DEF GetFailed, TypeOK
  <2>2. QED  BY <1>8, <1>21, <2>1 DEF GetFailed
<1>22. ASSUME Tick PROVE TypeInv'
  BY <1>22 DEF Tick, Take, Publish, IdleTick, TypeOK, DeliveryInRange
<1>23. ASSUME LocalEdit PROVE TypeInv'
  <2>1. config' \in Bundle
    BY <1>23 DEF LocalEdit, TypeOK, Bundle
  <2>2. edits' \in 0..MaxEdits
    BY <1>23, ConstantsAssumption DEF LocalEdit, TypeOK
  <2>3. QED  BY <1>23, <2>1, <2>2 DEF LocalEdit, TypeOK, DeliveryInRange
<1>24. ASSUME Restart PROVE TypeInv'
  <2>1. edits' \in 0..MaxEdits /\ Toml \in Bundle
    BY <1>24, ConstantsAssumption DEF Restart, TypeOK
  <2>2. QED  BY <1>24, <2>1 DEF Restart, TypeOK, DeliveryInRange
<1>25. ASSUME StatusChange PROVE TypeInv'
  BY <1>25 DEF StatusChange, TypeOK, DeliveryInRange
<1>26. ASSUME Retire PROVE TypeInv'
  <2>1. retires' \in 0..MaxRetires
    BY <1>26, ConstantsAssumption DEF Retire, TypeOK
  <2>2. NoRow \in Row
    BY ConstantsAssumption DEF NoRow, Row, Statuses
  <2>3. <<>> \in Seq(Bundle)
    OBVIOUS
  <2>4. QED  BY <1>26, <2>1, <2>2, <2>3 DEF Retire, TypeOK, DeliveryInRange
<1>27. ASSUME Register PROVE TypeInv'
  BY <1>27 DEF Register, TypeOK, DeliveryInRange
<1>28. ASSUME UNCHANGED vars PROVE TypeInv'
  BY <1>28 DEF vars, TypeOK, DeliveryInRange
<1>29. QED
  BY <1>1, <1>2, <1>3, <1>4, <1>5, <1>6, <1>7, <1>9, <1>12, <1>13, <1>14, <1>15, <1>16, <1>17,
     <1>18, <1>19, <1>20, <1>21, <1>22, <1>23, <1>24, <1>25, <1>26, <1>27, <1>28
  DEF Next, Write, Deliver, Finish, Pass, Submit, Environment

LEMMA TypeInvInit == Init => TypeInv
<1> SUFFICES ASSUME Init PROVE TypeInv
  OBVIOUS
<1>1. local \in [Procs -> Local]
  BY FreshType DEF Init
<1>2. NoRow \in Row /\ Toml \in Bundle
  BY ConstantsAssumption DEF NoRow, Row, Statuses
<1>3. 0 \in 0..MaxFaults /\ 0 \in 0..MaxEdits /\ 0 \in 0..MaxRetires
  BY ConstantsAssumption
<1>4. TypeOK
  <2>1. <<>> \in Seq(Bundle)  OBVIOUS
  <2>2. QED  BY <1>1, <1>2, <1>3, <2>1 DEF Init, TypeOK
<1>5. DeliveryInRange
  BY DEF Init, DeliveryInRange, Fresh, Procs
<1>6. QED  BY <1>4, <1>5 DEF TypeInv

(* Every reachable state is well typed; in particular the loop's fail      *)
(* count never passes MaxRetries, whatever it races with.                  *)
THEOREM TypeCorrect == Spec => []TypeOK
<1>1. TypeInv => TypeOK
  BY DEF TypeInv
<1>2. QED  BY <1>1, TypeInvInit, TypeInvStep, PTL DEF Spec

-----------------------------------------------------------------------------
(* Until the first retirement the ledger only grows and acceptances are    *)
(* never forgotten, so what was sound stays sound.                         *)
Grows ==
    /\ ledger' \in Seq(Bundle) /\ acked \subseteq acked'
    /\ \A r \in 1..Len(ledger) : r \in 1..Len(ledger') /\ ledger'[r] = ledger[r]

LEMMA SoundGrows ==
    ASSUME TypeOK, Grows, NEW p, NEW l, LocalSound(p, l) PROVE LocalSound(p, l)'
BY DEF LocalSound, RowSound, OwnRevision, Grows

LEMMA RowGrows == ASSUME TypeOK, Grows, NEW row, RowSound(row) PROVE RowSound(row)'
BY DEF RowSound, Grows

LEMMA SameGrows == ASSUME TypeOK, UNCHANGED <<ledger, acked>> PROVE Grows
BY DEF Grows, TypeOK

(* One process moves to a sound l, the row is sound: all stays sound.      *)
LEMMA ProvenanceStep ==
    ASSUME TypeOK, Provenance, Grows, NEW p \in Procs, NEW l, LocalSound(p, l)',
           local' = [local EXCEPT ![p] = l], RowSound(recon)'
    PROVE  Provenance'
<1>1. local \in [Procs -> Local]
  BY DEF TypeOK
<1>2. \A q \in Procs : local'[q] = IF q = p THEN l ELSE local[q]
  BY <1>1
<1>3. \A q \in Procs : LocalSound(q, local[q])'
  <2>1. TAKE q \in Procs
  <2>2. CASE q = p  BY <1>2, <2>2 DEF LocalSound, RowSound, OwnRevision
  <2>3. CASE q # p
    <3>1. LocalSound(q, local[q])  BY DEF Provenance
    <3>2. QED  BY <1>2, <2>3, <3>1 DEF LocalSound, RowSound, OwnRevision, Grows
  <2>4. QED  BY <2>2, <2>3
<1>4. QED  BY <1>3 DEF Provenance

LEMMA FinishedSound == ASSUME NEW p PROVE LocalSound(p, Finished(p)) /\ LocalSound(p, Finished(p))'
BY DEF LocalSound, RowSound, Finished, Fresh, NoRow

ProvInv == TypeInv /\ (retires = 0 => Provenance)

(* Only Retire spends the retirement budget.                               *)
LEMMA RetiresGrow == [Next]_vars => retires' = retires \/ retires' = retires + 1
<1>1. ASSUME NEW w \in Writers, Submit(w) \/ Write(w) PROVE retires' = retires
  BY <1>1 DEF Submit, Write, ReadBaseline, Seed, CheckBounds, SetAssignment, Apply,
              ReadMaxRevision, InsertRevision, InsertConflict, ReadRow
<1>2. ASSUME NEW p \in Procs, Deliver(p) \/ Finish(p) \/ GetFailed(p) PROVE retires' = retires
  BY <1>2 DEF Deliver, Finish, PatchAccepted, PatchRefused, PatchFailed, Upsert, BroadcastDrift, GetFailed
<1>3. ASSUME Pass \/ Tick PROVE retires' = retires
  BY <1>3 DEF Pass, LoopRead, LoopDecide, LoopGet, Tick, Take, Publish, IdleTick
<1>4. ASSUME Environment PROVE retires' = retires \/ retires' = retires + 1
  BY <1>4 DEF Environment, LocalEdit, Restart, StatusChange, Retire, Register
<1>5. QED  BY <1>1, <1>2, <1>3, <1>4 DEF Next, vars

LEMMA ProvInvStep == ProvInv /\ [Next]_vars => ProvInv'
<1> SUFFICES ASSUME TypeOK, DeliveryInRange, Provenance, retires = 0, retires' = 0, [Next]_vars
             PROVE  Provenance'
  <2>1. ASSUME ProvInv, [Next]_vars, retires' = 0 PROVE retires = 0
    BY <2>1, RetiresGrow DEF ProvInv, TypeInv, TypeOK
  <2>2. QED  BY <2>1, TypeInvStep DEF ProvInv, TypeInv
<1>sound. RowSound(recon) /\ \A p \in Procs : LocalSound(p, local[p]) /\ local[p] \in Local
  BY DEF Provenance, TypeOK
<1>same. ASSUME UNCHANGED <<ledger, acked>> PROVE Grows
  BY <1>same, SameGrows
<1>quiet. ASSUME NEW p \in Procs, NEW l, LocalSound(p, l), Become(p, l), UNCHANGED <<ledger, acked, recon>>
         PROVE  Provenance'
  BY <1>quiet, <1>same, <1>sound, SoundGrows, RowGrows, ProvenanceStep
<1>1. ASSUME NEW w \in Writers, ReadBaseline(w) PROVE Provenance'
  <2>1. w \in Procs /\ w # Loop  BY ConstantsAssumption DEF Procs
  <2>2. LocalSound(w, Merged(w, Current)) /\ LocalSound(w, [local[w] EXCEPT !.pc = "seed"])
    BY <1>sound, <2>1 DEF LocalSound, Merged, Local
  <2>3. QED  BY <1>1, <1>quiet, <2>1, <2>2 DEF ReadBaseline
<1>2. ASSUME NEW w \in Writers, Seed(w) PROVE Provenance'
  <2>1. w \in Procs /\ w # Loop  BY ConstantsAssumption DEF Procs
  <2> DEFINE seen == Overlay(local[w].bundle, local[w].i)
  <2>2. LocalSound(w, Merged(w, seen)) /\ LocalSound(w, [local[w] EXCEPT !.i = 2, !.bundle = seen])
    BY <1>2, <1>sound, <2>1 DEF LocalSound, Merged, Local, Seed
  <2>3. QED  BY <1>2, <1>quiet, <2>1, <2>2 DEF Seed
<1>3. ASSUME NEW w \in Writers, CheckBounds(w) PROVE Provenance'
  <2>1. w \in Procs /\ w # Loop  BY ConstantsAssumption DEF Procs
  <2>2. LocalSound(w, [local[w] EXCEPT !.pc = "apply"])
    BY <1>sound, <2>1 DEF LocalSound, Local
  <2>3. QED  BY <1>3, <1>quiet, <2>1, <2>2, FinishedSound DEF CheckBounds
<1>4. ASSUME NEW w \in Writers, SetAssignment(w) PROVE Provenance'
  <2>1. w \in Procs /\ w # Loop  BY ConstantsAssumption DEF Procs
  <2>2. \A s \in Stages : LocalSound(w, [local[w] EXCEPT !.pc = "apply", !.bundle = Targets[s]])
    BY <1>sound, <2>1 DEF LocalSound, Local
  <2>3. QED  BY <1>4, <1>quiet, <2>1, <2>2 DEF SetAssignment
<1>5. ASSUME NEW w \in Writers, Apply(w) PROVE Provenance'
  <2>1. w \in Procs /\ w # Loop  BY ConstantsAssumption DEF Procs
  <2>2. LocalSound(w, [local[w] EXCEPT !.pc = "append", !.ok = FALSE])
    BY <1>sound, <2>1 DEF LocalSound, Local
  <2>3. LocalSound(w, [local[w] EXCEPT !.pc = "patch", !.i = 1])
    BY <1>sound, <2>1 DEF LocalSound, Local
  <2>4. QED  BY <1>5, <1>quiet, <2>1, <2>2, <2>3, FinishedSound DEF Apply
<1>6. ASSUME NEW w \in Writers, ReadMaxRevision(w) PROVE Provenance'
  <2>1. w \in Procs /\ w # Loop  BY ConstantsAssumption DEF Procs
  <2>2. LocalSound(w, [local[w] EXCEPT !.pc = "insert", !.rev = Len(ledger)])
    BY <1>6, <1>sound, <2>1 DEF LocalSound, Local, ReadMaxRevision
  <2>3. QED  BY <1>6, <1>quiet, <2>1, <2>2 DEF ReadMaxRevision
<1>7. ASSUME NEW w \in Writers, InsertRevision(w) PROVE Provenance'
  <2>1. w \in Procs /\ w # Loop /\ local[w].bundle \in Bundle
    BY ConstantsAssumption DEF Procs, TypeOK, Local
  <2>2. Grows
    BY <1>7, <2>1 DEF Grows, InsertRevision, TypeOK
  <2>3. PICK l : l = [local[w] EXCEPT !.pc = "bookkeep", !.rev = @ + 1]
    OBVIOUS
  <2>4. /\ l.rev = Len(ledger) + 1 /\ l.bundle = local[w].bundle /\ l.ok = local[w].ok
        /\ l.row = local[w].row /\ l.pc = "bookkeep"
    BY <1>7, <1>sound, <2>1, <2>3 DEF InsertRevision, Local
  <2>5. ledger' = Append(ledger, l.bundle) /\ acked' = acked /\ l.bundle \in Bundle
    BY <1>7, <2>1, <2>4 DEF InsertRevision
  <2>6. OwnRevision(l)'
    BY <2>4, <2>5 DEF OwnRevision, TypeOK
  <2>7. RowSound(l.row)'
    BY <1>sound, <2>1, <2>2, <2>4, RowGrows DEF LocalSound
  <2>8. l.ok => l.bundle \in acked
    BY <1>7, <1>sound, <2>1, <2>4 DEF LocalSound, InsertRevision
  <2>9. LocalSound(w, l)'
    BY <2>1, <2>4, <2>5, <2>6, <2>7, <2>8 DEF LocalSound
  <2>10. RowSound(recon)'
    <3>1. PICK row : row = recon  OBVIOUS
    <3>2. recon' = row  BY <1>7, <3>1 DEF InsertRevision
    <3>3. RowSound(row)'  BY <1>sound, <2>2, <3>1, RowGrows
    <3>4. QED  BY <3>2, <3>3 DEF RowSound
  <2>11. QED  BY <1>7, <1>sound, <2>1, <2>2, <2>3, <2>9, <2>10, ProvenanceStep DEF InsertRevision
<1>8. ASSUME NEW p \in Procs, Return(p), UNCHANGED <<ledger, acked, recon>> PROVE Provenance'
  BY <1>8, <1>quiet, FinishedSound
<1>9. ASSUME NEW w \in Writers, ReadRow(w) PROVE Provenance'
  <2>1. w \in Procs /\ w # Loop  BY ConstantsAssumption DEF Procs
  <2> DEFINE t == IF local[w].ok /\ recon.drift THEN "clear" ELSE "quiet"
             l == [local[w] EXCEPT !.pc = "upsert", !.row = RecordedRow(local[w], recon), !.tell = t]
  <2>2. RowSound(RecordedRow(local[w], recon))
    <3>1. OwnRevision(local[w]) /\ (local[w].ok => local[w].bundle \in acked)
      BY <1>9, <1>sound, <2>1 DEF LocalSound, ReadRow
    <3>2. CASE local[w].ok
      BY <3>1, <3>2 DEF RecordedRow, RowSound, OwnRevision
    <3>3. CASE ~local[w].ok
      BY <1>sound, <3>3 DEF RecordedRow, RowSound, TypeOK, Row
    <3>4. QED  BY <3>2, <3>3
  <2>3. l.pc = "upsert" /\ l.row = RecordedRow(local[w], recon)
    BY <1>sound, <2>1 DEF Local
  <2>4. LocalSound(w, l)
    BY <2>1, <2>2, <2>3 DEF LocalSound
  <2>5. QED  BY <1>9, <1>quiet, <2>1, <2>4 DEF ReadRow
<1>10. ASSUME NEW p \in Procs, PatchAccepted(p) PROVE Provenance'
  <2>1. local[p] \in Local /\ LocalSound(p, local[p])
    BY <1>sound
  <2>2. Grows
    BY <1>10 DEF PatchAccepted, Grows, TypeOK
  <2>3. RowSound(recon)'
    <3>1. PICK row : row = recon  OBVIOUS
    <3>2. recon' = row  BY <1>10, <3>1 DEF PatchAccepted
    <3>3. RowSound(row)'  BY <1>sound, <2>2, <3>1, RowGrows
    <3>4. QED  BY <3>2, <3>3 DEF RowSound
  <2>4. CASE local[p].i < Len(PartSeq)
    <3>1. LocalSound(p, [local[p] EXCEPT !.i = @ + 1])
      BY <2>1 DEF LocalSound, Local, OwnRevision
    <3>2. QED  BY <1>10, <1>quiet, <2>4, <3>1 DEF PatchAccepted
  <2>5. CASE ~(local[p].i < Len(PartSeq))
    <3>1. PICK l : l = AfterDelivery(p, "accepted")  OBVIOUS
    <3>2. local' = [local EXCEPT ![p] = l] /\ acked' = acked \cup {local[p].bundle} /\ ledger' = ledger
      BY <1>10, <2>5, <3>1 DEF PatchAccepted
    <3>3. CASE p # Loop
      <4>1. l = [local[p] EXCEPT !.pc = "append", !.ok = TRUE]
        BY <3>1, <3>3 DEF AfterDelivery
      <4>2. l.pc = "append" /\ l.row = local[p].row /\ l.bundle = local[p].bundle
        BY <2>1, <4>1 DEF Local
      <4>3. RowSound(l.row)'
        BY <2>1, <2>2, <4>2, RowGrows DEF LocalSound
      <4>4. LocalSound(p, l)'
        BY <3>2, <3>3, <4>2, <4>3 DEF LocalSound
      <4>5. QED  BY <2>2, <2>3, <3>2, <4>4, ProvenanceStep
    <3>4. CASE p = Loop
      <4>1. OwnRevision(local[p]) /\ RowSound(local[p].row)
        BY <1>10, <2>1, <3>4 DEF LocalSound, PatchAccepted
      <4>2. l.pc = "upsert" /\ (l.row.last = local[p].row.last \/ l.row.last = local[p].rev)
        BY <2>1, <3>1, <3>4 DEF AfterDelivery, Local, Row
      <4>3. RowSound(l.row)'
        BY <3>2, <4>1, <4>2 DEF RowSound, OwnRevision
      <4>4. LocalSound(p, l)'
        BY <3>4, <4>2, <4>3 DEF LocalSound
      <4>5. QED  BY <2>2, <2>3, <3>2, <4>4, ProvenanceStep
    <3>5. QED  BY <3>3, <3>4
  <2>6. QED  BY <2>4, <2>5
<1>11. ASSUME NEW p \in Procs, NEW outcome \in {"refused", "failed"}, At(p, "patch"),
              Become(p, AfterDelivery(p, outcome)), UNCHANGED <<ledger, acked, recon>>
       PROVE  Provenance'
  <2>1. local[p] \in Local /\ LocalSound(p, local[p])
    BY <1>sound
  <2>2. LocalSound(p, AfterDelivery(p, outcome))
    <3>1. CASE p # Loop /\ outcome = "refused"
      BY <3>1, FinishedSound DEF AfterDelivery
    <3>2. CASE p # Loop /\ outcome = "failed"
      <4>1. AfterDelivery(p, outcome) = [local[p] EXCEPT !.pc = "append", !.ok = FALSE]
        BY <3>2 DEF AfterDelivery
      <4>2. QED  BY <2>1, <3>2, <4>1 DEF LocalSound, Local
    <3>3. CASE p = Loop
      <4>1. /\ AfterDelivery(p, outcome).pc = "upsert"
            /\ AfterDelivery(p, outcome).row.last = local[p].row.last
        BY <2>1, <3>3 DEF AfterDelivery, Local, Row
      <4>2. RowSound(AfterDelivery(p, outcome).row)
        BY <2>1, <4>1 DEF LocalSound, RowSound
      <4>3. QED  BY <3>3, <4>1, <4>2 DEF LocalSound
    <3>4. QED  BY <3>1, <3>2, <3>3
  <2>3. QED  BY <1>11, <1>quiet, <2>2
<1>12. ASSUME NEW p \in Procs, PatchRefused(p) \/ PatchFailed(p) PROVE Provenance'
  BY <1>11, <1>12 DEF PatchRefused, PatchFailed
<1>13. ASSUME NEW p \in Procs, Upsert(p) PROVE Provenance'
  <2>1. LocalSound(p, [local[p] EXCEPT !.pc = "tell"])
    BY <1>13, <1>sound DEF LocalSound, Local, Upsert
  <2>2. Grows
    BY <1>13, <1>same DEF Upsert
  <2>3. RowSound(recon)'
    <3>1. PICK row : row = IF registered THEN local[p].row ELSE recon  OBVIOUS
    <3>2. recon' = row /\ RowSound(row)  BY <1>13, <1>sound, <3>1 DEF Upsert, LocalSound
    <3>3. RowSound(row)'  BY <2>2, <3>2, RowGrows
    <3>4. QED  BY <3>2, <3>3 DEF RowSound
  <2>4. PICK l : local' = [local EXCEPT ![p] = l] /\ LocalSound(p, l)
    BY <1>13, <2>1, FinishedSound DEF Upsert
  <2>5. LocalSound(p, l)'
    BY <2>2, <2>4, SoundGrows
  <2>6. QED  BY <2>2, <2>3, <2>4, <2>5, ProvenanceStep
<1>14. ASSUME NEW p \in Procs, BroadcastDrift(p) \/ GetFailed(p) PROVE Provenance'
  BY <1>8, <1>14 DEF BroadcastDrift, GetFailed
<1>15. ASSUME NEW w \in Writers, InsertConflict(w) PROVE Provenance'
  BY <1>8, <1>15 DEF InsertConflict, Procs
<1>l. Loop \in Procs /\ local[Loop] \in Local /\ LocalSound(Loop, local[Loop])
  BY <1>sound DEF Procs
<1>16. ASSUME LoopRead PROVE Provenance'
  <2> DEFINE l == [Fresh EXCEPT !.pc = "decide", !.bundle = Current, !.rev = Len(ledger)]
  <2>1. l.rev = Len(ledger) /\ l.bundle = Current /\ l.row = NoRow /\ l.pc = "decide"
    BY DEF Fresh
  <2>2. OwnRevision(l)
    BY <1>16, <2>1, CurrentType DEF OwnRevision, Current, LoopRead
  <2>3. LocalSound(Loop, l)
    BY <2>1, <2>2 DEF LocalSound, RowSound, NoRow
  <2>4. QED  BY <1>16, <1>l, <1>quiet, <2>3 DEF LoopRead
<1>17. ASSUME LoopDecide PROVE Provenance'
  <2> DEFINE l == [local[Loop] EXCEPT !.row = recon]
             held == [l EXCEPT !.pc = "upsert", !.row.status = "deferred"]
             sent == [l EXCEPT !.pc = "patch"]
             seen == [l EXCEPT !.pc = "get", !.ok = TRUE]
  <2>1. OwnRevision(local[Loop]) /\ recon \in Row
    BY <1>17, <1>l DEF LocalSound, LoopDecide, TypeOK
  <2>2. LocalSound(Loop, sent) /\ LocalSound(Loop, seen)
    BY <1>l, <1>sound, <2>1 DEF LocalSound, OwnRevision, Local
  <2>3. held.pc = "upsert" /\ held.row = [recon EXCEPT !.status = "deferred"]
    BY <1>l DEF Local
  <2>4. RowSound(held.row)
    BY <1>sound, <2>1, <2>3 DEF RowSound, Row
  <2>5. LocalSound(Loop, held)
    BY <2>3, <2>4 DEF LocalSound
  <2>6. \/ local' = [local EXCEPT ![Loop] = Finished(Loop)]
        \/ local' = [local EXCEPT ![Loop] = held]
        \/ local' = [local EXCEPT ![Loop] = sent]
        \/ local' = [local EXCEPT ![Loop] = seen]
    BY <1>17 DEF LoopDecide
  <2>7. UNCHANGED <<ledger, acked, recon>>
    BY <1>17 DEF LoopDecide
  <2>8. QED  BY <1>l, <1>quiet, <2>2, <2>5, <2>6, <2>7, FinishedSound
<1>18. ASSUME LoopGet PROVE Provenance'
  <2> DEFINE l == local[Loop]
             same == l.ok /\ \A p \in ReadParts(l.i) : view[p] = l.bundle[p]
             more == [l EXCEPT !.i = 2, !.ok = same]
  <2>1. OwnRevision(l) /\ RowSound(l.row) /\ l.row \in Row
    BY <1>18, <1>l DEF LocalSound, LoopGet, Local
  <2>2. LocalSound(Loop, more)
    BY <1>l, <2>1 DEF LocalSound, OwnRevision, Local
  <2>3. LocalSound(Loop, Synced(l))
    <3>1. CASE Synced(l) = Finished(Loop)  BY <3>1, FinishedSound
    <3>2. CASE Synced(l) # Finished(Loop)
      <4>1. Synced(l).pc = "upsert" /\ Synced(l).row.last = l.row.last
        BY <1>l, <2>1, <3>2 DEF Synced, Local, Row
      <4>2. QED  BY <2>1, <4>1 DEF LocalSound, RowSound
    <3>3. QED  BY <3>1, <3>2
  <2>4. LocalSound(Loop, Drifted(l))
    <3>1. /\ Drifted(l).pc \in {"patch", "upsert"} /\ Drifted(l).row.last = l.row.last
          /\ Drifted(l).rev = l.rev /\ Drifted(l).bundle = l.bundle
      BY <1>l, <2>1 DEF Drifted, Local, Row
    <3>2. QED  BY <2>1, <3>1 DEF LocalSound, RowSound, OwnRevision
  <2>5. \/ local' = [local EXCEPT ![Loop] = more]
        \/ local' = [local EXCEPT ![Loop] = Synced(l)]
        \/ local' = [local EXCEPT ![Loop] = Drifted(l)]
    BY <1>18 DEF LoopGet
  <2>6. UNCHANGED <<ledger, acked, recon>>
    BY <1>18 DEF LoopGet
  <2>7. QED  BY <1>l, <1>quiet, <2>2, <2>3, <2>4, <2>5, <2>6
<1>19. ASSUME UNCHANGED <<local, ledger, acked, recon>> PROVE Provenance'
  BY <1>19 DEF Provenance, LocalSound, RowSound, OwnRevision
<1>20. ASSUME Tick \/ Environment PROVE Provenance'
  <2>1. ~Retire
    BY DEF Retire, TypeOK
  <2>2. QED  BY <1>19, <1>20, <2>1 DEF Tick, Take, Publish, IdleTick, Environment,
       LocalEdit, Restart, StatusChange, Register
<1>21. ASSUME UNCHANGED vars PROVE Provenance'
  BY <1>19, <1>21 DEF vars
<1>22. QED
  BY <1>1, <1>2, <1>3, <1>4, <1>5, <1>6, <1>7, <1>9, <1>10, <1>12, <1>13, <1>14, <1>15, <1>16,
     <1>17, <1>18, <1>20, <1>21
  DEF Next, Write, Deliver, Finish, Pass, Submit

LEMMA ProvInvInit == Init => ProvInv
<1>1. Init => Provenance
  BY DEF Init, Provenance, LocalSound, RowSound, NoRow, Fresh, Procs
<1>2. QED  BY <1>1, TypeInvInit DEF ProvInv

(* Until the greenhouse is first retired, the last delivered revision is a *)
(* ledger revision whose whole bundle the controller accepted.             *)
THEOREM DeliveredWasAccepted == Spec => []DeliveredRevisionWasAccepted
<1>1. ProvInv => DeliveredRevisionWasAccepted
  BY DEF ProvInv, Provenance, RowSound, DeliveredRevisionWasAccepted
<1>2. QED  BY <1>1, ProvInvInit, ProvInvStep, PTL DEF Spec

(* ... and no two requests ever write the same revision number.            *)
THEOREM RevisionsAreOwned == Spec => []RevisionIsMine
<1>1. ProvInv => RevisionIsMine
  BY ConstantsAssumption DEF ProvInv, Provenance, LocalSound, RevisionIsMine, Procs
<1>2. QED  BY <1>1, ProvInvInit, ProvInvStep, PTL DEF Spec

-----------------------------------------------------------------------------
(* The steps that touch what a retirement clears.                          *)
LEMMA RegistryStep ==
  ASSUME [Next]_vars
  PROVE  \/ UNCHANGED <<ledger, recon, assigned, registered>>
         \/ registered /\ UNCHANGED registered
         \/ Register
         \/ Retire
         \/ ~registered /\ UNCHANGED <<ledger, recon, assigned, registered>>
<1> USE DEF platform
<1>1. ASSUME NEW w \in Writers, Submit(w) PROVE registered /\ UNCHANGED registered
  BY <1>1 DEF Submit, ReadBaseline, SetAssignment
<1>2. ASSUME NEW w \in Writers, InsertRevision(w) PROVE registered /\ UNCHANGED registered
  BY <1>2 DEF InsertRevision
<1>3. ASSUME NEW w \in Writers, Write(w), ~InsertRevision(w)
      PROVE  UNCHANGED <<ledger, recon, assigned, registered>>
  BY <1>3 DEF Write, Seed, CheckBounds, Apply, ReadMaxRevision, InsertConflict, ReadRow
<1>4. ASSUME NEW p \in Procs, Deliver(p) \/ BroadcastDrift(p) \/ GetFailed(p)
      PROVE  UNCHANGED <<ledger, recon, assigned, registered>>
  BY <1>4 DEF Deliver, PatchAccepted, PatchRefused, PatchFailed, BroadcastDrift, GetFailed
<1>5. ASSUME NEW p \in Procs, Upsert(p)
      PROVE  /\ UNCHANGED <<ledger, assigned, registered>>
             /\ ~registered => UNCHANGED recon
  BY <1>5 DEF Upsert
<1>6. CASE Pass
  BY <1>6 DEF Pass, LoopRead, LoopDecide, LoopGet
<1>7. CASE Tick
  BY <1>7 DEF Tick, Take, Publish, IdleTick
<1>8. CASE Environment
  BY <1>8 DEF Environment, LocalEdit, Restart, StatusChange, Register
<1>9. CASE UNCHANGED vars
  BY <1>9 DEF vars
<1>10. QED
  BY <1>1, <1>2, <1>3, <1>4, <1>5, <1>6, <1>7, <1>8, <1>9 DEF Next, Finish

(* A retired greenhouse leaves no row behind.                              *)
THEOREM NothingOrphaned == Spec => []NoOrphans
<1>1. Init => NoOrphans
  BY DEF Init, NoOrphans
<1>2. NoOrphans /\ [Next]_vars => NoOrphans'
  <2> SUFFICES ASSUME NoOrphans, [Next]_vars, ~registered' PROVE NoOrphans'
    BY DEF NoOrphans
  <2>1. CASE UNCHANGED <<ledger, recon, assigned, registered>>
    BY <2>1 DEF NoOrphans
  <2>2. CASE Retire
    BY <2>2 DEF NoOrphans, Retire
  <2>3. ~Register
    BY DEF Register
  <2>4. ~(registered /\ UNCHANGED registered)
    OBVIOUS
  <2>5. QED  BY <2>1, <2>2, <2>3, <2>4, RegistryStep
<1>3. QED  BY <1>1, <1>2, PTL DEF Spec

(* The provenance ledger is only ever appended to, or retired whole.       *)
THEOREM LedgerGrows == Spec => LedgerAppendOnly
<1> DEFINE Kept == \/ ledger' = ledger
                   \/ Len(ledger') = Len(ledger) + 1 /\ SubSeq(ledger', 1, Len(ledger)) = ledger
                   \/ ~registered'
<1>1. TypeOK /\ [Next]_vars => [Kept]_vars
  <2> SUFFICES ASSUME TypeOK, [Next]_vars PROVE Kept
    OBVIOUS
  <2> USE DEF platform
  <2>1. ASSUME NEW w \in Writers, InsertRevision(w) PROVE Kept
    <3>1. ledger \in Seq(Bundle) /\ local[w].bundle \in Bundle
      BY DEF TypeOK, Local, Procs
    <3>2. ledger' = Append(ledger, local[w].bundle)
      BY <2>1 DEF InsertRevision
    <3>3. QED  BY <3>1, <3>2
  <2>2. ASSUME NEW w \in Writers, Submit(w) PROVE Kept
    BY <2>2 DEF Submit, ReadBaseline, SetAssignment
  <2>3. ASSUME NEW w \in Writers, Write(w), ~InsertRevision(w) PROVE Kept
    BY <2>3 DEF Write, Seed, CheckBounds, Apply, ReadMaxRevision, InsertConflict, ReadRow
  <2>4. ASSUME NEW p \in Procs, Deliver(p) \/ Finish(p) \/ GetFailed(p) PROVE Kept
    BY <2>4 DEF Deliver, PatchAccepted, PatchRefused, PatchFailed, Finish, Upsert,
                BroadcastDrift, GetFailed
  <2>5. CASE Pass \/ Tick
    BY <2>5 DEF Pass, LoopRead, LoopDecide, LoopGet, Tick, Take, Publish, IdleTick
  <2>6. CASE Environment
    BY <2>6 DEF Environment, LocalEdit, Restart, StatusChange, Retire, Register
  <2>7. CASE UNCHANGED vars
    BY <2>7 DEF vars
  <2>8. QED  BY <2>1, <2>2, <2>3, <2>4, <2>5, <2>6, <2>7 DEF Next
<1>2. QED  BY <1>1, TypeCorrect, PTL DEF Spec, LedgerAppendOnly

-----------------------------------------------------------------------------
(* Where the loop may be while its greenhouse is in sync.                  *)
LoopInSync(l) ==
    /\ l.pc \in {"idle", "decide", "get", "upsert"} /\ l.tell = "quiet"
    /\ l.pc \in {"decide", "get"} => l.rev = Len(ledger) /\ l.bundle = Current
    /\ l.pc = "get" => l.ok
    /\ l.pc \in {"get", "upsert"} => l.row.last = Len(ledger) /\ ~l.row.drift

(* A step of the loop alone that leaves it in such a place.                *)
LEMMA LoopStaysInSync ==
  ASSUME TypeOK, InSync, NEW l, LoopInSync(l), local' = [local EXCEPT ![Loop] = l],
         UNCHANGED <<ledger, registered, config, taken, view>>,
         recon'.last = Len(ledger), ~recon'.drift
  PROVE  InSync'
<1>1. local'[Loop] = l /\ \A w \in Writers : local'[w] = local[w]
  BY ConstantsAssumption DEF TypeOK, Procs
<1>2. Current' = Current
  BY DEF Current
<1>3. LoopInSync(local[Loop])'
  BY <1>1, <1>2 DEF LoopInSync
<1>4. QED  BY <1>1, <1>2, <1>3 DEF InSync, LoopInSync

LEMMA LoopRests == LoopInSync(Finished(Loop))
BY DEF LoopInSync, Finished, Fresh

(* Every step that is not a disturbance keeps the greenhouse in sync.      *)
LEMMA InSyncStep ==
  ASSUME TypeOK, InSync, ~Disturbed, [Next]_vars
  PROVE  InSync' /\ UNCHANGED <<config, shownDrift>>
<1> DEFINE l == local[Loop]
<1>0. /\ registered /\ ledger # <<>> /\ config = Current /\ view = Current
      /\ taken \in {NoTick, Current} /\ recon.last = Len(ledger) /\ ~recon.drift /\ LoopInSync(l)
      /\ \A w \in Writers : local[w].pc \in {"idle", "done"}
  BY DEF InSync, LoopInSync
<1>a. l \in Local /\ recon \in Row /\ Loop \in Procs
  BY DEF TypeOK, Procs
<1> HIDE DEF l
<1>1. ASSUME NEW w \in Writers, Submit(w) \/ Write(w) PROVE FALSE
  <2>1. ~Submit(w)
    BY DEF Disturbed
  <2>2. ~Write(w)
    BY <1>0 DEF Write, Seed, CheckBounds, Apply, ReadMaxRevision, InsertRevision, InsertConflict,
                ReadRow, At
  <2>3. QED  BY <1>1, <2>1, <2>2
<1>2. ASSUME NEW p \in Procs, Deliver(p) PROVE FALSE
  <2>1. At(p, "patch")
    BY <1>2 DEF Deliver, PatchAccepted, PatchRefused, PatchFailed
  <2>2. QED  BY <1>0, <2>1 DEF At, Procs, LoopInSync, l
<1>3. ASSUME NEW p \in Procs, Finish(p) \/ GetFailed(p)
      PROVE  InSync' /\ UNCHANGED <<config, shownDrift>>
  <2>1. At(p, "upsert") \/ At(p, "tell") \/ At(p, "seed") \/ At(p, "get")
    BY <1>3 DEF Finish, Upsert, BroadcastDrift, GetFailed
  <2>2. p = Loop /\ l.pc \in {"upsert", "get"}
    BY <1>0, <2>1 DEF At, Procs, LoopInSync, l
  <2>3. l.tell = "quiet" /\ l.row.last = Len(ledger) /\ ~l.row.drift
    BY <1>0, <2>2 DEF LoopInSync
  <2>4. CASE Upsert(p)
    <3>1. recon' = l.row /\ local' = [local EXCEPT ![Loop] = Finished(Loop)]
          /\ UNCHANGED <<ledger, registered, config, taken, view, shownDrift>>
      BY <1>0, <2>2, <2>3, <2>4 DEF Upsert, Return, Become, control, l
    <3>2. QED  BY <2>3, <3>1, LoopRests, LoopStaysInSync
  <2>5. CASE GetFailed(p)
    <3>1. local' = [local EXCEPT ![Loop] = Finished(Loop)]
          /\ UNCHANGED <<ledger, recon, registered, config, taken, view, shownDrift>>
      BY <2>2, <2>5 DEF GetFailed, Return, Become, control, platform
    <3>2. QED  BY <1>0, <3>1, LoopRests, LoopStaysInSync
  <2>6. ~BroadcastDrift(p)
    BY <2>2 DEF BroadcastDrift, At, l
  <2>7. QED  BY <1>3, <2>4, <2>5, <2>6 DEF Finish
<1>4. CASE LoopRead
  <2> DEFINE n == [Fresh EXCEPT !.pc = "decide", !.bundle = Current, !.rev = Len(ledger)]
  <2>1. local' = [local EXCEPT ![Loop] = n]
        /\ UNCHANGED <<ledger, recon, registered, config, taken, view, shownDrift>>
    BY <1>4 DEF LoopRead, Become, platform
  <2>2. LoopInSync(n)
    BY DEF LoopInSync, Fresh
  <2>3. QED
    <3> HIDE DEF n
    <3>1. QED  BY <1>0, <2>1, <2>2, LoopStaysInSync
<1>5. CASE LoopDecide
  <2> DEFINE n == [l EXCEPT !.row = recon]
  <2>0. UNCHANGED <<ledger, recon, registered, config, taken, view, shownDrift>>
        /\ l.pc = "decide"
    BY <1>5 DEF LoopDecide, control, platform, At, l
  <2>1. l.rev = Len(ledger) /\ l.bundle = Current /\ l.tell = "quiet"
    BY <1>0, <2>0 DEF LoopInSync
  <2>2. Correcting(n)
    BY <1>0, <1>a, <2>1 DEF Correcting, Local
  <2>3. \/ Return(Loop)
        \/ Become(Loop, [n EXCEPT !.pc = "upsert", !.row.status = "deferred"])
        \/ Become(Loop, [n EXCEPT !.pc = "get", !.ok = TRUE])
    BY <1>0, <1>5, <2>2 DEF LoopDecide, l
  <2>4. LoopInSync([n EXCEPT !.pc = "upsert", !.row.status = "deferred"])
        /\ LoopInSync([n EXCEPT !.pc = "get", !.ok = TRUE])
    BY <1>0, <1>a, <2>1 DEF LoopInSync, Local, Row
  <2>5. QED
    <3> HIDE DEF n
    <3>1. QED  BY <1>0, <2>0, <2>3, <2>4, LoopRests, LoopStaysInSync DEF Return, Become
<1>6. CASE LoopGet
  <2> DEFINE same == l.ok /\ \A p \in ReadParts(l.i) : view[p] = l.bundle[p]
             row == [l.row EXCEPT !.status = "delivered", !.fails = 0, !.drift = FALSE]
  <2>0. UNCHANGED <<ledger, recon, registered, config, taken, view, shownDrift>>
        /\ l.pc = "get"
    BY <1>6 DEF LoopGet, control, platform, At, l
  <2>1. /\ l.rev = Len(ledger) /\ l.bundle = Current /\ l.tell = "quiet" /\ l.ok
        /\ l.row.last = Len(ledger) /\ ~l.row.drift
    BY <1>0, <2>0 DEF LoopInSync
  <2>2. same
    BY <1>0, <2>1
  <2>3. local' = [local EXCEPT ![Loop] = IF l.i = 1 THEN [l EXCEPT !.i = 2, !.ok = same]
                                         ELSE IF same THEN Synced(l) ELSE Drifted(l)]
    BY <1>6 DEF LoopGet, Become, l
  <2>4. LoopInSync([l EXCEPT !.i = 2, !.ok = same])
    <3> HIDE DEF same
    <3>1. QED  BY <1>a, <2>0, <2>1, <2>2 DEF LoopInSync, Local
  <2>5. LoopInSync(Synced(l))
    <3>1. LoopInSync([l EXCEPT !.pc = "upsert", !.row = row, !.tell = "quiet"])
      BY <1>a, <2>1 DEF LoopInSync, Local, Row
    <3>2. Synced(l) = IF row = l.row THEN Finished(Loop)
                      ELSE [l EXCEPT !.pc = "upsert", !.row = row, !.tell = "quiet"]
      BY <2>1 DEF Synced
    <3> HIDE DEF row
    <3>3. QED  BY <3>1, <3>2, LoopRests
  <2> HIDE DEF same
  <2>6. QED  BY <1>0, <2>0, <2>2, <2>3, <2>4, <2>5, LoopStaysInSync
<1>7. CASE Tick \/ StatusChange \/ UNCHANGED vars
  <2>1. /\ UNCHANGED <<ledger, recon, registered, config, local, shownDrift>>
        /\ view' = Current /\ taken' \in {NoTick, Current}
    BY <1>0, <1>7 DEF Tick, Take, Publish, IdleTick, StatusChange, vars, platform, control
  <2>2. Current' = Current
    BY <2>1 DEF Current
  <2>3. QED  BY <2>1, <2>2 DEF InSync
<1>8. ~LocalEdit /\ ~Restart /\ ~Retire /\ ~Register
  BY <1>0 DEF Disturbed, Register
<1>9. QED  BY <1>1, <1>2, <1>3, <1>4, <1>5, <1>6, <1>7, <1>8 DEF Next, Pass, Environment

(* For any bundles, requests and bounds, the loop leaves a greenhouse in   *)
(* sync alone: whatever outages, lost reads and ticks meet its passes, it  *)
(* PATCHes nothing and raises no drift (reconcileGreenhouse, markSynced).  *)
THEOREM SyncStays == Spec => SyncIsStable
<1>1. TypeOK /\ [Next]_vars =>
        [InSync /\ ~Disturbed => InSync' /\ UNCHANGED <<config, shownDrift>>]_vars
  BY InSyncStep
<1>2. QED  BY <1>1, TypeCorrect, PTL DEF Spec, SyncIsStable

-----------------------------------------------------------------------------
(* What the steps do to the controller.                                    *)
LEMMA LatchStep ==
  ASSUME TypeInv, [Next]_vars
  PROVE  [Controller!Next \/ Controller!Init']_<<config, taken, view>>
<1> DEFINE Latches == [Controller!Next \/ Controller!Init']_<<config, taken, view>>
<1>a. TypeOK /\ DeliveryInRange
  BY DEF TypeInv
<1>same. ASSUME UNCHANGED <<config, taken, view>> PROVE Latches
  BY <1>same
<1>set. ASSUME NEW q \in Parts, NEW v \in Values, config' = [config EXCEPT ![q] = v],
               UNCHANGED <<taken, view>>
        PROVE  Latches
  <2>1. Controller!Accept
    BY <1>set DEF Controller!Accept
  <2>2. QED  BY <2>1 DEF Controller!Next
<1>latch. ASSUME NEW p \in Procs, At(p, "patch"), Latch(p), UNCHANGED <<taken, view>>
          PROVE  Latches
  <2>1. local[p].i \in 1..Len(PartSeq) /\ local[p].bundle \in Bundle
    BY <1>a, <1>latch DEF TypeOK, DeliveryInRange, Local
  <2>2. Target(p) \in Parts /\ local[p].bundle[Target(p)] \in Values
    BY <2>1 DEF Target, Parts, Bundle
  <2>3. QED  BY <1>latch, <1>set, <2>2 DEF Latch
<1>1. ASSUME NEW w \in Writers, Submit(w) \/ Write(w) PROVE Latches
  BY <1>1, <1>same DEF Submit, Write, ReadBaseline, Seed, CheckBounds, SetAssignment, Apply,
                       ReadMaxRevision, InsertRevision, InsertConflict, ReadRow
<1>2. ASSUME NEW p \in Procs, Deliver(p) PROVE Latches
  <2>1. CASE PatchAccepted(p)
    BY <1>latch, <2>1 DEF PatchAccepted
  <2>2. CASE PatchRefused(p)
    BY <1>same, <2>2 DEF PatchRefused
  <2>3. CASE PatchFailed(p)
    BY <1>latch, <1>same, <2>3 DEF PatchFailed
  <2>4. QED  BY <1>2, <2>1, <2>2, <2>3 DEF Deliver
<1>3. ASSUME NEW p \in Procs, Finish(p) \/ GetFailed(p) PROVE Latches
  BY <1>3, <1>same DEF Finish, Upsert, BroadcastDrift, GetFailed
<1>4. ASSUME Pass PROVE Latches
  BY <1>4, <1>same DEF Pass, LoopRead, LoopDecide, LoopGet
<1>5. ASSUME Take PROVE Latches
  <2>1. taken' # NoTick
    BY <1>5, <1>a, ConstantsAssumption DEF Take, TypeOK
  <2>2. Controller!Take
    BY <1>5, <2>1 DEF Take, Controller!Take
  <2>3. QED  BY <2>2 DEF Controller!Next
<1>6. ASSUME Publish PROVE Latches
  <2>1. Controller!Publish
    BY <1>6 DEF Publish, Controller!Publish
  <2>2. QED  BY <2>1 DEF Controller!Next
<1>7. ASSUME IdleTick \/ StatusChange \/ Retire \/ Register \/ UNCHANGED vars PROVE Latches
  BY <1>7, <1>same DEF IdleTick, StatusChange, Retire, Register, vars
<1>8. ASSUME LocalEdit PROVE Latches
  <2>1. PICK q \in Parts, v \in Values : config' = [config EXCEPT ![q] = v]
    BY <1>8 DEF LocalEdit
  <2>2. QED  BY <1>8, <1>set, <2>1 DEF LocalEdit
<1>9. ASSUME Restart PROVE Latches
  <2>1. Controller!Init'
    BY <1>9 DEF Restart, Controller!Init
  <2>2. QED  BY <2>1
<1>10. QED
  BY <1>1, <1>2, <1>3, <1>4, <1>5, <1>6, <1>7, <1>8, <1>9 DEF Next, Tick, Environment

(* The controller of the model moves only as the latch does that the      *)
(* controller's own code is proved to implement, and by restarts: no       *)
(* delivery, edit or tick does what a latch could not (rest.rs, the tick   *)
(* of runtime.rs).                                                         *)
THEOREM ControllerIsLatched == Spec => ControllerLatches
<1>1. Init => Controller!Init
  BY DEF Init, Controller!Init
<1>2. TypeInv /\ [Next]_vars => [Controller!Next \/ Controller!Init']_<<config, taken, view>>
  BY LatchStep
<1>3. QED  BY <1>1, <1>2, TypeInvInit, TypeInvStep, PTL DEF Spec, ControllerLatches

-----------------------------------------------------------------------------
(* What a writer carries, from the merge to the insert, is what its        *)
(* request asks for, whichever baseline it was merged onto.                *)
AskedOf(w, l) ==
    /\ l.pc = "seed" => Kind[w] # "profile"
    /\ l.pc \in {"bounds", "apply", "patch", "append", "insert"} => l.bundle \in Asked(w)

AsksKept == \A w \in Writers : AskedOf(w, local[w])

LEMMA MergeAsked ==
  ASSUME TypeOK, NEW w \in Writers, Kind[w] # "profile", NEW b \in Bundle
  PROVE  AskedOf(w, Merged(w, b))
<1>1. local[w] \in Local
  BY DEF TypeOK, Procs
<1>2. Merge(b, Edit[w]) \in Bundle
  BY ConstantsAssumption DEF Merge, Bundle
<1>3. Merge(b, Edit[w]) \in Asked(w)
  BY <1>2 DEF Merge, Asked
<1>4. Merged(w, b).bundle = Merge(b, Edit[w]) /\ Merged(w, b).pc \in {"bounds", "apply"}
  BY <1>1 DEF Merged, Local
<1>5. QED  BY <1>3, <1>4 DEF AskedOf

LEMMA FinishedAsked == ASSUME NEW w \in Writers PROVE AskedOf(w, Finished(w))
BY ConstantsAssumption DEF AskedOf, Finished, Fresh

(* A process moves to l; the others stay.                                  *)
LEMMA AskedMove ==
  ASSUME TypeOK, AsksKept, NEW p \in Procs, NEW l, p \in Writers => AskedOf(p, l),
         Become(p, l)
  PROVE  AsksKept'
<1>1. \A q \in Procs : local'[q] = IF q = p THEN l ELSE local[q]
  BY DEF TypeOK
<1>2. ASSUME NEW w \in Writers PROVE AskedOf(w, local'[w])
  BY <1>1 DEF AsksKept, Procs
<1>3. QED  BY <1>2 DEF AsksKept, AskedOf

LEMMA AfterDeliveryAsked ==
  ASSUME TypeOK, AsksKept, NEW w \in Writers, At(w, "patch"),
         NEW outcome \in {"accepted", "refused", "failed"}
  PROVE  AskedOf(w, AfterDelivery(w, outcome))
<1>1. w # Loop /\ local[w] \in Local /\ local[w].bundle \in Asked(w)
  BY ConstantsAssumption DEF TypeOK, Procs, AsksKept, AskedOf
<1>2. CASE outcome = "refused"
  BY <1>1, <1>2, FinishedAsked DEF AfterDelivery
<1>3. CASE outcome # "refused"
  <2> DEFINE l == AfterDelivery(w, outcome)
  <2>1. l = [local[w] EXCEPT !.pc = "append", !.ok = (outcome = "accepted")]
    BY <1>1, <1>3 DEF AfterDelivery
  <2>2. l.pc = "append" /\ l.bundle = local[w].bundle
    BY <1>1, <2>1 DEF Local
  <2>3. QED  BY <1>1, <2>2 DEF AskedOf
<1>4. QED  BY <1>2, <1>3

LEMMA AskedStep == TypeInv /\ AsksKept /\ [Next]_vars => AsksKept'
<1> SUFFICES ASSUME TypeOK, AsksKept, [Next]_vars PROVE AsksKept'
  BY DEF TypeInv
<1>w. ASSUME NEW w \in Writers
      PROVE  w \in Procs /\ w # Loop /\ local[w] \in Local /\ AskedOf(w, local[w])
  BY <1>w, ConstantsAssumption DEF Procs, TypeOK, AsksKept
<1>none. ASSUME UNCHANGED local PROVE AsksKept'
  BY <1>none DEF AsksKept, AskedOf
<1>ret. ASSUME NEW p \in Procs, Return(p) PROVE AsksKept'
  BY <1>ret, FinishedAsked, AskedMove
<1>loop. ASSUME NEW l, Become(Loop, l) PROVE AsksKept'
  <2>1. Loop \in Procs /\ Loop \notin Writers
    BY ConstantsAssumption DEF Procs
  <2>2. QED  BY <1>loop, <2>1, AskedMove
<1>1. ASSUME NEW w \in Writers, ReadBaseline(w) PROVE AsksKept'
  <2>1. CASE ledger = <<>>
    <3>1. AskedOf(w, [local[w] EXCEPT !.pc = "seed"])
      BY <1>1, <1>w DEF AskedOf, Local, ReadBaseline
    <3>2. QED  BY <1>1, <1>w, <2>1, <3>1, AskedMove DEF ReadBaseline
  <2>2. CASE ledger # <<>>
    <3>1. AskedOf(w, Merged(w, Current))
      BY <1>1, <2>2, CurrentType, MergeAsked DEF ReadBaseline
    <3>2. QED  BY <1>1, <1>w, <2>2, <3>1, AskedMove DEF ReadBaseline
  <2>3. QED  BY <2>1, <2>2
<1>2. ASSUME NEW w \in Writers, Seed(w) PROVE AsksKept'
  <2> DEFINE seen == Overlay(local[w].bundle, local[w].i)
  <2>1. seen \in Bundle /\ Kind[w] # "profile"
    BY <1>2, <1>w DEF TypeOK, Overlay, Bundle, Local, Seed, AskedOf
  <2>2. AskedOf(w, Merged(w, seen))
    BY <2>1, MergeAsked
  <2>3. AskedOf(w, [local[w] EXCEPT !.i = 2, !.bundle = seen])
    BY <1>2, <1>w, <2>1 DEF AskedOf, Local, Seed
  <2>4. QED  BY <1>2, <1>w, <2>2, <2>3, AskedMove DEF Seed
<1>3. ASSUME NEW w \in Writers, CheckBounds(w) PROVE AsksKept'
  <2>1. AskedOf(w, [local[w] EXCEPT !.pc = "apply"])
    BY <1>3, <1>w DEF AskedOf, Local, CheckBounds
  <2>2. QED  BY <1>3, <1>ret, <1>w, <2>1, AskedMove DEF CheckBounds
<1>4. ASSUME NEW w \in Writers, SetAssignment(w) PROVE AsksKept'
  <2>1. ASSUME NEW s \in Stages
        PROVE  AskedOf(w, [local[w] EXCEPT !.pc = "apply", !.bundle = Targets[s]])
    BY <1>4, <1>w DEF AskedOf, Local, SetAssignment, Asked
  <2>2. QED  BY <1>4, <1>w, <2>1, AskedMove DEF SetAssignment
<1>5. ASSUME NEW w \in Writers, Apply(w) PROVE AsksKept'
  <2>1. /\ AskedOf(w, [local[w] EXCEPT !.pc = "append", !.ok = FALSE])
        /\ AskedOf(w, [local[w] EXCEPT !.pc = "patch", !.i = 1])
    BY <1>5, <1>w DEF AskedOf, Local, Apply
  <2>2. QED  BY <1>5, <1>ret, <1>w, <2>1, AskedMove DEF Apply
<1>6. ASSUME NEW w \in Writers, ReadMaxRevision(w) PROVE AsksKept'
  <2>1. AskedOf(w, [local[w] EXCEPT !.pc = "insert", !.rev = Len(ledger)])
    BY <1>6, <1>w DEF AskedOf, Local, ReadMaxRevision
  <2>2. QED  BY <1>6, <1>w, <2>1, AskedMove DEF ReadMaxRevision
<1>7. ASSUME NEW w \in Writers, InsertRevision(w) PROVE AsksKept'
  <2>1. AskedOf(w, [local[w] EXCEPT !.pc = "bookkeep", !.rev = @ + 1])
    BY <1>w DEF AskedOf, Local
  <2>2. QED  BY <1>7, <1>w, <2>1, AskedMove DEF InsertRevision
<1>8. ASSUME NEW w \in Writers, ReadRow(w) PROVE AsksKept'
  <2> DEFINE l == [local[w] EXCEPT
                     !.pc = "upsert", !.row = RecordedRow(local[w], recon),
                     !.tell = IF local[w].ok /\ recon.drift THEN "clear" ELSE "quiet"]
  <2>1. l.pc = "upsert"
    BY <1>w DEF Local
  <2>2. AskedOf(w, l)
    BY <2>1 DEF AskedOf
  <2>3. QED  BY <1>8, <1>w, <2>2, AskedMove DEF ReadRow
<1>9. ASSUME NEW p \in Procs, Deliver(p) PROVE AsksKept'
  <2>1. ASSUME NEW outcome \in {"accepted", "refused", "failed"}, At(p, "patch"),
               Become(p, AfterDelivery(p, outcome))
        PROVE  AsksKept'
    BY <2>1, AfterDeliveryAsked, AskedMove
  <2>2. ASSUME At(p, "patch"), Become(p, [local[p] EXCEPT !.i = @ + 1]) PROVE AsksKept'
    <3>1. p \in Writers => AskedOf(p, [local[p] EXCEPT !.i = @ + 1])
      BY <1>w DEF AskedOf, Local
    <3>2. QED  BY <2>2, <3>1, AskedMove
  <2>3. QED  BY <1>9, <2>1, <2>2 DEF Deliver, PatchAccepted, PatchRefused, PatchFailed
<1>10. ASSUME NEW p \in Procs, Finish(p) \/ GetFailed(p) PROVE AsksKept'
  <2>1. p \in Writers => AskedOf(p, [local[p] EXCEPT !.pc = "tell"])
    BY <1>w DEF AskedOf, Local
  <2>2. QED  BY <1>10, <1>ret, <2>1, AskedMove DEF Finish, Upsert, BroadcastDrift, GetFailed
<1>11. ASSUME NEW w \in Writers, InsertConflict(w) PROVE AsksKept'
  BY <1>11, <1>ret, <1>w DEF InsertConflict
<1>12. ASSUME Pass PROVE AsksKept'
  BY <1>12, <1>loop DEF Pass, LoopRead, LoopDecide, LoopGet
<1>13. ASSUME Tick \/ Environment \/ UNCHANGED vars PROVE AsksKept'
  BY <1>13, <1>none DEF Tick, Take, Publish, IdleTick, Environment, LocalEdit, Restart,
                        StatusChange, Retire, Register, vars
<1>14. QED
  BY <1>1, <1>2, <1>3, <1>4, <1>5, <1>6, <1>7, <1>8, <1>9, <1>10, <1>11, <1>12, <1>13
  DEF Next, Submit, Write

-----------------------------------------------------------------------------
(* The steps of IntendedState that the model's steps are.                  *)
IntentInv == ProvInv /\ AsksKept

IsOpen(l) == l.pc \in {"idle", "seed", "bounds", "apply", "patch", "append", "insert"}

LEMMA OpenAfter ==
  ASSUME TypeOK, NEW p \in Procs, NEW l, Become(p, l)
  PROVE  /\ (p \in Writers => (IsOpen(l) <=> IsOpen(local[p]))) => Open' = Open
         /\ p \in Writers /\ ~IsOpen(l) => Open' = Open \ {p}
<1>1. \A q \in Procs : local'[q] = IF q = p THEN l ELSE local[q]
  BY DEF TypeOK
<1>2. \A w \in Writers : w \in Procs
  BY DEF Procs
<1>3. Open = {w \in Writers : IsOpen(local[w])} /\ Open' = {w \in Writers : IsOpen(local'[w])}
  BY DEF Open, IsOpen
<1> HIDE DEF IsOpen
<1>4. QED  BY <1>1, <1>2, <1>3

(* What IntendedState sees of a step in which only process p moves.        *)
LEMMA Unseen ==
  ASSUME TypeOK, NEW p \in Procs, NEW l, Become(p, l),
         p \in Writers => (IsOpen(l) <=> IsOpen(local[p])),
         UNCHANGED <<registered, ledger, acked, recon, retires>>
  PROVE  UNCHANGED Platform!vars
BY OpenAfter DEF Platform!vars

LEMMA Refusal ==
  ASSUME TypeOK, NEW w \in Writers, IsOpen(local[w]), Return(w),
         UNCHANGED <<registered, ledger, acked, recon, retires>>
  PROVE  Platform!Refuse(w)
<1>1. w \in Procs /\ w # Loop
  BY ConstantsAssumption DEF Procs
<1>2. ~IsOpen(Finished(w))
  BY <1>1 DEF IsOpen, Finished, Fresh
<1>3. Open' = Open \ {w} /\ w \in Open
  BY <1>1, <1>2, OpenAfter DEF Open, IsOpen
<1>4. QED  BY <1>3 DEF Platform!Refuse, Platform!Answer

(* A delivery that the controller accepts whole, or that ends otherwise.   *)
LEMMA IntentDelivery ==
  ASSUME IntentInv, NEW p \in Procs, Deliver(p)
  PROVE  [Platform!Next]_(Platform!vars)
<1>a. TypeOK /\ local[p] \in Local /\ local[p].bundle \in Bundle /\ At(p, "patch")
  BY DEF IntentInv, ProvInv, TypeInv, TypeOK, Local, Deliver, PatchAccepted, PatchRefused, PatchFailed
<1>b. IsOpen(local[p])
  BY <1>a DEF IsOpen
<1>c. UNCHANGED <<registered, ledger, recon, retires>>
  BY DEF Deliver, PatchAccepted, PatchRefused, PatchFailed
<1>d. ASSUME NEW outcome \in {"accepted", "failed"}, p \in Writers
      PROVE  IsOpen(AfterDelivery(p, outcome))
  <2>1. p # Loop
    BY <1>d, ConstantsAssumption
  <2>2. AfterDelivery(p, outcome) = [local[p] EXCEPT !.pc = "append", !.ok = (outcome = "accepted")]
    BY <1>d, <2>1 DEF AfterDelivery
  <2>3. AfterDelivery(p, outcome).pc = "append"
    BY <1>a, <2>2 DEF Local
  <2>4. QED  BY <2>3 DEF IsOpen
<1>1. CASE PatchAccepted(p)
  <2>1. CASE local[p].i < Len(PartSeq)
    <3>1. [local[p] EXCEPT !.i = @ + 1].pc = "patch"
      BY <1>a DEF Local
    <3>2. IsOpen([local[p] EXCEPT !.i = @ + 1])
      BY <3>1 DEF IsOpen
    <3>3. QED  BY <1>1, <1>a, <1>b, <1>c, <2>1, <3>2, Unseen DEF PatchAccepted
  <2>2. CASE ~(local[p].i < Len(PartSeq))
    <3>1. Become(p, AfterDelivery(p, "accepted")) /\ acked' = acked \cup {local[p].bundle}
      BY <1>1, <2>2 DEF PatchAccepted
    <3>2. Open' = Open
      BY <1>a, <1>b, <1>d, <3>1, OpenAfter
    <3>3. retires > 0 \/ Platform!Wanted(local[p].bundle)
      <4>1. CASE p \in Writers
        <5>1. p \in Open /\ local[p].bundle \in Asked(p)
          BY <1>a, <4>1 DEF Open, IntentInv, AsksKept, AskedOf
        <5>2. QED  BY <4>1, <5>1 DEF Platform!Wanted
      <4>2. CASE p \notin Writers
        <5>1. p = Loop
          BY <4>2 DEF Procs
        <5>2. ASSUME retires = 0
              PROVE  local[p].rev \in 1..Len(ledger) /\ ledger[local[p].rev] = local[p].bundle
          BY <1>a, <5>1, <5>2 DEF IntentInv, ProvInv, Provenance, LocalSound, OwnRevision
        <5>3. retires = 0 \/ retires > 0
          BY <1>a, ConstantsAssumption DEF TypeOK
        <5>4. QED  BY <5>2, <5>3 DEF Platform!Wanted
      <4>3. QED  BY <4>1, <4>2
    <3>4. Platform!Accept
      BY <1>a, <1>c, <3>1, <3>2, <3>3 DEF Platform!Accept
    <3>5. QED  BY <3>4 DEF Platform!Next
  <2>3. QED  BY <2>1, <2>2
<1>2. CASE PatchRefused(p)
  <2>1. Become(p, AfterDelivery(p, "refused")) /\ UNCHANGED acked
    BY <1>2 DEF PatchRefused
  <2>2. CASE p \in Writers
    <3>1. AfterDelivery(p, "refused") = Finished(p)
      BY <2>2, ConstantsAssumption DEF AfterDelivery
    <3>2. Platform!Refuse(p)
      BY <1>a, <1>b, <1>c, <2>1, <2>2, <3>1, Refusal
    <3>3. QED  BY <2>2, <3>2 DEF Platform!Next
  <2>3. CASE p \notin Writers
    BY <1>a, <1>c, <2>1, <2>3, Unseen
  <2>4. QED  BY <2>2, <2>3
<1>3. CASE PatchFailed(p)
  <2>1. Become(p, AfterDelivery(p, "failed")) /\ UNCHANGED acked
    BY <1>3 DEF PatchFailed
  <2>2. QED  BY <1>a, <1>b, <1>c, <1>d, <2>1, Unseen
<1>4. QED  BY <1>1, <1>2, <1>3 DEF Deliver

(* The insert answers the request with a revision of what it asked for.    *)
LEMMA IntentInsert ==
  ASSUME IntentInv, NEW w \in Writers, InsertRevision(w)
  PROVE  Platform!Record(w)
<1>1. TypeOK /\ w \in Procs /\ local[w] \in Local /\ At(w, "insert")
  BY DEF IntentInv, ProvInv, TypeInv, TypeOK, Procs, InsertRevision
<1>2. [local[w] EXCEPT !.pc = "bookkeep", !.rev = @ + 1].pc = "bookkeep"
  BY <1>1 DEF Local
<1>3. ~IsOpen([local[w] EXCEPT !.pc = "bookkeep", !.rev = @ + 1])
  BY <1>2 DEF IsOpen
<1>4. Open' = Open \ {w} /\ w \in Open
  BY <1>1, <1>3, OpenAfter DEF InsertRevision, Open
<1>5. local[w].bundle \in Asked(w)
  BY <1>1 DEF IntentInv, AsksKept, AskedOf
<1>6. /\ registered /\ ledger' = Append(ledger, local[w].bundle)
      /\ UNCHANGED <<registered, acked, recon, retires>>
  BY DEF InsertRevision
<1>7. QED  BY <1>4, <1>5, <1>6 DEF Platform!Record, Platform!Answer

(* The bookkeeping of a request, or of the loop.                           *)
LEMMA IntentUpsert ==
  ASSUME IntentInv, NEW p \in Procs, Upsert(p)
  PROVE  [Platform!Next]_(Platform!vars)
<1>1. /\ TypeOK /\ local[p] \in Local /\ local[p].row \in Row /\ local[p].row.last \in Nat
      /\ At(p, "upsert")
  BY DEF IntentInv, ProvInv, TypeInv, TypeOK, Local, Row, Upsert
<1>2. [local[p] EXCEPT !.pc = "tell"].pc = "tell"
  BY <1>1 DEF Local
<1>3. ~IsOpen(local[p]) /\ ~IsOpen([local[p] EXCEPT !.pc = "tell"])
  BY <1>1, <1>2 DEF IsOpen
<1>4. p \in Writers => ~IsOpen(Finished(p))
  BY ConstantsAssumption DEF IsOpen, Finished, Fresh
<1>5. Open' = Open
  BY <1>1, <1>3, <1>4, OpenAfter DEF Upsert
<1>6. CASE registered
  <2>1. recon'.last = local[p].row.last /\ UNCHANGED <<registered, ledger, acked, retires>>
    BY <1>6 DEF Upsert
  <2>2. retires = 0 => RowSound(local[p].row)
    BY DEF IntentInv, ProvInv, Provenance, LocalSound
  <2>3. retires = 0 \/ retires > 0
    BY <1>1, ConstantsAssumption DEF TypeOK
  <2>4. retires > 0 \/ Platform!Deliverable(recon'.last)
    BY <2>1, <2>2, <2>3 DEF RowSound, Platform!Deliverable
  <2>5. Platform!Book
    BY <1>1, <1>5, <1>6, <2>1, <2>4 DEF Platform!Book
  <2>6. QED  BY <2>5 DEF Platform!Next
<1>7. CASE ~registered
  BY <1>5, <1>7 DEF Upsert, Platform!vars
<1>8. QED  BY <1>6, <1>7

LEMMA IntentStep ==
  ASSUME IntentInv, [Next]_vars
  PROVE  [Platform!Next]_(Platform!vars)
<1> DEFINE Intended == [Platform!Next]_(Platform!vars)
<1>a. TypeOK
  BY DEF IntentInv, ProvInv, TypeInv
<1>w. ASSUME NEW w \in Writers PROVE w \in Procs /\ local[w] \in Local /\ w # Loop
  BY <1>a, <1>w, ConstantsAssumption DEF TypeOK, Procs
<1>still. ASSUME NEW p \in Procs, NEW l, Become(p, l),
                 p \in Writers => (IsOpen(l) <=> IsOpen(local[p])),
                 UNCHANGED <<registered, ledger, acked, recon, retires>>
          PROVE  Intended
  BY <1>a, <1>still, Unseen
<1>ret. ASSUME NEW p \in Procs, Return(p), UNCHANGED <<registered, ledger, acked, recon, retires>>
        PROVE  Intended
  <2>1. CASE p \in Writers /\ IsOpen(local[p])
    <3>1. Platform!Refuse(p)
      BY <1>a, <1>ret, <2>1, Refusal
    <3>2. QED  BY <2>1, <3>1 DEF Platform!Next
  <2>2. CASE p \in Writers /\ ~IsOpen(local[p])
    <3>1. ~IsOpen(Finished(p))
      BY <2>2, ConstantsAssumption DEF IsOpen, Finished, Fresh
    <3>2. QED  BY <1>ret, <1>still, <2>2, <3>1
  <2>3. CASE p \notin Writers
    BY <1>ret, <1>still, <2>3
  <2>4. QED  BY <2>1, <2>2, <2>3
<1>1. ASSUME NEW w \in Writers, ReadBaseline(w) PROVE Intended
  <2>1. [local[w] EXCEPT !.pc = "seed"].pc = "seed" /\ Merged(w, Current).pc \in {"bounds", "apply"}
    BY <1>w DEF Local, Merged
  <2>2. IsOpen(local[w]) /\ IsOpen([local[w] EXCEPT !.pc = "seed"]) /\ IsOpen(Merged(w, Current))
    BY <1>1, <2>1 DEF ReadBaseline, IsOpen
  <2>3. UNCHANGED <<registered, ledger, acked, recon, retires>>
    BY <1>1 DEF ReadBaseline
  <2>4. QED  BY <1>1, <1>still, <1>w, <2>2, <2>3 DEF ReadBaseline
<1>2. ASSUME NEW w \in Writers, Seed(w) PROVE Intended
  <2> DEFINE seen == Overlay(local[w].bundle, local[w].i)
             next == [local[w] EXCEPT !.i = 2, !.bundle = seen]
  <2>1. next.pc = "seed" /\ Merged(w, seen).pc \in {"bounds", "apply"}
    BY <1>2, <1>w DEF Local, Merged, Seed
  <2>2. IsOpen(local[w]) /\ IsOpen(next) /\ IsOpen(Merged(w, seen))
    BY <1>2, <2>1 DEF Seed, IsOpen
  <2>3. UNCHANGED <<registered, ledger, acked, recon, retires>>
    BY <1>2 DEF Seed
  <2>4. QED  BY <1>2, <1>still, <1>w, <2>2, <2>3 DEF Seed
<1>3. ASSUME NEW w \in Writers, CheckBounds(w) PROVE Intended
  <2>1. [local[w] EXCEPT !.pc = "apply"].pc = "apply"
    BY <1>w DEF Local
  <2>2. IsOpen(local[w]) /\ IsOpen([local[w] EXCEPT !.pc = "apply"])
    BY <1>3, <2>1 DEF CheckBounds, IsOpen
  <2>3. UNCHANGED <<registered, ledger, acked, recon, retires>>
    BY <1>3 DEF CheckBounds
  <2>4. QED  BY <1>3, <1>ret, <1>still, <1>w, <2>2, <2>3 DEF CheckBounds
<1>4. ASSUME NEW w \in Writers, SetAssignment(w) PROVE Intended
  <2>1. PICK s \in Stages :
          Become(w, [local[w] EXCEPT !.pc = "apply", !.bundle = Targets[s]])
    BY <1>4 DEF SetAssignment
  <2>2. [local[w] EXCEPT !.pc = "apply", !.bundle = Targets[s]].pc = "apply"
    BY <1>w DEF Local
  <2>3. IsOpen(local[w]) /\ IsOpen([local[w] EXCEPT !.pc = "apply", !.bundle = Targets[s]])
    BY <1>4, <2>2 DEF SetAssignment, IsOpen
  <2>4. UNCHANGED <<registered, ledger, acked, recon, retires>>
    BY <1>4 DEF SetAssignment
  <2>5. QED  BY <1>still, <1>w, <2>1, <2>3, <2>4
<1>5. ASSUME NEW w \in Writers, Apply(w) PROVE Intended
  <2>1. /\ [local[w] EXCEPT !.pc = "append", !.ok = FALSE].pc = "append"
        /\ [local[w] EXCEPT !.pc = "patch", !.i = 1].pc = "patch"
    BY <1>w DEF Local
  <2>2. /\ IsOpen(local[w]) /\ IsOpen([local[w] EXCEPT !.pc = "append", !.ok = FALSE])
        /\ IsOpen([local[w] EXCEPT !.pc = "patch", !.i = 1])
    BY <1>5, <2>1 DEF Apply, IsOpen
  <2>3. UNCHANGED <<registered, ledger, acked, recon, retires>>
    BY <1>5 DEF Apply
  <2>4. QED  BY <1>5, <1>ret, <1>still, <1>w, <2>2, <2>3 DEF Apply
<1>6. ASSUME NEW w \in Writers, ReadMaxRevision(w) PROVE Intended
  <2>1. [local[w] EXCEPT !.pc = "insert", !.rev = Len(ledger)].pc = "insert"
    BY <1>w DEF Local
  <2>2. IsOpen(local[w]) /\ IsOpen([local[w] EXCEPT !.pc = "insert", !.rev = Len(ledger)])
    BY <1>6, <2>1 DEF ReadMaxRevision, IsOpen
  <2>3. UNCHANGED <<registered, ledger, acked, recon, retires>>
    BY <1>6 DEF ReadMaxRevision
  <2>4. QED  BY <1>6, <1>still, <1>w, <2>2, <2>3 DEF ReadMaxRevision
<1>7. ASSUME NEW w \in Writers, InsertRevision(w) PROVE Intended
  BY <1>7, IntentInsert DEF Platform!Next
<1>8. ASSUME NEW w \in Writers, InsertConflict(w) PROVE Intended
  BY <1>8, <1>ret, <1>w DEF InsertConflict
<1>9. ASSUME NEW w \in Writers, ReadRow(w) PROVE Intended
  <2> DEFINE l == [local[w] EXCEPT
                     !.pc = "upsert", !.row = RecordedRow(local[w], recon),
                     !.tell = IF local[w].ok /\ recon.drift THEN "clear" ELSE "quiet"]
  <2>1. l.pc = "upsert"
    BY <1>w DEF Local
  <2>2. ~IsOpen(local[w]) /\ ~IsOpen(l)
    BY <1>9, <2>1 DEF ReadRow, IsOpen
  <2>3. UNCHANGED <<registered, ledger, acked, recon, retires>>
    BY <1>9 DEF ReadRow
  <2>4. QED  BY <1>9, <1>still, <1>w, <2>2, <2>3 DEF ReadRow
<1>10. ASSUME NEW p \in Procs, Deliver(p) PROVE Intended
  BY <1>10, IntentDelivery
<1>11. ASSUME NEW p \in Procs, Upsert(p) PROVE Intended
  BY <1>11, IntentUpsert
<1>12. ASSUME NEW p \in Procs, BroadcastDrift(p) \/ GetFailed(p) PROVE Intended
  BY <1>12, <1>ret DEF BroadcastDrift, GetFailed
<1>13. ASSUME Pass PROVE Intended
  <2>1. Loop \in Procs /\ Loop \notin Writers
    BY ConstantsAssumption DEF Procs
  <2>2. UNCHANGED <<registered, ledger, acked, recon, retires>>
    BY <1>13 DEF Pass, LoopRead, LoopDecide, LoopGet
  <2>3. PICK l : Become(Loop, l)
    BY <1>13 DEF Pass, LoopRead, LoopDecide, LoopGet
  <2>4. QED  BY <1>still, <2>1, <2>2, <2>3
<1>14. ASSUME Retire PROVE Intended
  <2>1. Open' = Open /\ recon'.last = 0
    BY <1>14 DEF Retire, Open, NoRow
  <2>2. (retires > 0)' = TRUE
    BY <1>14, <1>a DEF Retire, TypeOK
  <2>3. Platform!Retire
    BY <1>14, <2>1, <2>2 DEF Retire, Platform!Retire
  <2>4. QED  BY <2>3 DEF Platform!Next
<1>15. ASSUME Register PROVE Intended
  <2>1. Open' = Open
    BY <1>15 DEF Register, Open
  <2>2. Platform!Register
    BY <1>15, <2>1 DEF Register, Platform!Register
  <2>3. QED  BY <2>2 DEF Platform!Next
<1>16. ASSUME Tick \/ LocalEdit \/ Restart \/ StatusChange \/ UNCHANGED vars PROVE Intended
  <2>1. UNCHANGED <<registered, ledger, acked, recon, retires, local>>
    BY <1>16 DEF Tick, Take, Publish, IdleTick, LocalEdit, Restart, StatusChange, vars
  <2>2. Open' = Open
    BY <2>1 DEF Open
  <2>3. QED  BY <2>1, <2>2 DEF Platform!vars
<1>17. QED
  BY <1>1, <1>2, <1>3, <1>4, <1>5, <1>6, <1>7, <1>8, <1>9, <1>10, <1>11, <1>12, <1>13, <1>14,
     <1>15, <1>16
  DEF Next, Submit, Write, Finish, Environment

(* For any requests, bundles, parts and bounds, the handlers and the loop  *)
(* keep what IntendedState promises: each request is answered at most once *)
(* and only with what it asked for, the controller is sent nothing nobody  *)
(* asked for, and the revision booked as delivered was accepted whole.     *)
THEOREM IntentIsKept == Spec => KeepsIntent
<1>1. Init => IntentInv /\ Platform!Init
  <2>1. Init => AsksKept
    BY DEF Init, AsksKept, AskedOf, Fresh, Procs
  <2>2. Init => Platform!Init
    BY ConstantsAssumption DEF Init, Platform!Init, NoRow, Open, Fresh, Procs
  <2>3. QED  BY <2>1, <2>2, ProvInvInit DEF IntentInv
<1>2. IntentInv /\ [Next]_vars => IntentInv'
  BY ProvInvStep, AskedStep DEF IntentInv, ProvInv
<1>3. IntentInv /\ [Next]_vars => [Platform!Next]_(Platform!vars)
  BY IntentStep
<1>4. QED  BY <1>1, <1>2, <1>3, PTL DEF Spec, KeepsIntent, Platform!Spec
=============================================================================
