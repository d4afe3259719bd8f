-------------------------- MODULE DashboardProofs --------------------------
(***************************************************************************)
(* Proofs about the dashboard as a whole, for any greenhouses, fields,     *)
(* values, writers and libraries: first its pages that show polled reads,  *)
(* one by one (FleetPage, SetpointForm, OptimizerConsole; the profile      *)
(* pages and the stream's link have modules of their own), then that the   *)
(* dashboard implements the specification of each part, so that what is    *)
(* proved of the parts holds of it.                                        *)
(***************************************************************************)
EXTENDS Dashboard, StreamClientProofs, ProfilePagesProofs

-----------------------------------------------------------------------------
(* The fleet page: the charts' poll backs off as polls fail, and the list  *)
(* never falls back behind a write the operator was told of.               *)

(* The page's count is never behind the failures, so the interval that was *)
(* set from it before the last of them is one failure behind at most.      *)
BackOffInv == misses >= failed /\ BacksOff

(* A write that was answered is in the registry, and a read that answers   *)
(* after the list was invalidated for it has seen it.                      *)
Seen(call) ==
    call # NoCall =>
        /\ call.phase \in {"ok", "done"} => call.at =< registry.at
        /\ call.phase = "done" /\ fleetRead \in Lists => call.at =< fleetRead.at

ListInv ==
    /\ told =< registry.at /\ (fleetRead \in Lists => told =< fleetRead.at)
    /\ Seen(joining) /\ Seen(leaving)

(* Only a greenhouse's page has the dialog that retires it.                *)
PageInv == confirm => where # "fleet"

FleetInv == FleetTypeOK /\ BackOffInv /\ ListInv /\ PageInv

(* What an answer makes of a call: a write of the registry, or a refusal.  *)
Answers(call, answered) ==
    /\ call \in Calls /\ answered \in Calls
    /\ answered.phase \in {"ok", "refused"}
    /\ answered.phase = "ok" => answered.at = registry'.at

(* And what the invalidation of the list makes of one that was accepted.   *)
Reported(call, done) ==
    /\ call \in Calls /\ done \in Calls
    /\ call.phase = "ok" /\ done.at = call.at

LEMMA Nothing == NoCall \notin Calls /\ NoList \notin Lists /\ AskedList \notin Lists
BY FleetPageAssumption DEF Calls, Lists

LEMMA CadenceBounds ==
    ASSUME NEW slow \in BOOLEAN, NEW n \in Nat
    PROVE  /\ Cadence(slow, n) \in {1, 2, 5} /\ Cadence(slow, n) >= Escalated(n)
           /\ slow => Cadence(slow, n) >= 2
BY DEF Cadence, Escalated

LEMMA CountedBounds ==
    ASSUME NEW ok \in BOOLEAN, NEW n \in 0..MaxMisses
    PROVE  Counted(ok, n) \in 0..MaxMisses
BY FleetPageAssumption DEF Counted

(* One more failure, counted from an interval that was not behind.         *)
LEMMA OneBehind ==
    ASSUME NEW ok \in BOOLEAN, NEW n \in 0..MaxMisses, NEW k \in 0..MaxMisses, k =< n
    PROVE  Counted(ok, k) =< Counted(ok, n) /\ Escalated(Counted(ok, k) - 1) =< Escalated(n)
BY FleetPageAssumption DEF Counted, Escalated

-----------------------------------------------------------------------------
LEMMA FleetStarts == FleetInit => FleetInv
<1> SUFFICES ASSUME FleetInit PROVE FleetInv
    OBVIOUS
<1> USE FleetPageAssumption DEF FleetInit
<1>1. FleetTypeOK
  <2>1. registry \in Lists /\ fleet \in Lists
        BY DEF Lists
  <2>2. dialog \in [open : BOOLEAN, id : Sites \cup {NoSite}, busy : BOOLEAN]
        BY DEF NoForm
  <2>3. told \in 0..MaxRegistry /\ misses \in 0..MaxMisses /\ failed \in 0..MaxMisses
        OBVIOUS
  <2> HIDE FleetPageAssumption
  <2> QED BY <2>1, <2>2, <2>3 DEF FleetTypeOK
<1>2. BackOffInv
      BY DEF BackOffInv, BacksOff, Escalated
<1>3. ListInv
      BY DEF ListInv, Seen, Lists
<1> QED BY <1>1, <1>2, <1>3 DEF FleetInv, PageInv

(* The part of the page about the charts.                                  *)
LEMMA SparkKeeps ==
    ASSUME FleetInv, FleetNext, NEW ok \in BOOLEAN,
           Render \/ PollCharts \/ ChartsSettle(ok)
    PROVE  FleetInv'
<1> USE FleetPageAssumption
<1>1. misses \in 0..MaxMisses /\ failed \in 0..MaxMisses /\ degraded \in BOOLEAN /\ failed =< misses
      BY DEF FleetInv, FleetTypeOK, BackOffInv
<1>2. UNCHANGED <<listVars, siteVars>>
      BY DEF Render, PollCharts, ChartsSettle
<1>3. ListInv'
      BY <1>2 DEF FleetInv, ListInv, Seen, listVars, siteVars
<1>4. degraded' \in BOOLEAN /\ cadence' = Cadence(degraded', misses)
      BY <1>1 DEF Render, PollCharts, ChartsSettle
<1>5. CASE Render \/ PollCharts
  <2>1. misses' = misses /\ failed' = failed /\ polling' \in BOOLEAN
        BY <1>5 DEF Render, PollCharts, FleetInv, FleetTypeOK
  <2>2. BackOffInv'
    <3>1. Escalated(failed - 1) =< Escalated(misses)
          BY <1>1 DEF Escalated
    <3> QED BY <1>1, <1>4, <2>1, <3>1, CadenceBounds DEF BackOffInv, BacksOff, Escalated
  <2>3. FleetTypeOK'
        BY <1>1, <1>2, <1>4, <2>1, CadenceBounds DEF FleetInv, FleetTypeOK, listVars, siteVars
  <2> QED BY <1>2, <1>3, <2>2, <2>3 DEF FleetInv, PageInv, siteVars
<1>6. CASE ChartsSettle(ok)
  <2>1. misses' = Counted(ok, misses) /\ failed' = Counted(ok, failed) /\ polling' = FALSE
        BY <1>6 DEF ChartsSettle
  <2>2. BackOffInv'
    <3>1. /\ failed' =< misses' /\ failed' \in 0..MaxMisses /\ misses' \in 0..MaxMisses
          /\ Escalated(failed' - 1) =< Escalated(misses)
          BY <1>1, <2>1, OneBehind, CountedBounds
    <3>2. cadence' >= Escalated(misses) /\ (degraded' => cadence' >= 2) /\ cadence' \in {1, 2, 5}
          BY <1>1, <1>4, CadenceBounds
    <3>3. Escalated(misses) \in Nat /\ Escalated(failed' - 1) \in Nat
          BY DEF Escalated
    <3> QED BY <3>1, <3>2, <3>3 DEF BackOffInv, BacksOff
  <2>3. misses' \in 0..MaxMisses /\ failed' \in 0..MaxMisses
        BY <1>1, <2>1, CountedBounds
  <2>4. cadence' \in {1, 2, 5}
        BY <1>1, <1>4, CadenceBounds
  <2>5. FleetTypeOK'
        BY <1>2, <1>4, <2>1, <2>3, <2>4 DEF FleetInv, FleetTypeOK, listVars, siteVars
  <2> QED BY <1>2, <1>3, <2>2, <2>5 DEF FleetInv, PageInv, siteVars
<1> QED BY <1>5, <1>6

(* Actions that leave the charts' poll alone leave its bound alone.        *)
LEMMA BackOffStays ==
    ASSUME FleetInv, UNCHANGED sparkVars, where' = where \/ where' # "fleet"
    PROVE  BackOffInv'
BY DEF FleetInv, BackOffInv, BacksOff, sparkVars

(* A visit starts without failures and with an interval from none.         *)
LEMMA MountBacksOff ==
    ASSUME MountFleet
    PROVE  BackOffInv' /\ misses' \in 0..MaxMisses /\ failed' \in 0..MaxMisses
           /\ degraded' \in BOOLEAN /\ cadence' \in {1, 2, 5} /\ polling' \in BOOLEAN
<1>1. /\ misses' \in {0, 1} /\ failed' = 0 /\ degraded' \in BOOLEAN
      /\ polling' \in BOOLEAN /\ cadence' = Cadence(degraded', 0)
      BY DEF MountFleet
<1>2. cadence' \in {1, 2, 5} /\ (degraded' => cadence' >= 2)
      BY <1>1, CadenceBounds
<1>3. BackOffInv'
      BY <1>1, <1>2 DEF BackOffInv, BacksOff, Escalated
<1> QED BY <1>1, <1>2, <1>3, FleetPageAssumption

LEMMA ListActionsKeep ==
    ASSUME FleetInv,
           PollFleet \/ ServeFleet \/ FleetAnswered \/ FleetFailed \/ FleetFrame \/ OtherOperators
    PROVE  FleetInv'
<1> USE FleetPageAssumption DEF FleetInv
<1>1. UNCHANGED <<siteVars, sparkVars>>
      BY DEF PollFleet, ServeFleet, FleetAnswered, FleetFailed, FleetFrame, OtherOperators
<1>2. BackOffInv'
      BY <1>1, BackOffStays DEF siteVars
<1>3. /\ where' = where /\ dialog' = dialog /\ joining' = joining /\ confirm' = confirm
      /\ leaving' = leaving /\ told' = told /\ misses' = misses /\ failed' = failed
      /\ degraded' = degraded /\ cadence' = cadence /\ polling' = polling
      BY <1>1 DEF siteVars, sparkVars
<1>4. /\ registry' \in Lists /\ fleet' \in Lists /\ fleetError' \in BOOLEAN
      /\ fleetRead' \in Lists \cup {NoList, AskedList} /\ registry.at =< registry'.at
      /\ fleetRead' \in Lists => fleetRead' = fleetRead \/ fleetRead' = registry
  <2>1. /\ registry \in Lists /\ fleet \in Lists /\ fleetError \in BOOLEAN
        /\ fleetRead \in Lists \cup {NoList, AskedList} /\ registry.at =< registry.at
        /\ NoList \notin Lists /\ AskedList \notin Lists
        BY DEF FleetTypeOK, Lists
  <2>2. CASE PollFleet
        BY <2>1, <2>2 DEF PollFleet, Reload
  <2>3. CASE ServeFleet
        BY <2>1, <2>3 DEF ServeFleet
  <2>4. CASE FleetAnswered
        BY <2>1, <2>4 DEF FleetAnswered
  <2>5. CASE FleetFailed
        BY <2>1, <2>5 DEF FleetFailed
  <2>6. CASE FleetFrame
        BY <2>1, <2>6 DEF FleetFrame
  <2>7. CASE OtherOperators
    <3>1. PICK ids \in SUBSET Sites : WriteRegistry(ids)
          BY <2>1, <2>7 DEF OtherOperators, Lists
    <3>2. registry' \in Lists /\ registry.at =< registry'.at
          BY <2>1, <3>1 DEF WriteRegistry, Lists
    <3> QED BY <2>1, <2>7, <3>2 DEF OtherOperators
  <2> QED BY <2>2, <2>3, <2>4, <2>5, <2>6, <2>7
<1>5. FleetTypeOK'
      BY <1>3, <1>4 DEF FleetTypeOK
<1>6. ListInv'
  <2>1. /\ registry.at \in Nat /\ registry'.at \in Nat /\ told \in Nat
        /\ fleetRead \in Lists => fleetRead.at \in Nat
        /\ joining # NoCall => joining.at \in Nat
        /\ leaving # NoCall => leaving.at \in Nat
        BY <1>4 DEF FleetTypeOK, Lists, Calls
  <2>2. told' =< registry'.at /\ (fleetRead' \in Lists => told' =< fleetRead'.at)
        BY <1>3, <1>4, <2>1 DEF ListInv
  <2>3. Seen(joining)'
        BY <1>3, <1>4, <2>1 DEF ListInv, Seen
  <2>4. Seen(leaving)'
        BY <1>3, <1>4, <2>1 DEF ListInv, Seen
  <2> QED BY <2>2, <2>3, <2>4 DEF ListInv
<1>7. PageInv'
      BY <1>3 DEF PageInv
<1> QED BY <1>2, <1>5, <1>6, <1>7

LEMMA NewCall ==
    ASSUME NEW s \in Sites
    PROVE  [id |-> s, phase |-> "sent", at |-> 0] \in Calls
BY FleetPageAssumption DEF Calls

LEMMA DialogActionsKeep ==
    ASSUME FleetInv,
           \/ OpenRegister \/ TypeId \/ SubmitRegister \/ CloseRegister
           \/ AskRetire \/ CloseRetire \/ ConfirmRetire
    PROVE  FleetInv'
<1> USE FleetPageAssumption DEF FleetInv
<1>1. UNCHANGED <<listVars, sparkVars, where, told>>
      BY DEF OpenRegister, TypeId, SubmitRegister, CloseRegister, AskRetire, CloseRetire, ConfirmRetire
<1>2. BackOffInv'
      BY <1>1, BackOffStays
<1>3. /\ registry' = registry /\ fleet' = fleet /\ fleetError' = fleetError
      /\ fleetRead' = fleetRead /\ where' = where /\ told' = told /\ misses' = misses
      /\ failed' = failed /\ degraded' = degraded /\ cadence' = cadence /\ polling' = polling
      BY <1>1 DEF listVars, sparkVars
<1>4. /\ dialog' \in [open : BOOLEAN, id : Sites \cup {NoSite}, busy : BOOLEAN]
      /\ confirm' \in BOOLEAN
      /\ joining' = joining \/ (joining' \in Calls /\ joining'.phase = "sent")
      /\ leaving' = leaving \/ (leaving' \in Calls /\ leaving'.phase = "sent")
  <2>1. /\ dialog \in [open : BOOLEAN, id : Sites \cup {NoSite}, busy : BOOLEAN]
        /\ confirm \in BOOLEAN
        BY DEF FleetTypeOK
  <2>2. CASE OpenRegister
        BY <2>1, <2>2 DEF OpenRegister
  <2>3. CASE TypeId
        BY <2>1, <2>3 DEF TypeId
  <2>4. CASE SubmitRegister
    <3>1. dialog.id \in Sites
          BY <2>1, <2>4 DEF SubmitRegister
    <3> QED BY <2>1, <2>4, <3>1, NewCall DEF SubmitRegister
  <2>5. CASE CloseRegister
        BY <2>1, <2>5 DEF CloseRegister, NoForm
  <2>6. CASE AskRetire
        BY <2>1, <2>6 DEF AskRetire
  <2>7. CASE CloseRetire
        BY <2>1, <2>7 DEF CloseRetire
  <2>8. CASE ConfirmRetire
    <3>1. where \in Sites
          BY <2>8 DEF ConfirmRetire, FleetTypeOK, PageInv
    <3> QED BY <2>1, <2>8, <3>1, NewCall DEF ConfirmRetire
  <2> QED BY <2>2, <2>3, <2>4, <2>5, <2>6, <2>7, <2>8
<1>5. FleetTypeOK'
      BY <1>3, <1>4 DEF FleetTypeOK
<1>6. ListInv'
      BY <1>3, <1>4 DEF ListInv, Seen
<1>7. PageInv'
      BY <1>3 DEF PageInv, OpenRegister, TypeId, SubmitRegister, CloseRegister, AskRetire, CloseRetire, ConfirmRetire
<1> QED BY <1>2, <1>5, <1>6, <1>7

(* Leaving a page drops the dialogs and what they wait for.                *)
LEMMA BrowseKeeps == FleetInv /\ Browse => FleetInv'
<1> SUFFICES ASSUME FleetInv, Browse PROVE FleetInv'
    OBVIOUS
<1> USE FleetPageAssumption
<1>1. /\ registry' = registry /\ fleet' = fleet /\ fleetError' = fleetError
      /\ fleetRead' = fleetRead /\ told' = told
      /\ dialog' = NoForm /\ joining' = NoCall /\ confirm' = FALSE /\ leaving' = NoCall
      BY DEF Browse, listVars
<1>2. CASE where = "fleet" /\ where' \in Listed /\ UNCHANGED sparkVars
  <2>1. where' \in Sites
        BY <1>2 DEF Listed, FleetInv, FleetTypeOK, Lists
  <2>2. BackOffInv'
        BY <1>2, <2>1, BackOffStays
  <2>3. FleetTypeOK'
        BY <1>1, <1>2, <2>1 DEF FleetInv, FleetTypeOK, NoForm, sparkVars
  <2> QED BY <1>1, <2>2, <2>3 DEF FleetInv, ListInv, Seen, PageInv
<1>3. CASE where # "fleet" /\ where' = "fleet" /\ MountFleet
  <2>1. BackOffInv' /\ misses' \in 0..MaxMisses /\ failed' \in 0..MaxMisses
        /\ degraded' \in BOOLEAN /\ cadence' \in {1, 2, 5} /\ polling' \in BOOLEAN
        BY <1>3, MountBacksOff
  <2>2. FleetTypeOK'
        BY <1>1, <1>3, <2>1 DEF FleetInv, FleetTypeOK, NoForm
  <2> QED BY <1>1, <2>1, <2>2 DEF FleetInv, ListInv, Seen, PageInv
<1> QED BY <1>2, <1>3 DEF Browse

LEMMA AnsweredCall ==
    ASSUME NEW call \in Calls, NEW answered, registry' \in Lists,
           \/ /\ answered = [call EXCEPT !.phase = "ok", !.at = registry.at + 1]
              /\ registry'.at = registry.at + 1
           \/ answered = [call EXCEPT !.phase = "refused"]
    PROVE  Answers(call, answered)
<1>1. registry'.at \in 0..MaxRegistry
      BY DEF Lists
<1> QED BY <1>1 DEF Answers, Calls

(* The two writes, answered, invalidating and settling.                    *)
LEMMA AnswersKeep ==
    ASSUME FleetInv,
           RegisterAnswered \/ RegisterInvalidates \/ RetireAnswered \/ RetireInvalidates
    PROVE  FleetInv'
<1> USE FleetPageAssumption DEF FleetInv
<1>1. /\ fleet' = fleet /\ fleetError' = fleetError /\ where' = where /\ dialog' = dialog
      /\ confirm' = confirm /\ told' = told
      BY DEF RegisterAnswered, RegisterInvalidates, RetireAnswered, RetireInvalidates
<1>2. UNCHANGED sparkVars
      BY DEF RegisterAnswered, RegisterInvalidates, RetireAnswered, RetireInvalidates
<1>3. BackOffInv'
      BY <1>1, <1>2, BackOffStays
<1>4. misses' = misses /\ failed' = failed /\ degraded' = degraded /\ cadence' = cadence /\ polling' = polling
      BY <1>2 DEF sparkVars
<1>5. CASE RegisterAnswered \/ RetireAnswered
  <2>1. fleetRead' = fleetRead
        BY <1>5 DEF RegisterAnswered, RetireAnswered
  <2>2. registry' \in Lists /\ registry.at =< registry'.at
    <3>1. registry' = registry \/ (\E ids \in SUBSET Sites : WriteRegistry(ids))
          BY <1>5 DEF RegisterAnswered, RetireAnswered, FleetTypeOK, Lists, Calls
    <3> QED BY <3>1 DEF WriteRegistry, FleetTypeOK, Lists
  <2>3. /\ joining' = joining \/ Answers(joining, joining')
        /\ leaving' = leaving \/ Answers(leaving, leaving')
    <3>1. CASE RegisterAnswered
      <4>1. joining \in Calls /\ leaving' = leaving
            BY <3>1 DEF RegisterAnswered, FleetTypeOK
      <4>2. \/ /\ joining' = [joining EXCEPT !.phase = "ok", !.at = registry.at + 1]
               /\ registry'.at = registry.at + 1
            \/ joining' = [joining EXCEPT !.phase = "refused"]
            BY <3>1 DEF RegisterAnswered, WriteRegistry, FleetTypeOK, Lists
      <4> QED BY <4>1, <4>2, <2>2, AnsweredCall
    <3>2. CASE RetireAnswered
      <4>1. leaving \in Calls /\ joining' = joining
            BY <3>2 DEF RetireAnswered, FleetTypeOK
      <4>2. \/ /\ leaving' = [leaving EXCEPT !.phase = "ok", !.at = registry.at + 1]
               /\ registry'.at = registry.at + 1
            \/ leaving' = [leaving EXCEPT !.phase = "refused"]
            BY <3>2 DEF RetireAnswered, WriteRegistry, FleetTypeOK, Lists
      <4> QED BY <4>1, <4>2, <2>2, AnsweredCall
    <3> QED BY <1>5, <3>1, <3>2
  <2>4. FleetTypeOK'
        BY <1>1, <1>4, <2>1, <2>2, <2>3 DEF FleetTypeOK, Answers
  <2>5. ListInv'
    <3>1. /\ registry.at \in Nat /\ registry'.at \in Nat /\ told \in Nat
          /\ joining # NoCall => joining.at \in Nat
          /\ leaving # NoCall => leaving.at \in Nat
          BY <2>2 DEF FleetTypeOK, Lists, Calls
    <3>2. Seen(joining)' /\ Seen(leaving)'
          BY <2>1, <2>2, <2>3, <3>1 DEF ListInv, Seen, Answers
    <3> QED BY <1>1, <2>1, <2>2, <3>1, <3>2 DEF ListInv
  <2> QED BY <1>1, <1>3, <2>4, <2>5 DEF PageInv
<1>6. CASE RegisterInvalidates \/ RetireInvalidates
  <2>1. registry' = registry /\ fleetRead' = AskedList /\ AskedList \notin Lists
        BY <1>6 DEF RegisterInvalidates, RetireInvalidates, Reload, Lists
  <2>2. /\ joining' = joining \/ Reported(joining, joining')
        /\ leaving' = leaving \/ Reported(leaving, leaving')
    <3>1. CASE RegisterInvalidates
      <4>1. /\ joining \in Calls /\ joining.phase = "ok" /\ leaving' = leaving
            /\ joining' = [joining EXCEPT !.phase = "done"]
            BY <3>1 DEF RegisterInvalidates, FleetTypeOK
      <4> QED BY <4>1 DEF Reported, Calls
    <3>2. CASE RetireInvalidates
      <4>1. /\ leaving \in Calls /\ leaving.phase = "ok" /\ joining' = joining
            /\ leaving' = [leaving EXCEPT !.phase = "done"]
            BY <3>2 DEF RetireInvalidates, FleetTypeOK
      <4> QED BY <4>1 DEF Reported, Calls
    <3> QED BY <1>6, <3>1, <3>2
  <2>3. FleetTypeOK'
        BY <1>1, <1>4, <2>1, <2>2 DEF FleetTypeOK, Reported
  <2>4. Seen(joining)' /\ Seen(leaving)'
        BY <2>1, <2>2, Nothing DEF ListInv, Seen, Reported
  <2>5. ListInv'
        BY <1>1, <2>1, <2>4 DEF ListInv
  <2> QED BY <1>1, <1>3, <2>3, <2>5 DEF PageInv
<1> QED BY <1>5, <1>6

(* The operator is told: of a write the next read of the list has seen.    *)
LEMMA SettlesKeep ==
    ASSUME FleetInv, SettleRegister \/ SettleRetire
    PROVE  FleetInv'
<1> USE FleetPageAssumption DEF FleetInv
<1>1. /\ registry' = registry /\ fleet' = fleet /\ fleetError' = fleetError
      /\ fleetRead' = fleetRead
      BY DEF SettleRegister, SettleRetire, listVars
<1>2. /\ registry.at \in Nat /\ told \in 0..MaxRegistry
      /\ fleetRead \in Lists => fleetRead.at \in Nat
      BY DEF FleetTypeOK, Lists
<1>3. CASE SettleRegister
  <2>1. /\ joining \in Calls /\ joining.at \in 0..MaxRegistry /\ joining' = NoCall
        /\ where' = where /\ confirm' = confirm /\ leaving' = leaving /\ UNCHANGED sparkVars
        BY <1>3 DEF SettleRegister, FleetTypeOK, Calls
  <2>2. dialog' \in [open : BOOLEAN, id : Sites \cup {NoSite}, busy : BOOLEAN]
    <3>1. dialog \in [open : BOOLEAN, id : Sites \cup {NoSite}, busy : BOOLEAN]
          BY DEF FleetTypeOK
    <3>2. dialog' = NoForm \/ dialog' = [dialog EXCEPT !.busy = FALSE]
          BY <1>3 DEF SettleRegister
    <3> HIDE FleetPageAssumption DEF FleetInv
    <3>3. NoForm \in [open : BOOLEAN, id : Sites \cup {NoSite}, busy : BOOLEAN]
          BY DEF NoForm
    <3>4. [dialog EXCEPT !.busy = FALSE] \in [open : BOOLEAN, id : Sites \cup {NoSite}, busy : BOOLEAN]
          BY <3>1
    <3> QED BY <3>2, <3>3, <3>4
  <2>3. told' = told \/ (joining.phase = "done" /\ told' = joining.at)
        BY <1>3 DEF SettleRegister
  <2>4. BackOffInv'
        BY <2>1, BackOffStays
  <2>5. FleetTypeOK'
        BY <1>1, <1>2, <2>1, <2>2, <2>3 DEF FleetTypeOK, sparkVars
  <2>6. told' =< registry'.at /\ (fleetRead' \in Lists => told' =< fleetRead'.at)
        BY <1>1, <1>2, <2>1, <2>3, Nothing DEF ListInv, Seen
  <2> QED BY <1>1, <2>1, <2>4, <2>5, <2>6 DEF ListInv, Seen, PageInv
<1>4. CASE SettleRetire
  <2>1. /\ leaving \in Calls /\ leaving.at \in 0..MaxRegistry /\ leaving' = NoCall
        /\ dialog' = dialog /\ joining' = joining
        BY <1>4 DEF SettleRetire, FleetTypeOK, Calls
  <2>2. CASE leaving.phase = "done"
    <3>1. /\ confirm' = FALSE /\ where' = "fleet" /\ MountFleet
          /\ told' = told \/ told' = leaving.at
          BY <1>4, <2>2 DEF SettleRetire
    <3>2. BackOffInv' /\ misses' \in 0..MaxMisses /\ failed' \in 0..MaxMisses
          /\ degraded' \in BOOLEAN /\ cadence' \in {1, 2, 5} /\ polling' \in BOOLEAN
          BY <3>1, MountBacksOff
    <3>3. FleetTypeOK'
          BY <1>1, <1>2, <2>1, <3>1, <3>2 DEF FleetTypeOK
    <3>4. told' =< registry'.at /\ (fleetRead' \in Lists => told' =< fleetRead'.at)
          BY <1>1, <1>2, <2>1, <2>2, <3>1, Nothing DEF ListInv, Seen
    <3> QED BY <1>1, <2>1, <3>1, <3>2, <3>3, <3>4 DEF ListInv, Seen, PageInv
  <2>3. CASE leaving.phase # "done"
    <3>1. UNCHANGED <<confirm, where, told, sparkVars>>
          BY <1>4, <2>3 DEF SettleRetire
    <3>2. BackOffInv'
          BY <3>1, BackOffStays
    <3>3. FleetTypeOK'
          BY <1>1, <2>1, <3>1 DEF FleetTypeOK, sparkVars
    <3> QED BY <1>1, <2>1, <3>1, <3>2, <3>3 DEF ListInv, Seen, PageInv
  <2> QED BY <2>2, <2>3
<1> QED BY <1>3, <1>4

LEMMA FleetStepKeeps == FleetInv /\ [FleetNext]_fleetVars => FleetInv'
<1> SUFFICES ASSUME FleetInv, [FleetNext]_fleetVars PROVE FleetInv'
    OBVIOUS
<1>1. CASE Render \/ PollCharts \/ (\E ok \in BOOLEAN : ChartsSettle(ok))
      BY <1>1, SparkKeeps DEF FleetNext
<1>2. CASE PollFleet \/ ServeFleet \/ FleetAnswered \/ FleetFailed \/ FleetFrame \/ OtherOperators
      BY <1>2, ListActionsKeep
<1>3. CASE \/ OpenRegister \/ TypeId \/ SubmitRegister \/ CloseRegister
           \/ AskRetire \/ CloseRetire \/ ConfirmRetire
      BY <1>3, DialogActionsKeep
<1>4. CASE Browse
      BY <1>4, BrowseKeeps
<1>5. CASE RegisterAnswered \/ RegisterInvalidates \/ RetireAnswered \/ RetireInvalidates
      BY <1>5, AnswersKeep
<1>6. CASE SettleRegister \/ SettleRetire
      BY <1>6, SettlesKeep
<1>7. CASE UNCHANGED fleetVars
      BY <1>7 DEF fleetVars, listVars, siteVars, sparkVars, FleetInv, FleetTypeOK, BackOffInv,
                  BacksOff, ListInv, Seen, PageInv
<1> QED BY <1>1, <1>2, <1>3, <1>4, <1>5, <1>6, <1>7 DEF FleetNext

THEOREM FleetInvariant == FleetSpec => []FleetInv
BY FleetStarts, FleetStepKeeps, PTL DEF FleetSpec

-----------------------------------------------------------------------------
(* Every variable of the fleet page keeps its range.                       *)
THEOREM FleetTypeCorrect == FleetSpec => []FleetTypeOK
<1>1. FleetInv => FleetTypeOK
      BY DEF FleetInv
<1> QED BY <1>1, FleetInvariant, PTL

(* The charts' timer is one failed poll behind at most (useFleetSparklines *)
(* of api/queries/fleet.ts), for any number of polls and visits.           *)
THEOREM FleetBacksOff == FleetSpec => []BacksOff
<1>1. FleetInv => BacksOff
      BY DEF FleetInv, BackOffInv
<1> QED BY <1>1, FleetInvariant, PTL

(* No read of the list brings back what was there before a registration or *)
(* a retirement the operator was told of (the two hooks' onSuccess).       *)
THEOREM FleetListNeverFallsBack == FleetSpec => ListNeverFallsBack
<1>1. FleetInv /\ [FleetNext]_fleetVars => [fleet' # fleet => fleet'.at >= told]_fleetVars
  <2> SUFFICES ASSUME FleetInv, FleetNext, fleet' # fleet PROVE fleet'.at >= told
      BY DEF fleetVars, listVars
  <2>1. FleetAnswered
        BY DEF FleetNext, Render, PollCharts, ChartsSettle, PollFleet, ServeFleet, FleetFailed,
               FleetFrame, OtherOperators, OpenRegister, TypeId, SubmitRegister, CloseRegister,
               RegisterAnswered, RegisterInvalidates, SettleRegister, Browse, AskRetire,
               CloseRetire, ConfirmRetire, RetireAnswered, RetireInvalidates, SettleRetire, listVars
  <2> QED BY <2>1, FleetPageAssumption DEF FleetAnswered, FleetInv, FleetTypeOK, ListInv, Lists
<1> QED BY <1>1, FleetInvariant, PTL DEF FleetSpec, ListNeverFallsBack

-----------------------------------------------------------------------------
(* The manual setpoint edit: an answer closes its own edit's dialog, and   *)
(* the view never falls back behind an edit the operator was told of.      *)

(* An edit that was applied is at the controller, and a read that answers  *)
(* after the cache was invalidated for it has seen it.                     *)
FollowInv ==
    /\ acked =< server.at /\ (read \in Snapshots => acked =< read.at)
    /\ flight # NoEdit =>
          /\ flight.phase \in {"ok", "done"} => flight.at =< server.at
          /\ flight.phase = "done" /\ read \in Snapshots => flight.at =< read.at

FormInv == FormTypeOK /\ AnswerClosesOwnDialog /\ FollowInv

LEMMA NoneOfThem ==
    /\ NoRead \notin Snapshots /\ Asked \notin Snapshots
    /\ NoEdit \notin Flights /\ NoEdit \notin Valid
BY SetpointFormAssumption DEF Snapshots, Flights, Valid

(* The numbers that FollowInv compares.                                    *)
LEMMA Numbers ==
    ASSUME FormTypeOK
    PROVE  /\ server.at \in Nat /\ acked \in Nat
           /\ flight # NoEdit => flight.at \in Nat
           /\ read \in Snapshots => read.at \in Nat
BY SetpointFormAssumption DEF FormTypeOK, Snapshots, Flights

LEMMA FormStarts == FormInit => FormInv
<1> SUFFICES ASSUME FormInit PROVE FormInv
    OBVIOUS
<1>1. server \in Snapshots /\ cache \in Snapshots /\ form \in Contents /\ server.at = 0
  <2>1. server \in [vals : Valid \ Refused, at : {0}] /\ cache = server /\ form = cache.vals
        BY DEF FormInit
  <2>2. Valid \ Refused \subseteq Contents /\ 0 \in 0..MaxWrites
        BY SetpointFormAssumption DEF Valid
  <2> HIDE DEF FormInit
  <2> QED BY <2>1, <2>2 DEF Snapshots
<1>2. FormTypeOK
  <2>1. due \in 0..Interval /\ acked \in 0..MaxWrites /\ fails \in 0..MaxFails
        BY SetpointFormAssumption DEF FormInit
  <2> QED BY <1>1, <2>1 DEF FormInit, FormTypeOK
<1>3. FollowInv
      BY <1>1, NoneOfThem DEF FormInit, FollowInv
<1> QED BY <1>2, <1>3 DEF FormInv, FormInit, AnswerClosesOwnDialog

(* The form and its dialog: the server and the reads stay.                 *)
LEMMA FormActionsKeep ==
    ASSUME FormInv, Type \/ OnValid \/ CloseDialog \/ ApplyEdit
    PROVE  FormInv'
<1> USE DEF FormInv
<1>1. /\ server' = server /\ cache' = cache /\ read' = read /\ due' = due
      /\ offline' = offline /\ acked' = acked /\ fails' = fails
      BY DEF Type, OnValid, CloseDialog, ApplyEdit
<1>2. /\ form' \in Contents /\ dirty' \in BOOLEAN /\ pending' \in Valid \cup {NoEdit}
      /\ flight' = flight \/ (flight' \in Flights /\ flight'.phase = "sent")
      /\ AnswerClosesOwnDialog'
  <2>1. form \in Contents /\ dirty \in BOOLEAN /\ pending \in Valid \cup {NoEdit}
        BY DEF FormTypeOK
  <2>2. CASE Type
        BY <2>1, <2>2 DEF Type, Contents, AnswerClosesOwnDialog
  <2>3. CASE OnValid
        BY <2>1, <2>3 DEF OnValid, Disabled, AnswerClosesOwnDialog
  <2>4. CASE CloseDialog
        BY <2>1, <2>4 DEF CloseDialog, AnswerClosesOwnDialog
  <2>5. CASE ApplyEdit
    <3>1. /\ pending \in Contents /\ Changes(pending) \subseteq Fields
          /\ flight' = [vals |-> pending, shown |-> Changes(pending), phase |-> "sent", at |-> 0]
          /\ pending' = pending /\ form' = form /\ dirty' = dirty
          BY <2>1, <2>5 DEF ApplyEdit, Valid, Changes
    <3>2. flight' \in Flights
          BY <3>1, SetpointFormAssumption DEF Flights
    <3> QED BY <2>1, <3>1, <3>2 DEF AnswerClosesOwnDialog
  <2> QED BY <2>2, <2>3, <2>4, <2>5
<1>3. FormTypeOK'
      BY <1>1, <1>2 DEF FormTypeOK
<1>4. FollowInv'
      BY <1>1, <1>2 DEF FollowInv
<1> QED BY <1>2, <1>3, <1>4

(* What becomes of the edit on its way.                                    *)
LEMMA EditActionsKeep ==
    ASSUME FormInv, Relayed \/ Invalidate
    PROVE  FormInv'
<1> USE DEF FormInv
<1>1. /\ cache' = cache /\ form' = form /\ dirty' = dirty /\ pending' = pending /\ due' = due
      /\ offline' = offline /\ acked' = acked /\ fails' = fails
      BY DEF Relayed, Invalidate
<1>2. flight \in Flights
      BY DEF Relayed, Invalidate, FormTypeOK
<1>3. CASE Relayed
  <2>1. read' = read
        BY <1>3 DEF Relayed
  <2>2. CASE /\ server.at < MaxWrites
             /\ server' = [vals |-> flight.vals, at |-> server.at + 1]
             /\ \E p \in {"ok", "lost"} :
                   flight' = [flight EXCEPT !.phase = p, !.at = server.at + 1]
    <3>1. server' \in Snapshots /\ server'.at = server.at + 1
          BY <1>2, <2>2, SetpointFormAssumption DEF FormTypeOK, Snapshots, Flights
    <3>2. /\ flight' \in Flights /\ flight'.at = server'.at
          /\ flight'.phase # "done" /\ flight'.vals = flight.vals
          BY <1>2, <2>2, <3>1, SetpointFormAssumption DEF FormTypeOK, Snapshots, Flights
    <3>3. FormTypeOK'
          BY <1>1, <2>1, <3>1, <3>2 DEF FormTypeOK
    <3>4. FollowInv'
          BY <1>1, <2>1, <3>1, <3>2, Numbers DEF FollowInv
    <3>5. AnswerClosesOwnDialog'
          BY <1>1, <1>2, <3>2, NoneOfThem DEF AnswerClosesOwnDialog
    <3> QED BY <3>3, <3>4, <3>5
  <2>3. CASE /\ \E p \in {"refused", "unavailable", "lost"} : flight' = [flight EXCEPT !.phase = p]
             /\ UNCHANGED server
    <3>1. /\ flight' \in Flights /\ flight'.phase \notin {"ok", "done"} /\ flight'.vals = flight.vals
          BY <1>2, <2>3 DEF Flights
    <3>2. FormTypeOK'
          BY <1>1, <2>1, <2>3, <3>1 DEF FormTypeOK
    <3>3. FollowInv'
          BY <1>1, <2>1, <2>3, <3>1 DEF FollowInv
    <3>4. AnswerClosesOwnDialog'
          BY <1>1, <1>2, <3>1, NoneOfThem DEF AnswerClosesOwnDialog
    <3> QED BY <3>2, <3>3, <3>4
  <2> QED BY <1>3, <2>2, <2>3 DEF Relayed
<1>4. CASE Invalidate
  <2>1. server' = server /\ read' = Asked /\ flight.phase = "ok" /\ flight' = [flight EXCEPT !.phase = "done"]
        BY <1>4 DEF Invalidate, Refetch
  <2>2. flight' \in Flights /\ flight'.at = flight.at /\ flight'.vals = flight.vals
        BY <1>2, <2>1 DEF Flights
  <2>3. FormTypeOK'
        BY <1>1, <2>1, <2>2 DEF FormTypeOK
  <2>4. FollowInv'
        BY <1>1, <1>2, <2>1, <2>2, NoneOfThem DEF FollowInv
  <2>5. AnswerClosesOwnDialog'
        BY <1>1, <1>2, <2>2, NoneOfThem DEF AnswerClosesOwnDialog
  <2> QED BY <2>3, <2>4, <2>5
<1> QED BY <1>3, <1>4

LEMMA SettleKeeps == FormInv /\ SettleEdit => FormInv'
<1> SUFFICES ASSUME FormInv, SettleEdit PROVE FormInv'
    OBVIOUS
<1>1. /\ server' = server /\ cache' = cache /\ form' = form /\ dirty' = dirty /\ read' = read
      /\ due' = due /\ offline' = offline /\ fails' = fails
      /\ pending' = NoEdit /\ flight' = NoEdit /\ flight \in Flights
      /\ acked' = acked \/ (flight.phase = "done" /\ acked' = flight.at)
      BY DEF SettleEdit, FormInv, FormTypeOK
<1>2. FormTypeOK'
  <2>1. acked' \in 0..MaxWrites
        BY <1>1 DEF FormInv, FormTypeOK, Flights
  <2> QED BY <1>1, <2>1 DEF FormInv, FormTypeOK
<1>3. FollowInv'
      BY <1>1, NoneOfThem DEF FormInv, FollowInv
<1> QED BY <1>1, <1>2, <1>3 DEF FormInv, AnswerClosesOwnDialog

(* The other writers, the timers, the reads and the frames.                *)
LEMMA ReadActionsKeep ==
    ASSUME FormInv,
           OtherWrite \/ Elapse \/ Poll \/ ServeRead \/ FetchAnswered \/ FetchFailed \/ Frame
    PROVE  FormInv'
<1> USE DEF FormInv
<1>1. pending' = pending /\ flight' = flight /\ acked' = acked
      BY DEF OtherWrite, Elapse, Poll, ServeRead, FetchAnswered, FetchFailed, Frame
<1>2. /\ server' \in Snapshots /\ server.at =< server'.at /\ cache' \in Snapshots
      /\ form' \in Contents /\ dirty' \in BOOLEAN
      /\ read' \in Snapshots \cup {NoRead, Asked}
      /\ read' \in Snapshots => read' = read \/ read' = server
      /\ due' \in 0..Interval /\ offline' \in BOOLEAN /\ fails' \in 0..MaxFails
  <2>1. /\ server \in Snapshots /\ server.at =< server.at /\ cache \in Snapshots
        /\ form \in Contents /\ dirty \in BOOLEAN
        /\ read \in Snapshots \cup {NoRead, Asked}
        /\ due \in 0..Interval /\ offline \in BOOLEAN /\ fails \in 0..MaxFails
        BY Numbers DEF FormTypeOK
  <2>2. CASE OtherWrite
    <3>1. PICK v \in Contents : server' = [vals |-> v, at |-> server.at + 1]
          BY <2>2 DEF OtherWrite, Valid
    <3>2. server' \in Snapshots /\ server.at =< server'.at
          BY <2>1, <2>2, <3>1, SetpointFormAssumption DEF OtherWrite, Snapshots
    <3> QED BY <2>1, <2>2, <3>2 DEF OtherWrite
  <2>3. CASE Elapse
        BY <2>1, <2>3, SetpointFormAssumption DEF Elapse
  <2>4. CASE Poll
        BY <2>1, <2>4, NoneOfThem, SetpointFormAssumption DEF Poll, Refetch
  <2>5. CASE ServeRead
        BY <2>1, <2>5 DEF ServeRead
  <2>6. CASE FetchAnswered
    <3>1. read \in Snapshots /\ read.vals \in Contents
          BY <2>6 DEF FetchAnswered, Snapshots
    <3> QED BY <2>1, <2>6, <3>1, NoneOfThem DEF FetchAnswered
  <2>7. CASE FetchFailed
        BY <2>1, <2>7, NoneOfThem, SetpointFormAssumption DEF FetchFailed
  <2>8. CASE Frame
        BY <2>1, <2>8 DEF Frame
  <2> QED BY <2>2, <2>3, <2>4, <2>5, <2>6, <2>7, <2>8
<1>3. FormTypeOK'
      BY <1>1, <1>2 DEF FormTypeOK
<1>4. FollowInv'
  <2>1. /\ server'.at \in Nat /\ (read' \in Snapshots => read'.at \in Nat)
        BY <1>2 DEF Snapshots
  <2> QED BY <1>1, <1>2, <2>1, Numbers DEF FollowInv
<1>5. AnswerClosesOwnDialog'
      BY <1>1 DEF AnswerClosesOwnDialog
<1> QED BY <1>3, <1>4, <1>5

LEMMA FormStepKeeps == FormInv /\ [FormNext]_formVars => FormInv'
<1> SUFFICES ASSUME FormInv, [FormNext]_formVars PROVE FormInv'
    OBVIOUS
<1>1. CASE UNCHANGED formVars
      BY <1>1 DEF formVars, FormInv, FormTypeOK, AnswerClosesOwnDialog, FollowInv
<1> QED BY <1>1, FormActionsKeep, EditActionsKeep, SettleKeeps, ReadActionsKeep DEF FormNext

THEOREM FormInvariant == FormSpec => []FormInv
BY FormStarts, FormStepKeeps, PTL DEF FormSpec

-----------------------------------------------------------------------------
(* Every variable of the form keeps its range; in particular only contents *)
(* that pass formSchema are ever in the dialog.                            *)
THEOREM FormTypeCorrect == FormSpec => []FormTypeOK
<1>1. FormInv => FormTypeOK
      BY DEF FormInv
<1> QED BY <1>1, FormInvariant, PTL

(* While an edit is in flight the dialog, if one is open, is that edit's:  *)
(* the answer (applyEdit's onSuccess and onError) closes no other.         *)
THEOREM AnswersCloseTheirDialog == FormSpec => []AnswerClosesOwnDialog
<1>1. FormInv => AnswerClosesOwnDialog
      BY DEF FormInv
<1> QED BY <1>1, FormInvariant, PTL

(* No poll, refetch or late read brings back setpoints from before an edit *)
(* the operator was told of (useSetpointEdit's onSuccess).                 *)
THEOREM FormNeverFallsBack == FormSpec => NoFallBack
<1>1. FormInv /\ [FormNext]_formVars => [cache' # cache => cache'.at >= acked]_formVars
  <2> SUFFICES ASSUME FormInv, FormNext, cache' # cache PROVE cache'.at >= acked
      BY DEF formVars
  <2>1. FetchAnswered
        BY DEF FormNext, Type, OnValid, CloseDialog, ApplyEdit, Relayed, Invalidate, SettleEdit,
               OtherWrite, Elapse, Poll, ServeRead, FetchFailed, Frame
  <2> QED BY <2>1, Numbers DEF FetchAnswered, FormInv, FollowInv
<1> QED BY <1>1, FormInvariant, PTL DEF FormSpec, NoFallBack

(* A snapshot of the setpoints is of a write of the past, or is what the   *)
(* controller has.                                                         *)
OfServer(s) == s.at =< server.at /\ (s.at = server.at => s = server)

ServedInv ==
    /\ FormTypeOK
    /\ dirty \/ form = cache.vals
    /\ OfServer(cache) /\ (read \in Snapshots => OfServer(read))

LEMMA ServedStarts == FormInit => ServedInv
<1> SUFFICES ASSUME FormInit PROVE ServedInv
    OBVIOUS
<1>1. FormTypeOK /\ NoRead \notin Snapshots
      BY FormStarts, NoneOfThem DEF FormInv
<1>2. server.at \in Nat
      BY <1>1, Numbers
<1> QED BY <1>1, <1>2 DEF ServedInv, FormInit, OfServer

(* Writes only number themselves upwards.                                  *)
LEMMA PastStaysPast ==
    ASSUME FormTypeOK, NEW s \in Snapshots, OfServer(s),
           server' = server \/ server'.at = server.at + 1
    PROVE  OfServer(s)'
<1>1. s.at \in Nat /\ server.at \in Nat
      BY Numbers, SetpointFormAssumption DEF Snapshots
<1> QED BY <1>1 DEF OfServer

LEMMA ServedStep == ServedInv /\ FormTypeOK' /\ [FormNext]_formVars => ServedInv'
<1> SUFFICES ASSUME ServedInv, FormTypeOK', [FormNext]_formVars PROVE ServedInv'
    OBVIOUS
<1>a. FormTypeOK /\ cache \in Snapshots /\ server \in Snapshots /\ server.at \in Nat
      BY Numbers DEF ServedInv, FormTypeOK
<1>b. Asked \notin Snapshots /\ NoRead \notin Snapshots
      BY NoneOfThem
<1>now. OfServer(server)
      BY <1>a DEF OfServer
<1>keep. ASSUME UNCHANGED server, dirty' \/ form' = cache'.vals,
                OfServer(cache'), read' \in Snapshots => OfServer(read')
         PROVE  ServedInv'
      BY <1>keep DEF ServedInv, OfServer
<1>1. CASE Type \/ OnValid \/ CloseDialog \/ ApplyEdit \/ SettleEdit \/ Elapse \/ Frame
           \/ UNCHANGED formVars
  <2>1. /\ server' = server /\ cache' = cache /\ read' = read
        /\ dirty' \/ (form' = form /\ dirty' = dirty)
        BY <1>1 DEF Type, OnValid, CloseDialog, ApplyEdit, SettleEdit, Elapse, Frame, formVars
  <2> QED BY <1>keep, <2>1 DEF ServedInv
<1>2. CASE Relayed \/ OtherWrite
  <2>1. server' = server \/ server'.at = server.at + 1
        BY <1>2 DEF Relayed, OtherWrite
  <2>2. cache' = cache /\ read' = read /\ form' = form /\ dirty' = dirty
        BY <1>2 DEF Relayed, OtherWrite
  <2>3. OfServer(cache)' /\ (read \in Snapshots => OfServer(read)')
    <3>1. PICK c \in Snapshots : c = cache
          BY <1>a
    <3>2. OfServer(c)'
          BY <1>a, <2>1, <3>1, PastStaysPast DEF ServedInv
    <3>3. ASSUME read \in Snapshots PROVE OfServer(read)'
      <4>1. PICK r \in Snapshots : r = read
            BY <3>3
      <4>2. OfServer(r)'
            BY <1>a, <2>1, <4>1, PastStaysPast DEF ServedInv
      <4> QED BY <2>2, <4>1, <4>2 DEF OfServer
    <3> QED BY <2>2, <3>1, <3>2, <3>3 DEF OfServer
  <2> QED BY <2>2, <2>3 DEF ServedInv
<1>3. CASE Invalidate \/ Poll \/ FetchFailed
  <2>1. /\ server' = server /\ cache' = cache /\ form' = form /\ dirty' = dirty
        /\ read' \in {Asked, NoRead}
        BY <1>3 DEF Invalidate, Poll, FetchFailed, Refetch
  <2> QED BY <1>b, <1>keep, <2>1 DEF ServedInv
<1>4. CASE ServeRead
  <2>1. server' = server /\ cache' = cache /\ form' = form /\ dirty' = dirty /\ read' = server
        BY <1>4 DEF ServeRead
  <2> QED BY <1>keep, <1>now, <2>1 DEF ServedInv
<1>5. CASE FetchAnswered
  <2>1. /\ read \in Snapshots /\ server' = server /\ cache' = read /\ read' = NoRead
        /\ (form' = form /\ dirty' = dirty /\ read.vals = cache.vals) \/ form' = read.vals
        BY <1>5 DEF FetchAnswered
  <2> QED BY <1>b, <1>keep, <2>1 DEF ServedInv
<1> QED BY <1>1, <1>2, <1>3, <1>4, <1>5 DEF FormNext

(* An untouched form over an up-to-date read is the controller's.          *)
THEOREM FormShowsTheController == FormSpec => []UntouchedFormIsCurrent
<1>1. ServedInv => UntouchedFormIsCurrent
      BY DEF ServedInv, OfServer, UntouchedFormIsCurrent
<1> QED BY <1>1, ServedStarts, ServedStep, FormTypeCorrect, PTL DEF FormSpec

-----------------------------------------------------------------------------
(* The optimizer console.                                                  *)

(* A row of the console is what one instant of the optimizer lets out: the *)
(* record of a settled row, whose cycles have not overlapped, is of the    *)
(* stage it shows, and only a cycle that got to the end applied anything.  *)
Coherent(row) ==
    /\ ~row.overlapped /\ ~row.inFlight /\ row.plan # NoPlan =>
           row.plan.at = row.stage /\ row.stage # 0
    /\ row.plan # NoPlan /\ row.plan.status = "applied" => row.plan.at = Last

(* A cycle that is alone has the guard, and the stage once it has one of   *)
(* its own; what it recorded is of that stage.                             *)
Alone ==
    /\ \A c, d \in Slots : UnderWay(c) /\ UnderWay(d) => c = d
    /\ \A c \in Slots : UnderWay(c) =>
          /\ inFlight /\ cycles[c].at \in {0, stage}
          /\ cycles[c].phase = "recorded" => plan # NoPlan /\ plan.at = stage /\ stage # 0

(* The read the console draws from is such a row, however old it is.       *)
ConsoleInv ==
    /\ ConsoleTypeOK /\ reads \in [Queries -> Rows \cup BOOLEAN \cup {NoData}]
    /\ Coherent(Row) /\ (~overlapped => Alone)
    /\ reads["fleet"] # NoData => Coherent(reads["fleet"])

LEMMA ConsoleStarts == ConsoleInit => ConsoleInv
<1> SUFFICES ASSUME ConsoleInit PROVE ConsoleInv
    OBVIOUS
<1> USE ConsoleAssumption
<1>1. ConsoleTypeOK
  <2>1. stage \in Stage /\ changes \in 0..MaxChanges /\ NoCycle \in Cycles
        BY DEF ConsoleInit, Stage, NoCycle, Cycles
  <2>2. service \in BOOLEAN /\ enabled \in BOOLEAN /\ inFlight \in BOOLEAN /\ overlapped \in BOOLEAN
        BY DEF ConsoleInit
  <2>3. \A q \in Queries : reads[q] = NoData
        BY DEF ConsoleInit
  <2> QED BY <2>1, <2>2, <2>3 DEF ConsoleInit, ConsoleTypeOK, Queries
<1>2. reads \in [Queries -> Rows \cup BOOLEAN \cup {NoData}] /\ reads["fleet"] = NoData
      BY DEF ConsoleInit, Queries
<1>3. Coherent(Row)
      BY DEF ConsoleInit, Coherent, Row
<1>4. Alone
      BY DEF ConsoleInit, Alone, UnderWay, NoCycle
<1> QED BY <1>1, <1>2, <1>3, <1>4 DEF ConsoleInv

(* The optimizer's own steps, while the pages keep what they read.         *)
LEMMA OptimizerKeeps ==
    ASSUME ConsoleInv, UNCHANGED <<screen, reads>>,
           confirming' \subseteq Scopes, acting' \subseteq Actions,
           service' \in BOOLEAN, enabled' \in BOOLEAN, changes' \in 0..MaxChanges,
           inFlight' \in BOOLEAN, stage' \in Stage, plan' \in Plans \cup {NoPlan},
           cycles' \in [Slots -> Cycles], overlapped' \in BOOLEAN,
           Coherent(Row)', (~overlapped => Alone)'
    PROVE  ConsoleInv'
BY DEF ConsoleInv, ConsoleTypeOK

(* The planning of the optimizer as a whole, when it stays as it is.       *)
LEMMA PlanningStays ==
    ASSUME ConsoleInv, UNCHANGED <<inFlight, stage, plan, cycles, overlapped>>
    PROVE  Coherent(Row)' /\ (~overlapped => Alone)'
<1>1. \A c : UnderWay(c)' = UnderWay(c)
      BY DEF UnderWay
<1> QED BY <1>1 DEF ConsoleInv, Coherent, Row, Alone

(* A cycle that claims the guard while another is under way overlaps it.   *)
LEMMA ClaimKeeps ==
    ASSUME ConsoleInv, NEW c \in Slots, Claim(c),
           UNCHANGED <<service, enabled, screen, reads, confirming>>,
           changes' \in 0..MaxChanges, acting' \subseteq Actions
    PROVE  ConsoleInv'
<1> USE ConsoleAssumption
<1>1. /\ service \in BOOLEAN /\ enabled \in BOOLEAN /\ stage \in Stage /\ plan \in Plans \cup {NoPlan}
      /\ cycles \in [Slots -> Cycles] /\ confirming \subseteq Scopes /\ Coherent(Row)
      BY DEF ConsoleInv, ConsoleTypeOK
<1>2. /\ inFlight' = TRUE /\ UNCHANGED <<stage, plan>>
      /\ cycles' = [cycles EXCEPT ![c] = [phase |-> "running", at |-> 0]]
      /\ overlapped' = \E d \in Slots \ {c} : UnderWay(d)
      BY DEF Claim
<1>3. [phase |-> "running", at |-> 0] \in Cycles
      BY DEF Cycles, Stage
<1>4. cycles' \in [Slots -> Cycles] /\ overlapped' \in BOOLEAN
      BY <1>1, <1>2, <1>3
<1>5. Coherent(Row)'
      BY <1>1, <1>2 DEF Coherent, Row
<1>6. ASSUME ~overlapped' PROVE Alone'
  <2>1. \A d \in Slots \ {c} : ~UnderWay(d) /\ cycles'[d] = cycles[d]
        BY <1>1, <1>2, <1>6
  <2>2. \A d \in Slots : UnderWay(d)' => d = c
        BY <2>1 DEF UnderWay
  <2>3. cycles'[c].phase = "running" /\ cycles'[c].at = 0
        BY <1>1, <1>2
  <2> QED BY <1>2, <2>2, <2>3 DEF Alone
<1> QED BY <1>1, <1>2, <1>4, <1>5, <1>6, OptimizerKeeps

(* A lone cycle moves the stage with itself.                               *)
LEMMA EnterKeeps == ASSUME ConsoleInv, NEW c \in Slots, Enter(c) PROVE ConsoleInv'
<1> USE ConsoleAssumption
<1>1. /\ ConsoleTypeOK /\ cycles \in [Slots -> Cycles] /\ Coherent(Row)
      BY DEF ConsoleInv, ConsoleTypeOK
<1>2. /\ UNCHANGED <<service, enabled, inFlight, plan, overlapped, changes>>
      /\ UNCHANGED <<screen, reads, confirming, acting>>
      /\ cycles[c].phase = "running" /\ cycles[c].at < Last /\ stage' = cycles[c].at + 1
      /\ cycles' = [cycles EXCEPT ![c] = [phase |-> "running", at |-> stage']]
      BY DEF Enter, pageVars
<1>3. cycles[c].at \in Stage
      BY <1>1 DEF Cycles
<1>4. stage' \in Stage /\ stage' # 0
      BY <1>2, <1>3 DEF Stage
<1>5. cycles' \in [Slots -> Cycles]
  <2>1. [phase |-> "running", at |-> stage'] \in Cycles
        BY <1>4 DEF Cycles
  <2> QED BY <1>1, <1>2, <2>1
<1>6. UnderWay(c)
      BY <1>2 DEF UnderWay
<1>7. ~overlapped => inFlight
      BY <1>6 DEF ConsoleInv, Alone
<1>8. Coherent(Row)'
      BY <1>1, <1>2, <1>7 DEF Coherent, Row
<1>9. ASSUME ~overlapped PROVE Alone'
  <2>1. \A d \in Slots \ {c} : ~UnderWay(d) /\ cycles'[d] = cycles[d]
        BY <1>1, <1>2, <1>6, <1>9 DEF ConsoleInv, Alone
  <2>2. \A d \in Slots : UnderWay(d)' => d = c
        BY <2>1 DEF UnderWay
  <2>3. cycles'[c].phase = "running" /\ cycles'[c].at = stage'
        BY <1>1, <1>2
  <2> QED BY <1>2, <1>7, <1>9, <2>2, <2>3 DEF Alone
<1> QED BY <1>1, <1>2, <1>4, <1>5, <1>8, <1>9, OptimizerKeeps DEF ConsoleTypeOK

(* A lone cycle records the stage that is shown.                           *)
LEMMA RecordKeeps == ASSUME ConsoleInv, NEW c \in Slots, RecordPlan(c) PROVE ConsoleInv'
<1> USE ConsoleAssumption
<1>1. /\ ConsoleTypeOK /\ cycles \in [Slots -> Cycles] /\ Coherent(Row)
      BY DEF ConsoleInv, ConsoleTypeOK
<1>2. /\ UNCHANGED <<service, enabled, inFlight, stage, overlapped, changes>>
      /\ UNCHANGED <<screen, reads, confirming, acting>>
      /\ cycles[c].phase = "running"
      /\ cycles' = [cycles EXCEPT ![c].phase = "recorded"]
      BY DEF RecordPlan, pageVars
<1>3. PICK o \in Outcomes :
         o[1] = cycles[c].at /\ plan' = [at |-> o[1], status |-> o[2], reason |-> o[3]]
      BY DEF RecordPlan
<1>4. /\ o[1] \in 1..Last /\ o[2] \in {"applied", "unchanged", "held", "failed"} /\ o[3] \in Reasons
      /\ o[2] = "applied" => o[1] = Last
      BY DEF Outcomes, Reasons
<1>5. plan' \in Plans /\ plan' # NoPlan /\ plan'.at = cycles[c].at /\ plan'.at # 0
      /\ (plan'.status = "applied" => plan'.at = Last)
      BY <1>3, <1>4 DEF Plans, Stage
<1>6. cycles' \in [Slots -> Cycles] /\ cycles'[c].at = cycles[c].at
      BY <1>1, <1>2 DEF Cycles
<1>7. UnderWay(c)
      BY <1>2 DEF UnderWay
<1>8. ~overlapped => inFlight /\ plan'.at = stage
      BY <1>5, <1>7 DEF ConsoleInv, Alone
<1>9. Coherent(Row)'
      BY <1>2, <1>5, <1>8 DEF Coherent, Row
<1>10. ASSUME ~overlapped PROVE Alone'
  <2>1. \A d \in Slots \ {c} : ~UnderWay(d) /\ cycles'[d] = cycles[d]
        BY <1>1, <1>2, <1>7, <1>10 DEF ConsoleInv, Alone
  <2>2. \A d \in Slots : UnderWay(d)' => d = c
        BY <2>1 DEF UnderWay
  <2> QED BY <1>2, <1>5, <1>6, <1>8, <1>10, <2>2 DEF Alone
<1> QED BY <1>1, <1>2, <1>5, <1>6, <1>9, <1>10, OptimizerKeeps DEF ConsoleTypeOK

(* A lone cycle that ends leaves a settled row of its own record.          *)
LEMMA EndKeeps == ASSUME ConsoleInv, NEW c \in Slots, End(c) PROVE ConsoleInv'
<1> USE ConsoleAssumption
<1>1. /\ ConsoleTypeOK /\ cycles \in [Slots -> Cycles] /\ Coherent(Row)
      BY DEF ConsoleInv, ConsoleTypeOK
<1>2. /\ UNCHANGED <<service, enabled, stage, plan, overlapped, changes>>
      /\ UNCHANGED <<screen, reads, confirming, acting>>
      /\ cycles[c].phase = "recorded" /\ inFlight' = FALSE
      /\ cycles' = [cycles EXCEPT ![c] = NoCycle]
      BY DEF End, pageVars
<1>3. NoCycle \in Cycles
      BY DEF NoCycle, Cycles, Stage
<1>4. cycles' \in [Slots -> Cycles] /\ cycles'[c] = NoCycle
      BY <1>1, <1>2, <1>3
<1>5. UnderWay(c)
      BY <1>2 DEF UnderWay
<1>6. ~overlapped => plan.at = stage /\ stage # 0
      BY <1>2, <1>5 DEF ConsoleInv, Alone
<1>7. Coherent(Row)'
      BY <1>1, <1>2, <1>6 DEF Coherent, Row
<1>8. ASSUME ~overlapped PROVE Alone'
  <2>1. \A d \in Slots \ {c} : ~UnderWay(d) /\ cycles'[d] = cycles[d]
        BY <1>1, <1>2, <1>5, <1>8 DEF ConsoleInv, Alone
  <2>2. \A d \in Slots : ~UnderWay(d)'
        BY <1>4, <2>1 DEF UnderWay, NoCycle
  <2> QED BY <2>2 DEF Alone
<1> QED BY <1>1, <1>2, <1>4, <1>7, <1>8, OptimizerKeeps DEF ConsoleTypeOK

(* A read that is answered or refetched is of the row there is now.        *)
LEMMA ReadKeeps ==
    ASSUME ConsoleInv, UNCHANGED optimizerVars, UNCHANGED screen,
           confirming' \subseteq Scopes, acting' \subseteq Actions,
           NEW q \in Queries,
           reads' \in {reads, [reads EXCEPT ![q] = Answer(q)], [reads EXCEPT !["fleet"] = Row]}
    PROVE  ConsoleInv'
<1> USE ConsoleAssumption
<1>1. /\ UNCHANGED <<service, enabled, inFlight, stage, plan, cycles, overlapped, changes>>
      /\ Row' = Row
      BY DEF optimizerVars, Row
<1>2. /\ Row \in Rows /\ service \in BOOLEAN /\ enabled \in BOOLEAN
      BY DEF ConsoleInv, ConsoleTypeOK, Row, Rows
<1>3. /\ reads["fleet"] \in Rows \cup {NoData}
      /\ reads["enabled"] \in BOOLEAN \cup {NoData} /\ reads["greenhouse"] \in BOOLEAN \cup {NoData}
      BY DEF ConsoleInv, ConsoleTypeOK
<1>4. /\ reads'["fleet"] \in {reads["fleet"], Row}
      /\ reads'["enabled"] \in BOOLEAN \cup {NoData} /\ reads'["greenhouse"] \in BOOLEAN \cup {NoData}
      /\ reads' \in [Queries -> Rows \cup BOOLEAN \cup {NoData}]
  <2>1. reads \in [Queries -> Rows \cup BOOLEAN \cup {NoData}]
        BY DEF ConsoleInv
  <2>2. CASE q = "fleet"
        BY <1>2, <1>3, <2>1, <2>2 DEF Answer, Queries
  <2>3. CASE q = "enabled"
        BY <1>2, <1>3, <2>1, <2>3 DEF Answer, Queries
  <2>4. CASE q = "greenhouse"
        BY <1>2, <1>3, <2>1, <2>4 DEF Answer, Queries
  <2> QED BY <2>2, <2>3, <2>4 DEF Queries
<1>5. ConsoleTypeOK'
      BY <1>1, <1>2, <1>3, <1>4 DEF ConsoleInv, ConsoleTypeOK
<1>6. Coherent(Row)' /\ (~overlapped => Alone)'
      BY <1>1, PlanningStays
<1>7. reads'["fleet"] # NoData => Coherent(reads'["fleet"])
      BY <1>4 DEF ConsoleInv
<1>8. (reads["fleet"] # NoData => Coherent(reads["fleet"]))'
      BY <1>7 DEF Coherent
<1> QED BY <1>4, <1>5, <1>6, <1>8 DEF ConsoleInv

LEMMA ConsoleStep == ConsoleInv /\ [ConsoleNext]_consoleVars => ConsoleInv'
<1> SUFFICES ASSUME ConsoleInv, [ConsoleNext]_consoleVars PROVE ConsoleInv'
    OBVIOUS
<1> USE ConsoleAssumption
<1>1. /\ service \in BOOLEAN /\ enabled \in BOOLEAN /\ inFlight \in BOOLEAN /\ stage \in Stage
      /\ plan \in Plans \cup {NoPlan} /\ changes \in 0..MaxChanges
      /\ cycles \in [Slots -> Cycles] /\ overlapped \in BOOLEAN
      /\ confirming \subseteq Scopes /\ acting \subseteq Actions
      BY DEF ConsoleInv, ConsoleTypeOK
<1>2. CASE OtherOperator
  <2>1. /\ UNCHANGED <<inFlight, stage, plan, cycles, overlapped>>
        /\ UNCHANGED <<screen, reads, confirming, acting>> /\ changes' \in 0..MaxChanges
        BY <1>1, <1>2 DEF OtherOperator, Change, pageVars
  <2>2. service' \in BOOLEAN /\ enabled' \in BOOLEAN
        BY <1>1, <1>2 DEF OtherOperator
  <2> QED BY <1>1, <2>1, <2>2, PlanningStays, OptimizerKeeps
<1>3. ASSUME NEW c \in OnDemand, Reserve(c), UNCHANGED <<screen, reads, confirming>>,
             acting' \subseteq Actions
      PROVE  ConsoleInv'
  <2>1. /\ c \in Slots /\ Claim(c) /\ UNCHANGED <<service, enabled>> /\ changes' \in 0..MaxChanges
        BY <1>1, <1>3 DEF Reserve, Change, Slots
  <2> QED BY <1>3, <2>1, ClaimKeeps
<1>4. CASE OtherTrigger
  <2>1. PICK c \in OnDemand : Reserve(c) /\ UNCHANGED pageVars
        BY <1>4 DEF OtherTrigger
  <2> QED BY <1>1, <1>3, <2>1 DEF pageVars
<1>5. CASE Pick
  <2>1. /\ UNCHANGED <<service, enabled, inFlight, stage, plan, overlapped>>
        /\ UNCHANGED <<screen, reads, confirming, acting>> /\ changes' \in 0..MaxChanges
        /\ Scheduled \in Slots /\ cycles[Scheduled].phase = "idle"
        /\ cycles' = [cycles EXCEPT ![Scheduled].phase = "picked"]
        BY <1>1, <1>5 DEF Pick, Change, pageVars, Slots
  <2>2. cycles' \in [Slots -> Cycles]
        BY <1>1, <2>1 DEF Cycles
  <2>3. \A d \in Slots \ {Scheduled} : cycles'[d] = cycles[d]
        BY <1>1, <2>1
  <2>4. \A d \in Slots : UnderWay(d)' => UnderWay(d) /\ cycles'[d] = cycles[d]
    <3>1. cycles'[Scheduled].phase = "picked"
          BY <1>1, <2>1 DEF Cycles
    <3> QED BY <2>3, <3>1 DEF UnderWay
  <2>5. Coherent(Row)' /\ (~overlapped => Alone)'
        BY <2>1, <2>4 DEF ConsoleInv, Coherent, Row, Alone
  <2> QED BY <1>1, <2>1, <2>2, <2>5, OptimizerKeeps
<1>6. CASE Dispatch
  <2>1. /\ Claim(Scheduled) /\ Scheduled \in Slots
        /\ UNCHANGED <<service, enabled, changes, screen, reads, confirming, acting>>
        BY <1>6 DEF Dispatch, pageVars, Slots
  <2> QED BY <1>1, <2>1, ClaimKeeps
<1>7. ASSUME NEW c \in Slots, Enter(c) \/ RecordPlan(c) \/ End(c) PROVE ConsoleInv'
      BY <1>7, EnterKeeps, RecordKeeps, EndKeeps
<1>8. CASE Restart
  <2>1. /\ UNCHANGED <<screen, reads, confirming, acting>> /\ changes' \in 0..MaxChanges
        /\ service' = TRUE /\ enabled' = TRUE /\ inFlight' = FALSE /\ stage' = 0 /\ plan' = NoPlan
        /\ cycles' = [c \in Slots |-> NoCycle] /\ overlapped' = FALSE
        BY <1>1, <1>8 DEF Restart, Change, pageVars
  <2>2. Coherent(Row)' /\ Alone'
        BY <2>1 DEF Coherent, Row, Alone, UnderWay, NoCycle
  <2>3. stage' \in Stage /\ cycles' \in [Slots -> Cycles]
        BY <2>1 DEF Stage, NoCycle, Cycles
  <2> QED BY <1>1, <2>1, <2>2, <2>3, OptimizerKeeps
<1>9. ASSUME NEW q \in Queries, Fetch(q) PROVE ConsoleInv'
      BY <1>1, <1>9, ReadKeeps DEF Fetch
<1>10. ASSUME NEW a \in Actions, SettleAction(a) PROVE ConsoleInv'
  <2>1. "fleet" \in Queries /\ acting' \subseteq Actions
        BY <1>1, <1>10 DEF SettleAction, Queries
  <2> QED BY <1>1, <1>10, <2>1, ReadKeeps DEF SettleAction
<1>11. CASE SwitchPage
  <2>1. /\ UNCHANGED <<service, enabled, inFlight, stage, plan, cycles, overlapped, changes, reads>>
        /\ screen' \in {"console", "panel"} /\ confirming' = {} /\ acting' = {}
        BY <1>11 DEF SwitchPage, optimizerVars
  <2>2. ConsoleTypeOK'
        BY <1>1, <2>1 DEF ConsoleInv, ConsoleTypeOK
  <2> QED BY <2>1, <2>2, PlanningStays DEF ConsoleInv, Coherent
<1>12. CASE RunCycle
  <2>1. /\ UNCHANGED <<screen, reads, confirming>> /\ acting' \subseteq Actions
        /\ (\E c \in OnDemand : Reserve(c)) \/ UNCHANGED optimizerVars
        BY <1>1, <1>12 DEF RunCycle, Actions
  <2>2. CASE \E c \in OnDemand : Reserve(c)
        BY <1>3, <2>1, <2>2
  <2>3. CASE UNCHANGED optimizerVars
        BY <1>1, <2>1, <2>3, PlanningStays, OptimizerKeeps DEF optimizerVars
  <2> QED BY <2>1, <2>2, <2>3
<1>13. ASSUME NEW s \in Scopes, AskPause(s) \/ CancelPause(s) PROVE ConsoleInv'
  <2>1. /\ UNCHANGED <<service, enabled, inFlight, stage, plan, cycles, overlapped, changes>>
        /\ UNCHANGED <<screen, reads, acting>> /\ confirming' \subseteq Scopes
        BY <1>1, <1>13 DEF AskPause, CancelPause, optimizerVars
  <2> QED BY <1>1, <2>1, PlanningStays, OptimizerKeeps
<1>14. ASSUME NEW s \in Scopes, ConfirmPause(s) \/ Resume(s) PROVE ConsoleInv'
  <2>1. PICK to \in BOOLEAN : Set(s, to) /\ confirming' \subseteq Scopes
        BY <1>1, <1>14 DEF ConfirmPause, Resume
  <2>2. /\ UNCHANGED <<inFlight, stage, plan, cycles, overlapped, screen, reads>>
        /\ acting' \subseteq Actions
        /\ service' \in BOOLEAN /\ enabled' \in BOOLEAN /\ changes' \in 0..MaxChanges
        BY <1>1, <2>1 DEF Set, Change, Actions
  <2> QED BY <1>1, <2>1, <2>2, PlanningStays, OptimizerKeeps
<1>15. CASE UNCHANGED consoleVars
  <2>1. /\ UNCHANGED <<service, enabled, inFlight, stage, plan, cycles, overlapped, changes>>
        /\ UNCHANGED <<screen, reads, confirming, acting>>
        BY <1>15 DEF consoleVars
  <2> QED BY <1>1, <2>1, PlanningStays, OptimizerKeeps
<1> QED BY <1>2, <1>4, <1>5, <1>6, <1>7, <1>8, <1>9, <1>10, <1>11, <1>12, <1>13, <1>14, <1>15
        DEF ConsoleNext, Planning

THEOREM ConsoleInvariant == ConsoleSpec => []ConsoleInv
BY ConsoleStarts, ConsoleStep, PTL DEF ConsoleSpec

(* Every variable of the console keeps its range.                          *)
THEOREM ConsoleTypeCorrect == ConsoleSpec => []ConsoleTypeOK
BY ConsoleInvariant, PTL DEF ConsoleInv

(* However old the rows the console drew, and whatever the optimizer did   *)
(* in between, a settled row's tracker (pipelineStages of the console's    *)
(* pipeline.ts) marks the stage its cycle stopped at, if cycles had not    *)
(* overlapped (_dispatch of the scheduler) since one last began alone.     *)
THEOREM TrackerMarksTheStop == ConsoleSpec => []MarkerWhereItStopped
<1>1. ConsoleInv => MarkerWhereItStopped
  <2> DEFINE row == reads["fleet"]
             on  == ServiceShown
             at  == row.plan.at
  <2> SUFFICES ASSUME ConsoleInv, row # NoData, ~row.overlapped, ~row.inFlight,
                      CardKind(row, on) = "outcome", NEW n \in 1..Last
               PROVE  LET node == Tracker(row, on)[n]
                      IN /\ node \in {"failed", "held", "unchanged"} => n = at
                         /\ node = "pending" => n > at
                         /\ row.plan.status = "applied" => node = "done"
      BY DEF MarkerWhereItStopped, MarksTheStop
  <2> USE ConsoleAssumption
  <2>1. row \in Rows /\ Coherent(row)
        BY DEF ConsoleInv, ConsoleTypeOK
  <2>2. row.plan # NoPlan
        BY DEF CardKind
  <2>3. /\ row.plan \in Plans /\ at \in 1..Last /\ Placed(row, on) = at
        /\ row.plan.status \in {"applied", "unchanged", "held", "failed"}
        /\ row.plan.status = "applied" => at = Last
        BY <2>1, <2>2 DEF Coherent, Rows, Plans, Stage, Placed
  <2> DEFINE marker == IF row.plan.status = "applied" THEN "done" ELSE row.plan.status
  <2>4. Tracker(row, on)[n] = IF n < at THEN "done" ELSE IF n > at THEN "pending" ELSE marker
        BY <2>3 DEF Tracker
  <2> QED BY <2>3, <2>4
<1> QED BY <1>1, ConsoleInvariant, PTL

-----------------------------------------------------------------------------
(* The dashboard and its parts.                                            *)

(* A dashboard on one route starts each part as the part starts.           *)
LEMMA PartsStart ==
    Init => LinkInit /\ FleetInit /\ FormInit /\ EditorInit /\ ProfilesInit /\ ConsoleInit
BY DEF Init

(* A step of the dashboard is one of the route's part, and a stutter of    *)
(* the others.                                                             *)
LEMMA PartsStep ==
    ASSUME [Next]_vars
    PROVE  /\ [LinkNext]_linkVars /\ [FleetNext]_fleetVars /\ [FormNext]_formVars
           /\ [EditorNext]_editorVars /\ [ProfilesNext]_profileVars /\ [ConsoleNext]_consoleVars
<1>1. CASE Overview
      BY <1>1 DEF Overview
<1>2. CASE Setpoints
      BY <1>2 DEF Setpoints
<1>3. CASE Editing
      BY <1>3 DEF Editing
<1>4. CASE Profiling
      BY <1>4 DEF Profiling
<1>5. CASE Watching
      BY <1>5 DEF Watching
<1>6. CASE Connecting
      BY <1>6 DEF Connecting
<1>7. CASE UNCHANGED vars
      BY <1>7 DEF vars
<1> QED BY <1>1, <1>2, <1>3, <1>4, <1>5, <1>6, <1>7 DEF Next

(* The dashboard implements the specification of each of its parts: the    *)
(* routes (src/app/routes.tsx) keep the pages' and the link's state apart. *)
THEOREM DashboardIsItsParts ==
    Spec => LinkSpec /\ FleetSpec /\ FormSpec /\ EditorSpec /\ ProfilesSpec /\ ConsoleSpec
<1>1. ASSUME [Next]_vars
      PROVE  /\ [LinkNext]_linkVars /\ [FleetNext]_fleetVars /\ [FormNext]_formVars
             /\ [EditorNext]_editorVars /\ [ProfilesNext]_profileVars /\ [ConsoleNext]_consoleVars
      BY <1>1, PartsStep
<1> QED BY <1>1, PartsStart, PTL
        DEF Spec, LinkSpec, FleetSpec, FormSpec, EditorSpec, ProfilesSpec, ConsoleSpec

(* The types of all parts: in particular the reconnect delay stays within  *)
(* maxDelayMs, only contents the form accepts are applied, and an open     *)
(* editor keeps a stage.                                                   *)
THEOREM DashboardTypeCorrect == Spec => []TypeOK
BY DashboardIsItsParts, LinkTypeCorrect, FleetTypeCorrect, FormTypeCorrect, EditorTypeCorrect,
   PagesTypeCorrect, ConsoleTypeCorrect, PTL
DEF TypeOK

(* On whichever route the operator is: one socket lives and is shown as it *)
(* is, polls back off, an answer closes its own dialog, what is saved has  *)
(* its envelopes, the selectors and panes show stages that are, and the    *)
(* tracker marks the stage a cycle stopped at.                             *)
THEOREM DashboardSafe ==
    Spec => [](/\ OneLiveSocket /\ ShownIsMine /\ NeverStranded
               /\ BacksOff /\ AnswerClosesOwnDialog /\ UntouchedFormIsCurrent
               /\ SentIsEnveloped
               /\ StageOfProfile /\ UntouchedShowsAssignment /\ ShownStageExists
               /\ MarkerWhereItStopped)
BY DashboardIsItsParts, LinkIsSingle, IndicatorIsTrue, LinkNeverStranded, FleetBacksOff,
   AnswersCloseTheirDialog, FormShowsTheController, SavesAreEnveloped, PanelStageOfProfile, PanelShowsAssignment,
   ShowsAStageThatIs, TrackerMarksTheStop, PTL

(* Nor does the list of greenhouses or the view of the setpoints fall back *)
(* behind a write the operator was told of, or an answer close an editor   *)
(* that did not ask.                                                       *)
THEOREM DashboardNeverFallsBack == Spec => ListNeverFallsBack /\ NoFallBack /\ AnswerIsForItsForm
BY DashboardIsItsParts, FleetListNeverFallsBack, FormNeverFallsBack, EditorKeepsItsForm, PTL
=============================================================================
