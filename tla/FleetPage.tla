------------------------------ MODULE FleetPage ------------------------------
(***************************************************************************)
(* The fleet page (climate-frontend: features/fleet/, api/queries/fleet.ts *)
(* and greenhouses.ts): the list of greenhouses with the dialog that       *)
(* registers one, the action on a greenhouse's page that retires it, and   *)
(* the poll that seeds the cards' charts, which backs off when it fails.   *)
(*                                                                         *)
(* The list is a cached read.  It is refetched on an interval and at the   *)
(* end of the operator's own writes, and other operators write to the      *)
(* registry meanwhile.                                                     *)
(***************************************************************************)
EXTENDS Integers

CONSTANTS
    Sites,         \* ids a greenhouse may be registered under
    NoSite, NoCall, NoList, AskedList,
    MaxRegistry,   \* bound: writes of the registry
    MaxMisses      \* where the count of failed polls saturates

ASSUME FleetPageAssumption ==
    /\ NoSite \notin Sites /\ "fleet" \notin Sites
    /\ MaxRegistry \in Nat /\ MaxMisses \in Nat /\ MaxMisses > 2
    /\ NoCall \notin [id : Sites, phase : {"sent", "ok", "done", "refused"}, at : 0..MaxRegistry]
    /\ {NoList, AskedList} \cap [ids : SUBSET Sites, at : 0..MaxRegistry] = {}

VARIABLES
    registry,    \* the platform's greenhouses, and how many writes made them
    fleet,       \* the cached list
    fleetError,  \* its query shows an error instead
    fleetRead,   \* the read in flight: NoList, AskedList, or its answer
    where,       \* the page: "fleet", or a greenhouse's
    dialog,      \* the register dialog: open, the id typed, isSubmitting
    joining,     \* the registration whose callbacks are attached
    confirm,     \* the retire dialog is open
    leaving,     \* the retirement in flight
    told,        \* history: the newest write the operator was told of
    misses,      \* failuresRef.current
    failed,      \* history: the polls that failed in a row
    degraded,    \* the stream is reconnecting or closed
    cadence,     \* the interval the poll's timer was set to, in minutes
    polling      \* a poll is in flight

listVars  == <<registry, fleet, fleetError, fleetRead>>
siteVars  == <<where, dialog, joining, confirm, leaving, told>>
sparkVars == <<misses, failed, degraded, cadence, polling>>
fleetVars == <<listVars, siteVars, sparkVars>>

Lists  == [ids : SUBSET Sites, at : 0..MaxRegistry]
Calls  == [id : Sites, phase : {"sent", "ok", "done", "refused"}, at : 0..MaxRegistry]
NoForm == [open |-> FALSE, id |-> NoSite, busy |-> FALSE]

-----------------------------------------------------------------------------
(* fleetPollIntervalMs.                                                    *)
Escalated(n) == IF n >= 2 THEN 5 ELSE IF n = 1 THEN 2 ELSE 1

Cadence(slow, n) == IF slow /\ Escalated(n) < 2 THEN 2 ELSE Escalated(n)

FleetInit ==
    /\ registry \in [ids : SUBSET Sites, at : {0}] /\ fleet = registry
    /\ fleetError = FALSE /\ fleetRead = NoList
    /\ where = "fleet" /\ dialog = NoForm /\ joining = NoCall
    /\ confirm = FALSE /\ leaving = NoCall /\ told = 0
    /\ misses = 0 /\ failed = 0 /\ degraded = FALSE /\ cadence = 1 /\ polling = TRUE

(* The charts' poll.  The observer asks for the interval whenever its      *)
(* query changes, before the effect that counts the change runs, and again *)
(* when the page renders; setting another one starts its timer anew.       *)
Render ==
    /\ where = "fleet" /\ degraded' \in BOOLEAN /\ cadence' = Cadence(degraded', misses)
    /\ UNCHANGED <<misses, failed, polling, listVars, siteVars>>

(* Variant: the count is the query's own, which a new fetch sets back.     *)
PollChartsForgetting ==
    /\ where = "fleet" /\ ~polling /\ polling' = TRUE
    /\ misses' = 0 /\ cadence' = Cadence(degraded, 0)
    /\ UNCHANGED <<failed, degraded, listVars, siteVars>>

PollCharts ==
    /\ where = "fleet" /\ ~polling /\ polling' = TRUE
    /\ cadence' = Cadence(degraded, misses)
    /\ UNCHANGED <<misses, failed, degraded, listVars, siteVars>>

Counted(ok, n) == IF ok THEN 0 ELSE IF n < MaxMisses THEN n + 1 ELSE n

ChartsSettle(ok) ==
    /\ polling /\ polling' = FALSE /\ where = "fleet"
    /\ cadence' = Cadence(degraded, misses)
    /\ misses' = Counted(ok, misses) /\ failed' = Counted(ok, failed)
    /\ UNCHANGED <<degraded, listVars, siteVars>>

-----------------------------------------------------------------------------
(* The list.                                                               *)

(* Variant: a read in flight is taken for the refetch.                     *)
ReloadJoining == fleetRead' = IF fleetRead = NoList THEN AskedList ELSE fleetRead

(* A refetch, which cancels the read in flight.                            *)
Reload == fleetRead' = AskedList

PollFleet ==
    /\ fleetRead # AskedList /\ Reload
    /\ UNCHANGED <<registry, fleet, fleetError, siteVars, sparkVars>>

ServeFleet ==
    /\ fleetRead = AskedList /\ fleetRead' = registry
    /\ UNCHANGED <<registry, fleet, fleetError, siteVars, sparkVars>>

FleetAnswered ==
    /\ fleetRead \in Lists /\ fleetRead' = NoList
    /\ fleet' = fleetRead /\ fleetError' = FALSE
    /\ UNCHANGED <<registry, siteVars, sparkVars>>

FleetFailed ==
    /\ fleetRead # NoList /\ fleetRead' = NoList /\ fleetError' = TRUE
    /\ UNCHANGED <<registry, fleet, siteVars, sparkVars>>

(* A frame that patches the cached list makes its query a success again.   *)
FleetFrame ==
    /\ fleetError /\ fleetError' = FALSE
    /\ UNCHANGED <<registry, fleet, fleetRead, siteVars, sparkVars>>

Listed == IF fleetError THEN {} ELSE fleet.ids

(* The platform's registry: ids are unique, and only one that is there is  *)
(* retired.                                                                *)
WriteRegistry(ids) ==
    registry.at < MaxRegistry /\ registry' = [ids |-> ids, at |-> registry.at + 1]

OtherOperators ==
    /\ \E s \in Sites : \/ s \notin registry.ids /\ WriteRegistry(registry.ids \cup {s})
                        \/ s \in registry.ids /\ WriteRegistry(registry.ids \ {s})
    /\ UNCHANGED <<fleet, fleetError, fleetRead, siteVars, sparkVars>>

-----------------------------------------------------------------------------
(* The register dialog.                                                    *)
OpenRegister ==
    /\ where = "fleet" /\ ~dialog.open /\ dialog' = [dialog EXCEPT !.open = TRUE]
    /\ UNCHANGED <<where, joining, confirm, leaving, told, listVars, sparkVars>>

TypeId ==
    /\ dialog.open /\ \E s \in Sites : dialog' = [dialog EXCEPT !.id = s]
    /\ UNCHANGED <<where, joining, confirm, leaving, told, listVars, sparkVars>>

(* onSubmit; the callbacks of an earlier registration are dropped, and     *)
(* what becomes of it is as another operator's.                            *)
SubmitRegister ==
    /\ dialog.open /\ ~dialog.busy /\ dialog.id # NoSite
    /\ dialog' = [dialog EXCEPT !.busy = TRUE]
    /\ joining' = [id |-> dialog.id, phase |-> "sent", at |-> 0]
    /\ UNCHANGED <<where, confirm, leaving, told, listVars, sparkVars>>

(* Esc, the backdrop and the X, also while submitting: the form is reset.  *)
CloseRegister ==
    /\ dialog.open /\ dialog' = NoForm
    /\ UNCHANGED <<where, joining, confirm, leaving, told, listVars, sparkVars>>

RegisterAnswered ==
    /\ joining # NoCall /\ joining.phase = "sent"
    /\ \/ /\ joining.id \notin registry.ids /\ WriteRegistry(registry.ids \cup {joining.id})
          /\ joining' = [joining EXCEPT !.phase = "ok", !.at = registry.at + 1]
       \/ joining' = [joining EXCEPT !.phase = "refused"] /\ UNCHANGED registry
    /\ UNCHANGED <<fleet, fleetError, fleetRead, where, dialog, confirm, leaving, told, sparkVars>>

(* An accepted write first invalidates the list; only then do the          *)
(* callbacks of the dialog run.                                            *)
RegisterInvalidates ==
    /\ joining # NoCall /\ joining.phase = "ok"
    /\ joining' = [joining EXCEPT !.phase = "done"] /\ Reload
    /\ UNCHANGED <<registry, fleet, fleetError, where, dialog, confirm, leaving, told, sparkVars>>

(* Success resets and closes the dialog, whatever was typed by now.        *)
SettleRegister ==
    /\ joining # NoCall /\ joining.phase \in {"done", "refused"} /\ joining' = NoCall
    /\ IF joining.phase = "done"
       THEN dialog' = NoForm /\ told' = IF joining.at > told THEN joining.at ELSE told
       ELSE dialog' = [dialog EXCEPT !.busy = FALSE] /\ UNCHANGED told
    /\ UNCHANGED <<where, confirm, leaving, listVars, sparkVars>>

-----------------------------------------------------------------------------
(* The fleet page is mounted: its count starts with the error the cache    *)
(* may still hold, and its charts are fetched unless they are fresh.       *)
MountFleet ==
    /\ misses' \in {0, 1} /\ failed' = 0 /\ polling' \in BOOLEAN
    /\ degraded' \in BOOLEAN /\ cadence' = Cadence(degraded', 0)

(* From the fleet to a greenhouse's page and back; what is in flight goes  *)
(* on without anyone to tell.                                              *)
Browse ==
    /\ \/ where = "fleet" /\ where' \in Listed /\ UNCHANGED sparkVars
       \/ where # "fleet" /\ where' = "fleet" /\ MountFleet
    /\ dialog' = NoForm /\ joining' = NoCall /\ confirm' = FALSE /\ leaving' = NoCall
    /\ UNCHANGED told /\ UNCHANGED listVars

(* The retire action of a greenhouse's page.                               *)
AskRetire ==
    /\ where # "fleet" /\ ~confirm /\ confirm' = TRUE
    /\ UNCHANGED <<where, dialog, joining, leaving, told, listVars, sparkVars>>

CloseRetire ==
    /\ confirm /\ confirm' = FALSE
    /\ UNCHANGED <<where, dialog, joining, leaving, told, listVars, sparkVars>>

ConfirmRetire ==
    /\ confirm /\ leaving = NoCall
    /\ leaving' = [id |-> where, phase |-> "sent", at |-> 0]
    /\ UNCHANGED <<where, dialog, joining, confirm, told, listVars, sparkVars>>

RetireAnswered ==
    /\ leaving # NoCall /\ leaving.phase = "sent"
    /\ \/ /\ leaving.id \in registry.ids /\ WriteRegistry(registry.ids \ {leaving.id})
          /\ leaving' = [leaving EXCEPT !.phase = "ok", !.at = registry.at + 1]
       \/ leaving' = [leaving EXCEPT !.phase = "refused"] /\ UNCHANGED registry
    /\ UNCHANGED <<fleet, fleetError, fleetRead, where, dialog, joining, confirm, told, sparkVars>>

RetireInvalidates ==
    /\ leaving # NoCall /\ leaving.phase = "ok"
    /\ leaving' = [leaving EXCEPT !.phase = "done"] /\ Reload
    /\ UNCHANGED <<registry, fleet, fleetError, where, dialog, joining, confirm, told, sparkVars>>

(* Success returns the operator to the fleet.                              *)
SettleRetire ==
    /\ leaving # NoCall /\ leaving.phase \in {"done", "refused"} /\ leaving' = NoCall
    /\ IF leaving.phase = "done"
       THEN /\ confirm' = FALSE /\ where' = "fleet"
            /\ told' = IF leaving.at > told THEN leaving.at ELSE told
            /\ MountFleet
       ELSE UNCHANGED <<confirm, where, told, sparkVars>>
    /\ UNCHANGED <<dialog, joining, listVars>>

FleetNext ==
    \/ Render \/ PollCharts \/ (\E ok \in BOOLEAN : ChartsSettle(ok))
    \/ PollFleet \/ ServeFleet \/ FleetAnswered \/ FleetFailed \/ FleetFrame \/ OtherOperators
    \/ OpenRegister \/ TypeId \/ SubmitRegister \/ CloseRegister
    \/ RegisterAnswered \/ RegisterInvalidates \/ SettleRegister
    \/ Browse \/ AskRetire \/ CloseRetire \/ ConfirmRetire
    \/ RetireAnswered \/ RetireInvalidates \/ SettleRetire

FleetSpec == FleetInit /\ [][FleetNext]_fleetVars

-----------------------------------------------------------------------------
FleetTypeOK ==
    /\ registry \in Lists /\ fleet \in Lists /\ fleetError \in BOOLEAN
    /\ fleetRead \in Lists \cup {NoList, AskedList}
    /\ where \in Sites \cup {"fleet"}
    /\ dialog \in [open : BOOLEAN, id : Sites \cup {NoSite}, busy : BOOLEAN]
    /\ joining \in Calls \cup {NoCall} /\ leaving \in Calls \cup {NoCall}
    /\ confirm \in BOOLEAN /\ told \in 0..MaxRegistry
    /\ misses \in 0..MaxMisses /\ failed \in 0..MaxMisses /\ degraded \in BOOLEAN
    /\ cadence \in {1, 2, 5} /\ polling \in BOOLEAN

(* "The browser stops amplifying load on an overloaded platform": the      *)
(* charts' timer is at most one failure behind the polls that failed in a  *)
(* row, and never at the healthy cadence on a degraded stream, in whatever *)
(* order failures, renders, stream changes and visits of the page come.    *)
BacksOff ==
    where = "fleet" =>
        /\ cadence >= Escalated(failed - 1)
        /\ degraded => cadence >= 2

(* Once the operator is told that a greenhouse was registered or retired,  *)
(* no read brings back the list from before: a card neither vanishes again *)
(* nor returns, although polls, other operators' writes and reads already  *)
(* on their way interleave with the operator's own write.                  *)
ListNeverFallsBack == [][fleet' # fleet => fleet'.at >= told]_fleetVars

(* An answer to a registration clears no form opened after it.             *)
NewFormKept == [][SettleRegister /\ dialog.open => dialog.busy]_fleetVars
=============================================================================
