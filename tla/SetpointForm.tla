---------------------------- MODULE SetpointForm ----------------------------
(***************************************************************************)
(* The operator's manual setpoint edit (climate-frontend:                  *)
(* features/greenhouse/SetpointEditForm.tsx and SetpointsView.tsx, the     *)
(* queries of api/queries/greenhouses.ts, components/ui/Dialog.tsx).       *)
(*                                                                         *)
(* The form is seeded from a cached read of the greenhouse, which a poll   *)
(* of its own and the end of an accepted edit refresh; "Review & apply"    *)
(* opens a dialog that lists how the form differs from the cached read,    *)
(* and its Apply sends the whole form.  Meanwhile the optimizer, profiles  *)
(* and other operators write the same setpoints, and stream frames patch   *)
(* the status beside them in the same cached read.                         *)
(***************************************************************************)
EXTENDS Integers

CONSTANTS
    Fields, Values,  \* of the setpoints
    Bands,           \* pairs of fields, the low and the high end of a band
    Refused,         \* contents the controller refuses though the form does not
    Interval,        \* FLEET_POLL_BASE_MS, in steps of the clock
    MaxWrites,       \* bound: writes the controller takes
    MaxFails,        \* bound: reads that fail for good, after their retries
    NoEdit, NoRead, Asked

Contents == [Fields -> Values]

(* formSchema and zoneSchema: the high end of each band above its low one; *)
(* the ranges of the fields are those of Values.                           *)
Valid == {c \in Contents : \A b \in Bands : c[b[1]] < c[b[2]]}

ASSUME SetpointFormAssumption ==
    /\ Values \subseteq Int /\ Bands \subseteq Fields \X Fields
    /\ Refused \subseteq Valid /\ Valid \ Refused # {}
    /\ Interval \in Nat \ {0} /\ MaxWrites \in Nat /\ MaxFails \in Nat
    /\ NoEdit \notin Contents /\ NoEdit \notin [vals : Contents, shown : SUBSET Fields,
                      phase : {"sent", "ok", "done", "refused", "unavailable", "lost"}, at : 0..MaxWrites]
    /\ {NoRead, Asked} \cap [vals : Contents, at : 0..MaxWrites] = {}

VARIABLES
    server,   \* the controller's setpoints, and how many writes made them
    cache,    \* the setpoints of the cached read
    form,     \* the values of the fields
    dirty,    \* the operator typed since they were seeded
    pending,  \* what the open dialog would apply
    flight,   \* the edit sent: its values, what the dialog listed, its fate
    read,     \* the read in flight: NoRead, Asked, or its answer
    due,      \* the poll's timer
    offline,  \* the status of the cached read
    acked,    \* history: the write of the last edit told applied
    fails     \* bound counter

formVars == <<server, cache, form, dirty, pending, flight, read, due, offline, acked, fails>>

Snapshots == [vals : Contents, at : 0..MaxWrites]
Flights   == [vals : Contents, shown : SUBSET Fields,
              phase : {"sent", "ok", "done", "refused", "unavailable", "lost"}, at : 0..MaxWrites]

FormInit ==
    /\ server \in [vals : Valid \ Refused, at : {0}] /\ cache = server
    /\ form = cache.vals /\ dirty = FALSE
    /\ pending = NoEdit /\ flight = NoEdit /\ read = NoRead
    /\ due = Interval /\ offline = FALSE /\ acked = 0 /\ fails = 0

-----------------------------------------------------------------------------
(* Variant: an edit in flight does not disable the form.                   *)
DisabledOfflineOnly == offline

(* disabled, for an operator; a viewer never leaves it.                    *)
Disabled == offline \/ flight # NoEdit

Type ==
    /\ ~Disabled /\ pending = NoEdit
    /\ \E f \in Fields, v \in Values : form' = [form EXCEPT ![f] = v]
    /\ dirty' = TRUE
    /\ UNCHANGED <<server, cache, pending, flight, read, due, offline, acked, fails>>

(* The fields whose value in the dialog differs from the cached read's.    *)
Changes(vals) == {f \in Fields : vals[f] # cache.vals[f]}

(* The form's handleSubmit, then onValid.                                  *)
OnValid ==
    /\ ~Disabled /\ pending = NoEdit /\ form \in Valid
    /\ pending' = form
    /\ UNCHANGED <<server, cache, form, dirty, flight, read, due, offline, acked, fails>>

(* Cancel is disabled while the edit is in flight, but not Esc, the        *)
(* backdrop and the dialog's X.                                            *)
CloseDialog ==
    /\ pending # NoEdit /\ pending' = NoEdit
    /\ UNCHANGED <<server, cache, form, dirty, flight, read, due, offline, acked, fails>>

(* applyEdit; Apply stays enabled when the controller goes offline.        *)
ApplyEdit ==
    /\ pending # NoEdit /\ flight = NoEdit
    /\ flight' = [vals |-> pending, shown |-> Changes(pending), phase |-> "sent", at |-> 0]
    /\ UNCHANGED <<server, cache, form, dirty, pending, read, due, offline, acked, fails>>

(* The platform relays the edit to the controller, or cannot; the answer   *)
(* may be lost on its way back.                                            *)
Relayed ==
    /\ flight # NoEdit /\ flight.phase = "sent"
    /\ \/ /\ flight.vals \notin Refused /\ server.at < MaxWrites
          /\ server' = [vals |-> flight.vals, at |-> server.at + 1]
          /\ \E p \in {"ok", "lost"} :
                flight' = [flight EXCEPT !.phase = p, !.at = server.at + 1]
       \/ /\ flight.vals \in Refused
          /\ flight' = [flight EXCEPT !.phase = "refused"] /\ UNCHANGED server
       \/ /\ \E p \in {"unavailable", "lost"} : flight' = [flight EXCEPT !.phase = p]
          /\ UNCHANGED server
    /\ UNCHANGED <<cache, form, dirty, pending, read, due, offline, acked, fails>>

(* Variant: a read in flight is taken for the refetch.                     *)
RefetchJoining == read' = IF read = NoRead THEN Asked ELSE read

(* invalidateQueries and refetchQueries: a read in flight is cancelled and *)
(* a new one starts.                                                       *)
Refetch == read' = Asked

(* An accepted edit first invalidates the cached read, and the mutation    *)
(* stays pending until the fleet's read has been refetched.                *)
Invalidate ==
    /\ flight # NoEdit /\ flight.phase = "ok"
    /\ flight' = [flight EXCEPT !.phase = "done"] /\ Refetch
    /\ UNCHANGED <<server, cache, form, dirty, pending, due, offline, acked, fails>>

(* Then the mutation settles: the dialog closes, and the operator is told, *)
(* in a toast or on the refused field.                                     *)
SettleEdit ==
    /\ flight # NoEdit /\ flight.phase \notin {"sent", "ok"}
    /\ pending' = NoEdit /\ flight' = NoEdit
    /\ acked' = IF flight.phase = "done" THEN flight.at ELSE acked
    /\ UNCHANGED <<server, cache, form, dirty, read, due, offline, fails>>

(* The optimizer, a profile or another operator.                           *)
OtherWrite ==
    /\ server.at < MaxWrites
    /\ \E v \in Valid \ Refused : server' = [vals |-> v, at |-> server.at + 1]
    /\ UNCHANGED <<cache, form, dirty, pending, flight, read, due, offline, acked, fails>>

Elapse ==
    /\ due > 0 /\ due' = due - 1
    /\ UNCHANGED <<server, cache, form, dirty, pending, flight, read, offline, acked, fails>>

(* The interval of useGreenhouse.                                          *)
Poll ==
    /\ due = 0 /\ due' = Interval /\ Refetch
    /\ UNCHANGED <<server, cache, form, dirty, pending, flight, offline, acked, fails>>

(* The platform answers with the controller's setpoints of this moment.    *)
ServeRead ==
    /\ read = Asked /\ read' = server
    /\ UNCHANGED <<server, cache, form, dirty, pending, flight, due, offline, acked, fails>>

(* The answer is cached; when its setpoints differ the effect re-seeds the *)
(* form, whatever was typed.                                               *)
FetchAnswered ==
    /\ read \in Snapshots /\ read' = NoRead /\ cache' = read
    /\ IF read.vals = cache.vals THEN UNCHANGED <<form, dirty>>
                                 ELSE form' = read.vals /\ dirty' = FALSE
    /\ UNCHANGED <<server, pending, flight, due, offline, acked, fails>>

FetchFailed ==
    /\ read # NoRead /\ fails < MaxFails
    /\ read' = NoRead /\ fails' = fails + 1
    /\ UNCHANGED <<server, cache, form, dirty, pending, flight, due, offline, acked>>

(* Variant: the interval is the query's own, which every write to the      *)
(* cached read starts again.                                               *)
FrameRestartingPoll ==
    /\ offline' \in BOOLEAN /\ due' = Interval
    /\ UNCHANGED <<server, cache, form, dirty, pending, flight, read, acked, fails>>

(* A status frame patches the cached read.                                 *)
Frame ==
    /\ offline' \in BOOLEAN
    /\ UNCHANGED <<server, cache, form, dirty, pending, flight, read, due, acked, fails>>

FormNext ==
    \/ Type \/ OnValid \/ CloseDialog \/ ApplyEdit \/ Relayed \/ Invalidate \/ SettleEdit
    \/ OtherWrite \/ Elapse \/ Poll \/ ServeRead \/ FetchAnswered \/ FetchFailed \/ Frame

(* Timers fire, and the platform answers; a poll cancels a read that takes *)
(* longer than its interval, and not every read does.                      *)
FormFairness ==
    /\ WF_formVars(Elapse) /\ WF_formVars(Poll)
    /\ WF_formVars(ServeRead) /\ SF_formVars(FetchAnswered)
    /\ WF_formVars(Relayed) /\ WF_formVars(Invalidate) /\ WF_formVars(SettleEdit)

FormSpec == FormInit /\ [][FormNext]_formVars

-----------------------------------------------------------------------------
FormTypeOK ==
    /\ server \in Snapshots /\ cache \in Snapshots
    /\ form \in Contents /\ dirty \in BOOLEAN
    /\ pending \in Valid \cup {NoEdit} /\ flight \in Flights \cup {NoEdit}
    /\ read \in Snapshots \cup {NoRead, Asked}
    /\ due \in 0..Interval /\ offline \in BOOLEAN
    /\ acked \in 0..MaxWrites /\ fails \in 0..MaxFails

(* An answer closes the dialog of its own edit, never one the operator     *)
(* opened since: Esc dismisses the dialog while its edit is in flight, and *)
(* no other dialog opens before that edit settles.                         *)
AnswerClosesOwnDialog == pending # NoEdit /\ flight # NoEdit => pending = flight.vals

(* Once the operator is told an edit was applied, the cached read and the  *)
(* form never fall back to setpoints from before that edit.                *)
NoFallBack == [][cache' # cache => cache'.at >= acked]_formVars

(* When the other writers are done the view comes to show the controller's *)
(* setpoints, however often the stream patches the cached read; what the   *)
(* operator has typed since is the only difference.                        *)
FormFollows == <>[](cache.vals = server.vals /\ (dirty \/ form = cache.vals))

(* Why: a form nobody typed in shows the cached read, and a cached read as *)
(* new as the last write is the controller's setpoints, so that such a     *)
(* form, whatever re-seeded it, is never of one write and shown as another *)
(* (the seeding effect, useGreenhouse).                                    *)
UntouchedFormIsCurrent == ~dirty /\ cache.at = server.at => form = server.vals

(* The dialog summarizes the change: an accepted edit changes no field at  *)
(* the controller that the dialog did not list.                            *)
SummaryIsTheWrite ==
    [][Relayed => {f \in Fields : server'.vals[f] # server.vals[f]} \subseteq flight.shown]_formVars
=============================================================================
