--------------------------- MODULE ProfileEditor ---------------------------
(***************************************************************************)
(* The crop-profile editor (climate-frontend:                              *)
(* features/profiles/ProfileEditForm.tsx and the mutations of              *)
(* api/queries/profiles.ts).  A profile is its growth stages, each a       *)
(* target with the crop-safe envelope the optimizer may refine it within,  *)
(* and irrigation zones under one envelope of their own.  One scalar       *)
(* target and one zone target stand for the nine and the three, which the  *)
(* code treats alike.                                                      *)
(*                                                                         *)
(* Numbers are counted in half hundredths, so that Math.round(100 v)/100   *)
(* takes a whole number to an even one, ties upwards.                      *)
(***************************************************************************)
EXTENDS Integers, Sequences, FiniteSets, FiniteSetsExt

CONSTANTS
    Lo, Hi,     \* the physical range of a target
    Margin,     \* half width of a seeded envelope
    Default,    \* the default target of a new stage and a new zone
    Typed,      \* what the operator types, an emptied field being 0
    Existing,   \* the stages of the library's profiles, some without envelopes
    MaxStages, MaxZones, MaxEdits,  \* bounds, the last of the edits of one form
    NoBound, NoFlight

Even(v) == v % 2 = 0

Bounds == [min : Int, max : Int]

(* A stage of the library may lack its envelopes; the editor's do not.     *)
WireStages == [named : BOOLEAN, target : Int, bound : Bounds \cup {NoBound}, zones : Seq(Int),
               zbound : Bounds \cup {NoBound}]

ASSUME ProfileEditorAssumption ==
    /\ Lo \in Int /\ Hi \in Int /\ Lo <= Hi /\ Even(Lo) /\ Even(Hi)
    /\ Margin \in Nat \ {0} /\ Default \in Lo..Hi /\ Typed \subseteq Int
    /\ MaxStages \in Nat /\ MaxZones \in Nat /\ MaxEdits \in Nat
    /\ \A p \in Existing : p \in Seq(WireStages) /\ p # <<>>
    /\ NoBound \notin Bounds

VARIABLES
    editor,  \* the dialog is open, with a form of its own
    stages,  \* stages
    error,   \* formError
    save,    \* the form's save in flight: what it sends, and its fate
    stray,   \* the fate of a save whose dialog was dismissed
    edits    \* bound counter

editorVars == <<editor, stages, error, save, stray, edits>>

-----------------------------------------------------------------------------
Round2(v) == 2 * ((v + 1) \div 2)

Larger(a, b)  == IF a >= b THEN a ELSE b
Smaller(a, b) == IF a <= b THEN a ELSE b

DefaultBound(t) ==
    [min |-> Round2(Larger(Lo, t - Margin)), max |-> Round2(Smaller(Hi, t + Margin))]

ZoneValues(zones) == {zones[j] : j \in 1..Len(zones)}

DefaultZoneBound(zones) ==
    [min |-> Round2(Larger(Lo, Min(ZoneValues(zones)) - Margin)),
     max |-> Round2(Smaller(Hi, Max(ZoneValues(zones)) + Margin))]

(* Variant: an envelope is only ever kept, never seeded.                   *)
SeedZoneBoundsKeeping(zones, zbound) == IF zones = <<>> THEN NoBound ELSE zbound

SeedZoneBounds(zones, zbound) ==
    IF zones = <<>> THEN NoBound ELSE IF zbound # NoBound THEN zbound ELSE DefaultZoneBound(zones)

(* A stage of the editor always has its whole envelope.                    *)
FullBounds(s) ==
    [s EXCEPT !.bound  = IF @ # NoBound THEN @ ELSE DefaultBound(s.target),
              !.zbound = SeedZoneBounds(s.zones, @)]

DefaultStage(named) ==
    FullBounds([named |-> named, target |-> Default, bound |-> NoBound,
                zones |-> <<>>, zbound |-> NoBound])

EditorInit ==
    /\ editor = FALSE /\ stages = <<>> /\ error = FALSE
    /\ save = NoFlight /\ stray = "none" /\ edits = 0

(* Each dialog mounts a form of its own.                                   *)
OpenEditor ==
    /\ ~editor /\ editor' = TRUE /\ error' = FALSE /\ edits' = 0
    /\ \/ stages' = <<DefaultStage(TRUE)>>
       \/ \E p \in Existing : stages' = [i \in 1..Len(p) |-> FullBounds(p[i])]
    /\ UNCHANGED <<save, stray>>

Edit(i, s) == stages' = [stages EXCEPT ![i] = s]

(* An edge of an envelope; of a missing one, both.                         *)
WithEdge(b, edge, v) ==
    IF b = NoBound THEN [min |-> v, max |-> v] ELSE [b EXCEPT ![edge] = v]

SetName(i)      == Edit(i, [stages[i] EXCEPT !.named = ~@])
SetTarget(i, v) == Edit(i, [stages[i] EXCEPT !.target = v])
SetBound(i, edge, v) == Edit(i, [stages[i] EXCEPT !.bound = WithEdge(@, edge, v)])
SetZoneBound(i, edge, v) ==
    stages[i].zones # <<>> /\ Edit(i, [stages[i] EXCEPT !.zbound = WithEdge(@, edge, v)])

(* setZones re-seeds the zones' envelope, keeping one that is set.         *)
SetZones(i, zones) ==
    Edit(i, [stages[i] EXCEPT !.zones = zones, !.zbound = SeedZoneBounds(zones, @)])

ZoneEdit(i) ==
    LET zones == stages[i].zones
    IN \/ Len(zones) < MaxZones /\ SetZones(i, Append(zones, Default))
       \/ \E j \in 1..Len(zones), v \in Typed : SetZones(i, [zones EXCEPT ![j] = v])
       \/ \E j \in 1..Len(zones) :
             SetZones(i, SubSeq(zones, 1, j - 1) \o SubSeq(zones, j + 1, Len(zones)))

AddStage == Len(stages) < MaxStages /\ stages' = Append(stages, DefaultStage(FALSE))

(* The last stage has no button to remove it.                              *)
RemoveStage(i) ==
    /\ Len(stages) > 1
    /\ stages' = SubSeq(stages, 1, i - 1) \o SubSeq(stages, i + 1, Len(stages))

(* The fields stay enabled while the form is being saved.                  *)
EditForm ==
    /\ editor /\ edits < MaxEdits /\ edits' = edits + 1
    /\ \/ AddStage
       \/ \E i \in 1..Len(stages) :
             \/ SetName(i) \/ ZoneEdit(i) \/ RemoveStage(i)
             \/ \E v \in Typed :
                   \/ SetTarget(i, v)
                   \/ \E edge \in {"min", "max"} : SetBound(i, edge, v) \/ SetZoneBound(i, edge, v)
    /\ UNCHANGED <<editor, error, save, stray>>

Inside(v, b) == b.min <= v /\ v <= b.max

(* The checks of submit; a bound that is missing is passed over.           *)
Accepts(s) ==
    /\ s.named
    /\ s.bound # NoBound => s.bound.min <= s.bound.max /\ Inside(s.target, s.bound)
    /\ s.zbound # NoBound =>
          /\ s.zbound.min <= s.zbound.max
          /\ \A v \in ZoneValues(s.zones) : Inside(v, s.zbound)

Submit ==
    /\ editor /\ save = NoFlight
    /\ IF \A i \in 1..Len(stages) : Accepts(stages[i])
       THEN error' = FALSE /\ save' = [sends |-> stages, phase |-> "sent"]
       ELSE error' = TRUE /\ UNCHANGED save
    /\ UNCHANGED <<editor, stages, stray, edits>>

Fates == {"saved", "refused"}

(* The platform re-validates, for instance against the physical ranges.    *)
AnswerSave ==
    /\ \/ save # NoFlight /\ save.phase = "sent" /\ UNCHANGED stray
          /\ \E p \in Fates : save' = [save EXCEPT !.phase = p]
       \/ stray = "sent" /\ stray' \in Fates /\ UNCHANGED save
    /\ UNCHANGED <<editor, stages, error, edits>>

Tell(fate) ==
    IF fate = "saved" THEN editor' = FALSE /\ UNCHANGED error
                      ELSE error' = TRUE /\ UNCHANGED editor

Settle ==
    /\ save # NoFlight /\ save.phase \in Fates
    /\ Tell(save.phase) /\ save' = NoFlight
    /\ UNCHANGED <<stages, stray, edits>>

(* Variant: the answer acts on whatever form is open.                      *)
SettleAnyForm ==
    /\ stray \in Fates /\ stray' = "none"
    /\ IF editor THEN Tell(stray) ELSE UNCHANGED <<editor, error>>
    /\ UNCHANGED <<stages, save, edits>>

(* The callbacks of a form that is gone are dropped.                       *)
SettleStray ==
    /\ stray \in Fates /\ stray' = "none"
    /\ UNCHANGED <<editor, stages, error, save, edits>>

(* Esc, the backdrop and the X, also while saving; at most one dismissed   *)
(* save is in flight (a bound).                                            *)
CloseEditor ==
    /\ editor /\ editor' = FALSE
    /\ \/ save = NoFlight /\ UNCHANGED <<save, stray>>
       \/ save # NoFlight /\ stray = "none" /\ stray' = save.phase /\ save' = NoFlight
    /\ UNCHANGED <<stages, error, edits>>

EditorNext ==
    OpenEditor \/ EditForm \/ Submit \/ AnswerSave \/ Settle \/ SettleStray \/ CloseEditor

EditorSpec == EditorInit /\ [][EditorNext]_editorVars

-----------------------------------------------------------------------------
Stages == [named : BOOLEAN, target : Int, bound : Bounds, zones : Seq(Int),
           zbound : Bounds \cup {NoBound}]

EditorTypeOK ==
    /\ editor \in BOOLEAN /\ error \in BOOLEAN /\ edits \in 0..MaxEdits
    /\ stages \in Seq(Stages) /\ (editor => stages # <<>>)
    /\ save \in [sends : Seq(Stages), phase : {"sent"} \cup Fates] \cup {NoFlight}
    /\ stray \in {"none", "sent"} \cup Fates

(* What is sent to the platform gives the optimizer a complete envelope to *)
(* refine within, whatever was added, removed and edited before: every     *)
(* target lies in it, and there is one for the zones exactly if there are  *)
(* zones, however the profile came without one.                            *)
SentIsEnveloped ==
    save # NoFlight =>
        /\ save.sends # <<>>
        /\ \A i \in 1..Len(save.sends) :
              LET s == save.sends[i]
              IN /\ s.bound # NoBound /\ Inside(s.target, s.bound)
                 /\ (s.zbound = NoBound) = (s.zones = <<>>)
                 /\ \A v \in ZoneValues(s.zones) : Inside(v, s.zbound)

OwnFate == IF save = NoFlight THEN "none" ELSE save.phase

(* A form, and what was typed into it, goes only when the operator         *)
(* dismisses it or its own save succeeded: the answer to a save whose      *)
(* dialog was dismissed closes no form opened after it and shows no error  *)
(* there.                                                                  *)
AnswerIsForItsForm ==
    [][/\ ~editor' /\ editor => CloseEditor \/ OwnFate = "saved"
       /\ error' /\ ~error => Submit \/ OwnFate = "refused"]_editorVars
=============================================================================
