------------------------------ MODULE Profiles ------------------------------
(***************************************************************************)
(* The crop-profile library and the assignment of a profile's stage to a   *)
(* greenhouse, as the dashboard's two pages show them (climate-frontend:   *)
(* features/profiles/ProfileManagement.tsx with its list, stages and       *)
(* targets panes, features/greenhouse/ProfileAssignmentPanel.tsx, and the  *)
(* queries of api/queries/profiles.ts).                                    *)
(*                                                                         *)
(* Both pages read the same cached library, which other operators change   *)
(* at the platform.  A page keeps its selection in React state that its    *)
(* effects correct after the render that shows new data; the effects run   *)
(* before the next event, and are part of the action that caused them.     *)
(***************************************************************************)
EXTENDS Integers, Sequences, FiniteSets

CONSTANTS
    Libraries,  \* what the library may be: sequences of ids and their stages
    None        \* no profile, no stage, nothing loaded, nothing in flight

Entries(lib) == {lib[i] : i \in 1..Len(lib)}
Ids(lib)     == {e.id : e \in Entries(lib)}

StagesOf(lib, p) ==
    IF p \in Ids(lib) THEN (CHOOSE e \in Entries(lib) : e.id = p).stages ELSE <<>>

Names(stages)  == {stages[i] : i \in 1..Len(stages)}
Pairs(lib)     == {[profile |-> p, stage |-> s] : p \in Ids(lib), s \in UNION {Names(StagesOf(lib, q)) : q \in Ids(lib)}}
InLibrary(lib, c) == c.profile \in Ids(lib) /\ c.stage \in Names(StagesOf(lib, c.profile))

(* The profiles whose ids are in a set, in the order of the library.       *)
Only(lib, ids) ==
    LET kept[n \in 0..Len(lib)] ==
            IF n = 0 THEN <<>>
            ELSE IF lib[n].id \in ids THEN Append(kept[n-1], lib[n]) ELSE kept[n-1]
    IN kept[Len(lib)]

Without(lib, p) == Only(lib, Ids(lib) \ {p})

(* Every profile has stages, and a library is one without any profile too. *)
ASSUME ProfilesAssumption ==
    /\ <<>> \in Libraries
    /\ \A lib \in Libraries :
          /\ lib \in Seq(Entries(lib)) /\ None \notin Ids(lib)
          /\ \A e \in Entries(lib) : Len(e.stages) \in Nat \ {0} /\ None \notin Names(e.stages)
          /\ \A p \in Ids(lib) : Without(lib, p) \in Libraries

VARIABLES
    library,   \* the platform's profiles
    assigned,  \* the platform's assignment of the greenhouse
    cached,    \* profiles.data, empty until loaded
    current,   \* assignment.data, None until loaded or when there is none
    page,      \* the mounted page
    choice,    \* profileId and stage, the selectors of the greenhouse page
    touched,   \* history: the selectors left what the effects seeded last
    apply,     \* the assignment in flight, and its fate
    hidden,    \* the profiles the search and the crop filter leave out
    selected,  \* selectedProfileId
    cursor,    \* selectedStageIndex, counted from 1
    deleting,  \* the profile the delete dialog names
    removal    \* the deletion in flight, and its fate

stored      == <<library, assigned>>
queriesVars == <<cached, current>>
panel       == <<choice, touched, apply>>
listing     == <<hidden, selected, cursor, deleting, removal>>
profileVars == <<stored, queriesVars, page, panel, listing>>

Blank == [profile |-> None, stage |-> None]

-----------------------------------------------------------------------------
(* The greenhouse page.                                                    *)

(* The first effect: the current assignment, else the first profile.       *)
Seed(c, cur, lib) ==
    IF cur # None THEN cur
    ELSE IF lib # <<>> /\ c.profile = None THEN [c EXCEPT !.profile = lib[1].id] ELSE c

(* The second: a stage the chosen profile does not have is replaced.       *)
KeepStage(c, lib) ==
    LET stages == StagesOf(lib, c.profile)
    IN IF stages # <<>> /\ c.stage \notin Names(stages) THEN [c EXCEPT !.stage = stages[1]] ELSE c

(* Variant: only the first effect.                                         *)
SettledSeedOnly(c, cur, lib) == Seed(c, cur, lib)

(* Both effects see the selection of the render that shows the new data,   *)
(* and the second one's stage wins; the render after it runs it again.     *)
Settled(c, cur, lib) ==
    LET kept   == KeepStage(c, lib).stage
        seeded == Seed(c, cur, lib)
    IN KeepStage(IF kept # c.stage THEN [seeded EXCEPT !.stage = kept] ELSE seeded, lib)

(* Variant: a selection once made is never seeded again.                   *)
ReseedFirstOnly(cur, lib) ==
    /\ choice' = IF choice = Blank THEN Settled(choice, cur, lib) ELSE KeepStage(choice, lib)
    /\ touched' = (KeepStage(choice, lib) # choice)

(* New data on the greenhouse page; a stage that has gone moves them.      *)
Reseed(cur, lib) ==
    choice' = Settled(choice, cur, lib) /\ touched' = (KeepStage(choice, lib) # choice)

ChooseProfile ==
    /\ page = "greenhouse"
    /\ \E p \in Ids(cached) : choice' = KeepStage([choice EXCEPT !.profile = p], cached)
    /\ touched' = TRUE
    /\ UNCHANGED <<stored, queriesVars, page, apply, listing>>

ChooseStage ==
    /\ page = "greenhouse"
    /\ \E s \in Names(StagesOf(cached, choice.profile)) : choice' = [choice EXCEPT !.stage = s]
    /\ touched' = TRUE
    /\ UNCHANGED <<stored, queriesVars, page, apply, listing>>

Apply ==
    /\ page = "greenhouse" /\ cached # <<>> /\ apply = None
    /\ choice # current /\ choice.profile # None /\ choice.stage # None
    /\ apply' = [pair |-> choice, phase |-> "sent"]
    /\ UNCHANGED <<stored, queriesVars, page, choice, touched, listing>>

(* The platform assigns a stage its library has.                           *)
Assign ==
    /\ apply # None /\ apply.phase = "sent"
    /\ \/ InLibrary(library, apply.pair) /\ assigned' = apply.pair
       \/ UNCHANGED assigned
    /\ apply' = [apply EXCEPT !.phase = "answered"]
    /\ UNCHANGED <<library, queriesVars, page, choice, touched, listing>>

(* A toast; the reads an accepted assignment invalidates are answered as   *)
(* any other.                                                              *)
Assigned ==
    /\ apply # None /\ apply.phase = "answered" /\ apply' = None
    /\ UNCHANGED <<stored, queriesVars, page, choice, touched, listing>>

-----------------------------------------------------------------------------
(* The library page.                                                       *)

Visible(lib, hid) == Only(lib, Ids(lib) \ hid)

(* Keep a valid selection: else the first visible profile's first stage.   *)
Anchor(lib, hid) ==
    LET visible == Visible(lib, hid)
    IN IF visible = <<>> \/ selected \in Ids(visible) THEN UNCHANGED <<selected, cursor>>
       ELSE selected' = visible[1].id /\ cursor' = 1

StageCount == Len(StagesOf(Visible(cached, hidden), selected))

(* Variant: the cursor is taken as it is.                                  *)
StageIndexUnclamped == cursor

(* stageIndex: an edit may have taken stages away.                         *)
StageIndex == IF cursor <= StageCount THEN cursor ELSE IF StageCount > 0 THEN StageCount ELSE 1

Filter ==
    /\ page = "library"
    /\ hidden' \in SUBSET Ids(cached) /\ Anchor(cached, hidden')
    /\ UNCHANGED <<stored, queriesVars, page, panel, deleting, removal>>

SelectProfile ==
    /\ page = "library"
    /\ \E p \in Ids(Visible(cached, hidden)) : selected' = p
    /\ cursor' = 1
    /\ UNCHANGED <<stored, queriesVars, page, panel, hidden, deleting, removal>>

(* A stage of the list, or the stepper's next and previous.                *)
SelectStage ==
    /\ page = "library" /\ cursor' \in 1..StageCount
    /\ UNCHANGED <<stored, queriesVars, page, panel, hidden, selected, deleting, removal>>

OpenDelete ==
    /\ page = "library" /\ deleting = None /\ selected \in Ids(Visible(cached, hidden))
    /\ deleting' = selected
    /\ UNCHANGED <<stored, queriesVars, page, panel, hidden, selected, cursor, removal>>

(* Esc, the backdrop and the X, also while deleting.                       *)
CloseDelete ==
    /\ deleting # None /\ deleting' = None
    /\ UNCHANGED <<stored, queriesVars, page, panel, hidden, selected, cursor, removal>>

ConfirmDelete ==
    /\ deleting # None /\ removal = None
    /\ removal' = [id |-> deleting, phase |-> "sent"]
    /\ UNCHANGED <<stored, queriesVars, page, panel, hidden, selected, cursor, deleting>>

(* A profile that is in use, or gone, is not deleted.                      *)
DeleteProfile ==
    /\ removal # None /\ removal.phase = "sent"
    /\ IF removal.id \notin Ids(library) \/ (assigned # None /\ assigned.profile = removal.id)
       THEN UNCHANGED library
       ELSE library' = Without(library, removal.id)
    /\ removal' = [removal EXCEPT !.phase = "answered"]
    /\ UNCHANGED <<assigned, queriesVars, page, panel, hidden, selected, cursor, deleting>>

(* The dialog closes, whichever profile it names by now.                   *)
Deleted ==
    /\ removal # None /\ removal.phase = "answered"
    /\ removal' = None /\ deleting' = None
    /\ UNCHANGED <<stored, queriesVars, page, panel, hidden, selected, cursor>>

-----------------------------------------------------------------------------
(* Another operator creates, edits or deletes profiles: one in use stays,  *)
(* though an edit may take its assigned stage away.                        *)
LibraryChanges ==
    /\ library' \in Libraries
    /\ assigned # None => assigned.profile \in Ids(library')
    /\ UNCHANGED <<assigned, queriesVars, page, panel, listing>>

AssignedElsewhere ==
    /\ \E c \in Pairs(library) : InLibrary(library, c) /\ assigned' = c
    /\ UNCHANGED <<library, queriesVars, page, panel, listing>>

ShowLibrary(lib) ==
    \/ page = "library" /\ Anchor(lib, hidden) /\ UNCHANGED <<panel, hidden, deleting, removal>>
    \/ page = "greenhouse" /\ Reseed(current, lib) /\ UNCHANGED <<apply, listing>>

(* A read is answered, on mounting, focus or invalidation; data that did   *)
(* not change renders nothing.                                             *)
LibraryAnswered ==
    /\ cached # library /\ cached' = library /\ ShowLibrary(library)
    /\ UNCHANGED <<stored, current, page>>

AssignmentAnswered ==
    /\ page = "greenhouse" /\ assigned # None /\ current # assigned /\ current' = assigned
    /\ Reseed(assigned, cached)
    /\ UNCHANGED <<stored, cached, page, apply, listing>>

(* The other page is mounted with what is cached.  Requests in flight go   *)
(* on without anyone to tell, as other operators' do.                      *)
Navigate ==
    /\ page' = IF page = "library" THEN "greenhouse" ELSE "library"
    /\ choice' = IF page' = "greenhouse" THEN Settled(Blank, current, cached) ELSE Blank
    /\ touched' = FALSE /\ apply' = None /\ deleting' = None /\ removal' = None /\ hidden' = {}
    /\ selected' = IF page' = "library" /\ cached # <<>> THEN cached[1].id ELSE None
    /\ cursor' = 1
    /\ UNCHANGED <<stored, queriesVars>>

ProfilesInit ==
    /\ library \in Libraries /\ assigned = None /\ cached = <<>> /\ current = None
    /\ page = "library"
    /\ choice = Blank /\ touched = FALSE /\ apply = None
    /\ hidden = {} /\ selected = None /\ cursor = 1 /\ deleting = None /\ removal = None

ProfilesNext ==
    \/ ChooseProfile \/ ChooseStage \/ Apply \/ Assign \/ Assigned
    \/ Filter \/ SelectProfile \/ SelectStage
    \/ OpenDelete \/ CloseDelete \/ ConfirmDelete \/ DeleteProfile \/ Deleted
    \/ LibraryChanges \/ AssignedElsewhere \/ LibraryAnswered \/ AssignmentAnswered \/ Navigate

ProfilesSpec == ProfilesInit /\ [][ProfilesNext]_profileVars

-----------------------------------------------------------------------------
AllIds    == UNION {Ids(lib) : lib \in Libraries}
AllStages == UNION {Names(e.stages) : e \in UNION {Entries(lib) : lib \in Libraries}}
AllPairs  == [profile : AllIds, stage : AllStages]
Phases    == {"sent", "answered"}

ProfilesTypeOK ==
    /\ library \in Libraries /\ cached \in Libraries
    /\ assigned \in AllPairs \cup {None} /\ current \in AllPairs \cup {None}
    /\ page \in {"library", "greenhouse"} /\ touched \in BOOLEAN
    /\ apply \in [pair : AllPairs, phase : Phases] \cup {None}
    /\ hidden \subseteq AllIds /\ selected \in AllIds \cup {None} /\ cursor \in Nat \ {0}
    /\ deleting \in AllIds \cup {None} /\ removal \in [id : AllIds, phase : Phases] \cup {None}

(* Apply sends a stage of the chosen profile: whatever was cached, chosen  *)
(* and taken out of the library in between, the stage selector is never    *)
(* left on a stage of another profile.                                     *)
StageOfProfile ==
    page = "greenhouse" /\ choice.profile \in Ids(cached) => InLibrary(cached, choice)

(* As long as the operator has chosen nothing, and the selectors have not  *)
(* stood on a stage that a newer library lacks, they show the assignment   *)
(* that was read last, if the library read last has it.                    *)
UntouchedShowsAssignment ==
    page = "greenhouse" /\ ~touched /\ current # None /\ InLibrary(cached, current)
        => choice = current

(* The detail panes show a stage of a profile in the filtered list, also   *)
(* right after the list was filtered, or the profile was deleted or edited *)
(* to have fewer stages.                                                   *)
ShownStageExists ==
    page = "library" /\ Visible(cached, hidden) # <<>> =>
        /\ selected \in Ids(Visible(cached, hidden))
        /\ StageIndex \in 1..StageCount
=============================================================================
