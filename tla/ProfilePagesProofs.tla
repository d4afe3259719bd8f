------------------------- MODULE ProfilePagesProofs -------------------------
(***************************************************************************)
(* Proofs about the dashboard's profile pages, for any libraries: the      *)
(* assignment panel's selectors and the library page's selection           *)
(* (Profiles), what the profile editor sends and which answer may close it *)
(* (ProfileEditor).  What a recursive definition or a sequence of any      *)
(* length has is proved by a least counterexample.                         *)
(***************************************************************************)
EXTENDS Profiles, ProfileEditor, SequenceTheorems, WellFoundedInduction, TLAPS

(* A set of numbers has a least one: what the induction principle of the   *)
(* library says without an operator for a parameter.                       *)
LEMMA LeastNumber ==
    ASSUME NEW T \in SUBSET Nat, T # {}
    PROVE  \E m \in T : \A k \in T : m <= k
<1> DEFINE R == {p \in Nat \X Nat : p[1] < p[2]}
<1>1. IsWellFoundedOn(R, Nat)
      BY NatLessThanWellFounded DEF OpToRel
<1> HIDE DEF R
<1>2. PICK m \in T : \A k \in T : ~(<<k, m>> \in R)
      BY <1>1, WFMin
<1>3. \A k \in T : ~(k < m)
      BY <1>2 DEF R
<1> QED BY <1>3

(* The recursion of Only, over the first n entries of a library.           *)
IsKept(g, lib, ids, n) ==
    g = [k \in 0..n |-> IF k = 0 THEN <<>>
                        ELSE IF lib[k].id \in ids THEN Append(g[k-1], lib[k]) ELSE g[k-1]]

(* Some function satisfies the recursion, however many entries.            *)
LEMMA KeptExists == ASSUME NEW lib, NEW ids PROVE \A n \in Nat : \E g : IsKept(g, lib, ids, n)
<1> DEFINE T == {n \in Nat : ~\E g : IsKept(g, lib, ids, n)}
           After(prev, k) == IF lib[k].id \in ids THEN Append(prev, lib[k]) ELSE prev
<1> SUFFICES ASSUME T # {} PROVE FALSE
    OBVIOUS
<1>1. PICK m \in T : \A k \in T : m <= k
      BY LeastNumber
<1>2. CASE m = 0
  <2> DEFINE g == [k \in 0..0 |-> <<>>]
  <2>1. IsKept(g, lib, ids, 0)
        BY DEF IsKept
  <2> QED BY <1>1, <1>2, <2>1
<1>3. CASE m # 0
  <2>1. m - 1 \in Nat /\ m \in Nat /\ m - 1 \notin T
        BY <1>1, <1>3
  <2>2. PICK g : IsKept(g, lib, ids, m - 1)
        BY <2>1
  <2> DEFINE h == [k \in 0..m |-> IF k = m THEN After(g[m-1], m) ELSE g[k]]
  <2> HIDE DEF T, After
  <2>3. \A k \in 0..m-1 : g[k] = IF k = 0 THEN <<>> ELSE After(g[k-1], k)
        BY <2>1, <2>2 DEF IsKept, After
  <2>4. \A k \in 0..m : h[k] = IF k = 0 THEN <<>> ELSE After(h[k-1], k)
        BY <1>3, <2>1, <2>3
  <2>5. h = [k \in 0..m |-> h[k]]
        OBVIOUS
  <2> HIDE DEF h
  <2>6. h = [k \in 0..m |-> IF k = 0 THEN <<>> ELSE After(h[k-1], k)]
        BY <2>4, <2>5
  <2>7. IsKept(h, lib, ids, m)
        BY <2>6 DEF IsKept, After
  <2> QED BY <1>1, <2>7 DEF T
<1> QED BY <1>2, <1>3

(* Only is the last value of that function.                                *)
LEMMA OnlyIsKept ==
    ASSUME NEW lib, Len(lib) \in Nat, NEW ids
    PROVE  \E g : IsKept(g, lib, ids, Len(lib)) /\ Only(lib, ids) = g[Len(lib)]
<1> DEFINE g == CHOOSE g : g = [k \in 0..Len(lib) |-> IF k = 0 THEN <<>>
                        ELSE IF lib[k].id \in ids THEN Append(g[k-1], lib[k]) ELSE g[k-1]]
<1>1. \E x : x = [k \in 0..Len(lib) |-> IF k = 0 THEN <<>>
                        ELSE IF lib[k].id \in ids THEN Append(x[k-1], lib[k]) ELSE x[k-1]]
  <2>1. PICK x : IsKept(x, lib, ids, Len(lib))
        BY KeptExists
  <2> QED BY <2>1 DEF IsKept
<1>2. g = [k \in 0..Len(lib) |-> IF k = 0 THEN <<>>
                        ELSE IF lib[k].id \in ids THEN Append(g[k-1], lib[k]) ELSE g[k-1]]
      BY <1>1
<1>3. Only(lib, ids) = g[Len(lib)]
      BY DEF Only
<1> HIDE DEF g
<1> QED BY <1>2, <1>3 DEF IsKept

FirstIds(lib, n) == {lib[i].id : i \in 1..n}

(* Its values: entries of the library, with the ids asked for.             *)
LEMMA KeptIs ==
    ASSUME NEW lib, lib \in Seq(Entries(lib)), NEW ids, NEW g, IsKept(g, lib, ids, Len(lib))
    PROVE  \A n \in 0..Len(lib) :
              g[n] \in Seq(Entries(lib)) /\ Ids(g[n]) = FirstIds(lib, n) \cap ids
<1> DEFINE Good(n) == g[n] \in Seq(Entries(lib)) /\ Ids(g[n]) = FirstIds(lib, n) \cap ids
           T == {n \in 0..Len(lib) : ~Good(n)}
<1> SUFFICES ASSUME T # {} PROVE FALSE
    OBVIOUS
<1>0. Len(lib) \in Nat
      OBVIOUS
<1>1. PICK m \in T : \A k \in T : m <= k
  <2> HIDE DEF Good
  <2>1. T \in SUBSET Nat
        BY <1>0
  <2> HIDE DEF T
  <2> QED BY <2>1, LeastNumber
<1>2. CASE m = 0
  <2>1. g[0] = <<>>
        BY DEF IsKept
  <2>2. Good(0)
        BY <2>1 DEF Ids, Entries, FirstIds
  <2> QED BY <1>1, <1>2, <2>2
<1>3. CASE m # 0
  <2>1. m - 1 \in 0..Len(lib) /\ m \in 1..Len(lib) /\ Good(m - 1)
    <3> HIDE DEF Good
    <3>1. m \in 1..Len(lib) /\ m - 1 \in 0..Len(lib) /\ m - 1 \notin T
          BY <1>0, <1>1, <1>3
    <3> QED BY <3>1
  <2>2. g[m] = IF lib[m].id \in ids THEN Append(g[m-1], lib[m]) ELSE g[m-1]
        BY <1>0, <1>3, <2>1 DEF IsKept
  <2>3. lib[m] \in Entries(lib)
        BY <2>1 DEF Entries
  <2>4. FirstIds(lib, m) = FirstIds(lib, m-1) \cup {lib[m].id}
        BY <2>1 DEF FirstIds
  <2>5. CASE lib[m].id \in ids
    <3> DEFINE a == Append(g[m-1], lib[m])
    <3>1. /\ a \in Seq(Entries(lib)) /\ Len(a) = Len(g[m-1]) + 1 /\ a[Len(a)] = lib[m]
          /\ \A i \in 1..Len(g[m-1]) : a[i] = g[m-1][i]
          BY <2>1, <2>3, AppendProperties
    <3>2. Len(g[m-1]) \in Nat
          BY <2>1
    <3> HIDE DEF a
    <3>3. Entries(a) = Entries(g[m-1]) \cup {lib[m]}
      <4>1. ASSUME NEW x \in Entries(a) PROVE x \in Entries(g[m-1]) \cup {lib[m]}
        <5>1. PICK i \in 1..Len(a) : x = a[i]
              BY <4>1 DEF Entries
        <5>2. i = Len(a) \/ i \in 1..Len(g[m-1])
              BY <3>1, <3>2
        <5> QED BY <3>1, <5>1, <5>2 DEF Entries
      <4>2. ASSUME NEW x \in Entries(g[m-1]) PROVE x \in Entries(a)
        <5>1. PICK i \in 1..Len(g[m-1]) : x = g[m-1][i]
              BY <4>2 DEF Entries
        <5>2. i \in 1..Len(a) /\ a[i] = x
              BY <3>1, <3>2, <5>1
        <5> QED BY <5>2 DEF Entries
      <4>3. lib[m] \in Entries(a)
        <5>1. Len(a) \in 1..Len(a)
              BY <3>1, <3>2
        <5> QED BY <3>1, <5>1 DEF Entries
      <4> QED BY <4>1, <4>2, <4>3
    <3>4. Ids(a) = Ids(g[m-1]) \cup {lib[m].id}
          BY <3>3 DEF Ids
    <3>5. Good(m)
          BY <2>1, <2>2, <2>4, <2>5, <3>1, <3>4 DEF a
    <3> QED BY <1>1, <3>5
  <2>6. CASE lib[m].id \notin ids
    <3>1. Good(m)
          BY <2>1, <2>2, <2>4, <2>6
    <3> QED BY <1>1, <3>1
  <2> QED BY <2>5, <2>6
<1> QED BY <1>2, <1>3

(* The filtered list: entries of the library, those with the ids asked for.*)
LEMMA OnlyIs ==
    ASSUME NEW lib, lib \in Seq(Entries(lib)), NEW ids
    PROVE  /\ Only(lib, ids) \in Seq(Entries(lib))
           /\ Ids(Only(lib, ids)) = Ids(lib) \cap ids
<1>1. Len(lib) \in Nat
      OBVIOUS
<1>2. PICK g : IsKept(g, lib, ids, Len(lib)) /\ Only(lib, ids) = g[Len(lib)]
      BY <1>1, OnlyIsKept
<1>3. Ids(lib) = FirstIds(lib, Len(lib))
      BY DEF Ids, Entries, FirstIds
<1>4. /\ g[Len(lib)] \in Seq(Entries(lib))
      /\ Ids(g[Len(lib)]) = FirstIds(lib, Len(lib)) \cap ids
  <2>1. Len(lib) \in 0..Len(lib)
        BY <1>1
  <2>2. \A n \in 0..Len(lib) :
           g[n] \in Seq(Entries(lib)) /\ Ids(g[n]) = FirstIds(lib, n) \cap ids
        BY <1>2, KeptIs
  <2> QED BY <2>1, <2>2
<1> QED BY <1>2, <1>3, <1>4

-----------------------------------------------------------------------------
(* The assignment panel.                                                   *)

IsPair(c) == c = [profile |-> c.profile, stage |-> c.stage]

(* Selections and assignments are pairs, and the libraries are libraries.  *)
PairsOK ==
    /\ library \in Libraries /\ cached \in Libraries
    /\ IsPair(choice)
    /\ current # None => IsPair(current)
    /\ assigned # None => IsPair(assigned)
    /\ apply # None => IsPair(apply.pair)

PanelInv == PairsOK /\ StageOfProfile /\ UntouchedShowsAssignment

-----------------------------------------------------------------------------
(* The stages of a profile are those of an entry of the library.           *)
LEMMA StagesAre ==
    ASSUME NEW lib, NEW p \in Ids(lib)
    PROVE  StagesOf(lib, p) \in {e.stages : e \in Entries(lib)}
<1>1. \E e \in Entries(lib) : e.id = p
      BY DEF Ids
<1> QED BY <1>1 DEF StagesOf

(* A profile of a library has a first stage.                               *)
LEMMA HasStages ==
    ASSUME NEW lib \in Libraries, NEW p \in Ids(lib)
    PROVE  LET st == StagesOf(lib, p)
           IN Len(st) \in Nat \ {0} /\ st # <<>> /\ st[1] \in Names(st)
<1> DEFINE st == StagesOf(lib, p)
<1>1. st \in {e.stages : e \in Entries(lib)}
      BY StagesAre
<1>2. Len(st) \in Nat \ {0}
      BY <1>1, ProfilesAssumption
<1> HIDE DEF st
<1>3. st # <<>> /\ st[1] \in Names(st)
      BY <1>2 DEF Names
<1> QED BY <1>2, <1>3 DEF st

(* A profile that is not in the library has none.                          *)
LEMMA NoStages ==
    ASSUME NEW lib, NEW p, p \notin Ids(lib)
    PROVE  StagesOf(lib, p) = <<>>
BY DEF StagesOf

LEMMA Kept ==
    ASSUME NEW lib \in Libraries, NEW c, IsPair(c)
    PROVE  LET k == KeepStage(c, lib)
           IN  /\ IsPair(k) /\ k.profile = c.profile
               /\ k.profile \in Ids(lib) => InLibrary(lib, k)
               /\ c.profile \notin Ids(lib) \/ InLibrary(lib, c) => k = c
<1> DEFINE st == StagesOf(lib, c.profile)
           k  == KeepStage(c, lib)
<1>1. k = IF st # <<>> /\ c.stage \notin Names(st) THEN [c EXCEPT !.stage = st[1]] ELSE c
      BY DEF KeepStage
<1>2. c.profile \in Ids(lib) => st # <<>> /\ st[1] \in Names(st)
      BY HasStages
<1>3. c.profile \notin Ids(lib) => st = <<>>
      BY NoStages
<1> HIDE DEF st, k
<1>4. [c EXCEPT !.stage = st[1]] = [profile |-> c.profile, stage |-> st[1]]
      BY DEF IsPair
<1>5. CASE st # <<>> /\ c.stage \notin Names(st)
  <2>1. k = [profile |-> c.profile, stage |-> st[1]]
        BY <1>1, <1>4, <1>5
  <2>2. c.profile \in Ids(lib) /\ ~InLibrary(lib, c)
        BY <1>3, <1>5 DEF InLibrary, st
  <2>3. k.profile = c.profile /\ k.stage = st[1] /\ IsPair(k)
        BY <2>1 DEF IsPair
  <2>4. InLibrary(lib, k)
        BY <1>2, <2>2, <2>3 DEF InLibrary, st
  <2> QED BY <2>2, <2>3, <2>4 DEF k
<1>6. CASE ~(st # <<>> /\ c.stage \notin Names(st))
  <2>1. k = c
        BY <1>1, <1>6
  <2>2. c.profile \in Ids(lib) => InLibrary(lib, c)
        BY <1>2, <1>6 DEF InLibrary, st
  <2> QED BY <2>1, <2>2 DEF k
<1> QED BY <1>5, <1>6

(* What the effects leave is a stage of the chosen profile, and it is the  *)
(* assignment if there is one that the library has and the selection was   *)
(* not moved off a stage the library lacks.                                *)
LEMMA SettledWell ==
    ASSUME NEW lib \in Libraries, NEW c, IsPair(c), NEW cur, cur # None => IsPair(cur)
    PROVE  LET r == Settled(c, cur, lib)
           IN  /\ IsPair(r)
               /\ r.profile \in Ids(lib) => InLibrary(lib, r)
               /\ cur # None /\ InLibrary(lib, cur) /\ KeepStage(c, lib) = c => r = cur
<1> DEFINE kept   == KeepStage(c, lib).stage
           seeded == Seed(c, cur, lib)
           mixed  == IF kept # c.stage THEN [seeded EXCEPT !.stage = kept] ELSE seeded
<1>1. IsPair(seeded)
  <2>1. IsPair([c EXCEPT !.profile = lib[1].id])
        BY DEF IsPair
  <2> QED BY <2>1 DEF Seed
<1>2. IsPair(mixed)
  <2> HIDE DEF seeded, kept
  <2>1. IsPair([seeded EXCEPT !.stage = kept])
        BY <1>1 DEF IsPair
  <2> QED BY <1>1, <2>1
<1>3. Settled(c, cur, lib) = KeepStage(mixed, lib)
      BY DEF Settled
<1>4. KeepStage(c, lib) = c /\ cur # None => mixed = cur
      BY DEF Seed
<1> HIDE DEF mixed
<1>5. IsPair(KeepStage(mixed, lib))
      /\ (KeepStage(mixed, lib).profile \in Ids(lib) => InLibrary(lib, KeepStage(mixed, lib)))
      /\ (InLibrary(lib, mixed) => KeepStage(mixed, lib) = mixed)
      BY <1>2, Kept
<1> QED BY <1>3, <1>4, <1>5

-----------------------------------------------------------------------------
(* A read answered on the greenhouse page.                                 *)
LEMMA ReseedKeeps ==
    ASSUME PanelInv, page = "greenhouse", NEW lib \in Libraries,
           NEW cur, cur # None => IsPair(cur),
           Reseed(cur, lib)
    PROVE  /\ IsPair(choice') /\ (choice'.profile \in Ids(lib) => InLibrary(lib, choice'))
           /\ ~touched' /\ cur # None /\ InLibrary(lib, cur) => choice' = cur
<1>1. choice' = Settled(choice, cur, lib) /\ (~touched' => KeepStage(choice, lib) = choice)
      BY DEF Reseed
<1> QED BY <1>1, SettledWell DEF PanelInv, PairsOK

LEMMA PanelStart == ProfilesInit => PanelInv
BY ProfilesAssumption
DEF ProfilesInit, PanelInv, PairsOK, IsPair, StageOfProfile, UntouchedShowsAssignment, Blank

LEMMA PanelStep == PanelInv /\ [ProfilesNext]_profileVars => PanelInv'
<1> SUFFICES ASSUME PanelInv, [ProfilesNext]_profileVars PROVE PanelInv'
    OBVIOUS
<1> USE DEF PanelInv
<1>1. CASE ChooseProfile
  <2>1. PICK p \in Ids(cached) : choice' = KeepStage([choice EXCEPT !.profile = p], cached)
        BY <1>1 DEF ChooseProfile
  <2>2. IsPair([choice EXCEPT !.profile = p])
        BY DEF PairsOK, IsPair
  <2>3. IsPair(choice') /\ (choice'.profile \in Ids(cached) => InLibrary(cached, choice'))
        BY <2>1, <2>2, Kept DEF PairsOK
  <2>4. UNCHANGED <<library, cached, current, assigned, apply, page>> /\ touched' = TRUE
        BY <1>1 DEF ChooseProfile, stored, queriesVars
  <2> QED BY <2>3, <2>4 DEF PairsOK, StageOfProfile, UntouchedShowsAssignment
<1>2. CASE ChooseStage
  <2>1. PICK s \in Names(StagesOf(cached, choice.profile)) : choice' = [choice EXCEPT !.stage = s]
        BY <1>2 DEF ChooseStage
  <2>2. choice' = [profile |-> choice.profile, stage |-> s]
        BY <2>1 DEF PairsOK, IsPair
  <2>3. IsPair(choice') /\ (choice'.profile \in Ids(cached) => InLibrary(cached, choice'))
        BY <2>1, <2>2 DEF IsPair, InLibrary
  <2>4. UNCHANGED <<library, cached, current, assigned, apply, page>> /\ touched' = TRUE
        BY <1>2 DEF ChooseStage, stored, queriesVars
  <2> QED BY <2>3, <2>4 DEF PairsOK, StageOfProfile, UntouchedShowsAssignment
<1>3. CASE Apply \/ Assigned
  <2>1. UNCHANGED <<library, cached, current, assigned, choice, touched, page>>
        BY <1>3 DEF Apply, Assigned, stored, queriesVars
  <2>2. apply' # None => IsPair(apply'.pair)
        BY <1>3 DEF Apply, Assigned, PairsOK
  <2> QED BY <2>1, <2>2 DEF PairsOK, StageOfProfile, UntouchedShowsAssignment
<1>4. CASE Assign
  <2>1. UNCHANGED <<library, cached, current, choice, touched, page>>
        /\ assigned' \in {assigned, apply.pair} /\ apply # None
        BY <1>4 DEF Assign, queriesVars
  <2>2. IsPair(apply'.pair)
        BY <1>4 DEF Assign, PairsOK, IsPair
  <2> QED BY <2>1, <2>2 DEF PairsOK, StageOfProfile, UntouchedShowsAssignment
<1>5. CASE Filter \/ SelectProfile \/ SelectStage \/ OpenDelete \/ CloseDelete \/ ConfirmDelete \/ Deleted
  <2>1. UNCHANGED <<library, cached, current, assigned, choice, touched, apply, page>>
        BY <1>5 DEF Filter, SelectProfile, SelectStage, OpenDelete, CloseDelete, ConfirmDelete,
                    Deleted, stored, queriesVars, panel
  <2> QED BY <2>1 DEF PairsOK, StageOfProfile, UntouchedShowsAssignment
<1>6. CASE DeleteProfile
  <2>1. UNCHANGED <<cached, current, assigned, choice, touched, apply, page>>
        BY <1>6 DEF DeleteProfile, queriesVars, panel
  <2>2. library' \in Libraries
        BY <1>6, ProfilesAssumption DEF DeleteProfile, PairsOK
  <2> QED BY <2>1, <2>2 DEF PairsOK, StageOfProfile, UntouchedShowsAssignment
<1>7. CASE LibraryChanges \/ AssignedElsewhere
  <2>1. UNCHANGED <<cached, current, choice, touched, apply, page>> /\ library' \in Libraries
        BY <1>7 DEF LibraryChanges, AssignedElsewhere, queriesVars, panel, PairsOK
  <2>2. assigned' # None => IsPair(assigned')
        BY <1>7 DEF LibraryChanges, AssignedElsewhere, PairsOK, Pairs, IsPair
  <2> QED BY <2>1, <2>2 DEF PairsOK, StageOfProfile, UntouchedShowsAssignment
<1>8. CASE LibraryAnswered
  <2>1. UNCHANGED <<library, current, assigned, page>> /\ cached' = library /\ library \in Libraries
        BY <1>8 DEF LibraryAnswered, stored, PairsOK
  <2>2. CASE page = "library"
    <3>1. UNCHANGED panel
          BY <1>8, <2>2 DEF LibraryAnswered, ShowLibrary
    <3> QED BY <2>1, <2>2, <3>1 DEF panel, PairsOK, StageOfProfile, UntouchedShowsAssignment
  <2>3. CASE page # "library"
    <3>1. page = "greenhouse" /\ Reseed(current, library) /\ apply' = apply
          BY <1>8, <2>3 DEF LibraryAnswered, ShowLibrary
    <3> QED BY <2>1, <3>1, ReseedKeeps DEF PairsOK, StageOfProfile, UntouchedShowsAssignment
  <2> QED BY <2>2, <2>3
<1>9. CASE AssignmentAnswered
  <2>1. /\ UNCHANGED <<library, cached, assigned, page, apply>> /\ current' = assigned
        /\ page = "greenhouse" /\ assigned # None /\ Reseed(assigned, cached)
        BY <1>9 DEF AssignmentAnswered, stored
  <2> QED BY <2>1, ReseedKeeps DEF PairsOK, StageOfProfile, UntouchedShowsAssignment
<1>10. CASE Navigate
  <2>1. /\ UNCHANGED <<library, cached, current, assigned>> /\ apply' = None
        /\ choice' = IF page' = "greenhouse" THEN Settled(Blank, current, cached) ELSE Blank
        BY <1>10 DEF Navigate, stored, queriesVars
  <2>2. IsPair(Blank) /\ Blank.profile = None /\ None \notin Ids(cached)
        BY ProfilesAssumption DEF Blank, IsPair, PairsOK
  <2>3. KeepStage(Blank, cached) = Blank
        BY <2>2, Kept DEF PairsOK
  <2>4. CASE page' = "greenhouse"
        BY <2>1, <2>2, <2>3, <2>4, SettledWell
        DEF PairsOK, StageOfProfile, UntouchedShowsAssignment
  <2>5. CASE page' # "greenhouse"
        BY <2>1, <2>2, <2>5 DEF PairsOK, StageOfProfile, UntouchedShowsAssignment
  <2> QED BY <2>4, <2>5
<1>11. CASE UNCHANGED profileVars
      BY <1>11 DEF profileVars, stored, queriesVars, panel,
                   PairsOK, StageOfProfile, UntouchedShowsAssignment
<1> QED BY <1>1, <1>2, <1>3, <1>4, <1>5, <1>6, <1>7, <1>8, <1>9, <1>10, <1>11 DEF ProfilesNext

THEOREM PanelInvariant == ProfilesSpec => []PanelInv
BY PanelStart, PanelStep, PTL DEF ProfilesSpec

(* For any libraries, and any order of reads, choices, deletions and       *)
(* others' edits, the panel's stage selector (ProfileAssignmentPanel.tsx)  *)
(* stands on a stage of the profile beside it, so Apply cannot send a      *)
(* stage of another profile.                                               *)
THEOREM PanelStageOfProfile == ProfilesSpec => []StageOfProfile
BY PanelInvariant, PTL DEF PanelInv

(* For any libraries, selectors that nobody touched, and that stood on no  *)
(* stage that has gone, show the assignment read last: of its two effects, *)
(* the one that keeps the stage valid wins only when it had to.            *)
THEOREM PanelShowsAssignment == ProfilesSpec => []UntouchedShowsAssignment
BY PanelInvariant, PTL DEF PanelInv

-----------------------------------------------------------------------------
(* The library page: with the types, the selection is one of the filtered  *)
(* list, after each event.                                                 *)
SelectionInList ==
    page = "library" /\ Visible(cached, hidden) # <<>> =>
        selected \in Ids(Visible(cached, hidden))

Selectors == [profile : AllIds \cup {None}, stage : AllStages \cup {None}]

ListingInv == ProfilesTypeOK /\ choice \in Selectors /\ SelectionInList

LEMMA AllIdsHave ==
    ASSUME NEW lib \in Libraries PROVE Ids(lib) \subseteq AllIds
BY DEF AllIds

LEMMA AllStagesHave ==
    ASSUME NEW lib \in Libraries, NEW p PROVE Names(StagesOf(lib, p)) \subseteq AllStages
<1>1. CASE p \in Ids(lib)
  <2>1. PICK e \in Entries(lib) : StagesOf(lib, p) = e.stages
        BY <1>1, StagesAre
  <2> QED BY <2>1 DEF AllStages
<1>2. CASE p \notin Ids(lib)
  <2>1. StagesOf(lib, p) = <<>>
        BY <1>2, NoStages
  <2>2. Names(<<>>) = {}
        BY DEF Names
  <2> QED BY <2>1, <2>2
<1> QED BY <1>1, <1>2

(* The list's first profile is one of it.                                  *)
LEMMA FirstIsListed ==
    ASSUME NEW S, NEW lib \in Seq(S), lib # <<>>
    PROVE  lib[1].id \in Ids(lib)
<1>1. 1 \in 1..Len(lib)
      BY EmptySeq
<1> QED BY <1>1 DEF Ids, Entries

LEMMA VisibleIs ==
    ASSUME NEW lib \in Libraries, NEW hid
    PROVE  /\ Visible(lib, hid) \in Seq(Entries(lib))
           /\ Ids(Visible(lib, hid)) = Ids(lib) \ hid
<1>1. lib \in Seq(Entries(lib))
      BY ProfilesAssumption
<1>2. Ids(lib) \cap (Ids(lib) \ hid) = Ids(lib) \ hid
      OBVIOUS
<1> QED BY <1>1, <1>2, OnlyIs DEF Visible

(* The effects choose among what there is.                                 *)
LEMMA KeepTyped ==
    ASSUME NEW lib \in Libraries, NEW d \in Selectors
    PROVE  KeepStage(d, lib) \in Selectors
<1> DEFINE st == StagesOf(lib, d.profile)
<1>1. CASE d.profile \in Ids(lib)
  <2>1. st[1] \in AllStages
        BY <1>1, HasStages, AllStagesHave
  <2> HIDE DEF st
  <2>2. [d EXCEPT !.stage = st[1]] \in Selectors
        BY <2>1 DEF Selectors
  <2> QED BY <2>2 DEF KeepStage, st
<1>2. CASE d.profile \notin Ids(lib)
  <2>1. st = <<>>
        BY <1>2, NoStages
  <2> QED BY <2>1 DEF KeepStage
<1> QED BY <1>1, <1>2

LEMMA SettledTyped ==
    ASSUME NEW lib \in Libraries, NEW c \in Selectors, NEW cur \in AllPairs \cup {None}
    PROVE  Settled(c, cur, lib) \in Selectors
<1>2. Seed(c, cur, lib) \in Selectors
  <2>1. CASE cur # None
        BY <2>1 DEF Seed, AllPairs, Selectors
  <2>2. CASE cur = None /\ lib # <<>> /\ c.profile = None
    <3>1. lib[1].id \in AllIds
          BY <2>2, ProfilesAssumption, FirstIsListed, AllIdsHave
    <3>2. [c EXCEPT !.profile = lib[1].id] \in Selectors
          BY <3>1 DEF Selectors
    <3> QED BY <2>2, <3>2 DEF Seed
  <2> QED BY <2>1, <2>2 DEF Seed
<1> DEFINE kept   == KeepStage(c, lib).stage
           seeded == Seed(c, cur, lib)
           mixed  == IF kept # c.stage THEN [seeded EXCEPT !.stage = kept] ELSE seeded
<1>3. kept \in AllStages \cup {None}
      BY KeepTyped DEF Selectors
<1>4. mixed \in Selectors
  <2> HIDE DEF kept, seeded
  <2>1. seeded \in Selectors
        BY <1>2 DEF seeded
  <2>2. [seeded EXCEPT !.stage = kept] \in Selectors
        BY <1>3, <2>1 DEF Selectors
  <2> QED BY <2>1, <2>2
<1> HIDE DEF mixed
<1>5. KeepStage(mixed, lib) \in Selectors
      BY <1>4, KeepTyped
<1> QED BY <1>5 DEF Settled, mixed

(* After new data or a new filter, the selection is in the list.           *)
LEMMA AnchorHolds ==
    ASSUME NEW lib \in Libraries, NEW hid, Anchor(lib, hid),
           selected \in AllIds \cup {None}, cursor \in Nat \ {0}
    PROVE  /\ selected' \in AllIds \cup {None} /\ cursor' \in Nat \ {0}
           /\ Visible(lib, hid) # <<>> => selected' \in Ids(Visible(lib, hid))
<1> DEFINE visible == Visible(lib, hid)
<1>1. visible \in Seq(Entries(lib)) /\ Ids(visible) \subseteq AllIds
      BY VisibleIs, AllIdsHave
<1>2. IF visible = <<>> \/ selected \in Ids(visible) THEN UNCHANGED <<selected, cursor>>
      ELSE selected' = visible[1].id /\ cursor' = 1
      BY DEF Anchor
<1> HIDE DEF visible
<1>3. visible # <<>> => visible[1].id \in Ids(visible)
      BY <1>1, FirstIsListed
<1>4. selected' \in AllIds \cup {None} /\ (visible # <<>> => selected' \in Ids(visible))
      BY <1>1, <1>2, <1>3
<1>5. cursor' \in Nat \ {0}
      BY <1>2
<1> QED BY <1>4, <1>5 DEF visible

(* The list has entries of the library, and each has stages.               *)
LEMMA CountPositive ==
    ASSUME cached \in Libraries, selected \in Ids(Visible(cached, hidden))
    PROVE  StageCount \in Nat \ {0}
<1> DEFINE visible == Visible(cached, hidden)
<1>1. visible \in Seq(Entries(cached))
      BY VisibleIs
<1>2. StagesOf(visible, selected) \in {e.stages : e \in Entries(visible)}
      BY StagesAre
<1>3. StageCount = Len(StagesOf(visible, selected))
      BY DEF StageCount
<1> HIDE DEF visible
<1>4. Entries(visible) \subseteq Entries(cached)
      BY <1>1, ElementOfSeq DEF Entries
<1> QED BY <1>2, <1>3, <1>4, ProfilesAssumption

LEMMA CountTyped == ASSUME cached \in Libraries PROVE StageCount \in Nat
<1>1. CASE selected \notin Ids(Visible(cached, hidden))
      BY <1>1, NoStages DEF StageCount
<1> QED BY <1>1, CountPositive

LEMMA ListingStart == ProfilesInit => ListingInv
<1> SUFFICES ASSUME ProfilesInit PROVE ListingInv
    OBVIOUS
<1>0. <<>> \in Libraries
      BY ProfilesAssumption
<1>1. ProfilesTypeOK /\ choice \in Selectors
  <2>1. Blank \in Selectors
        BY DEF Selectors, Blank
  <2>2. cursor \in Nat \ {0} /\ page \in {"library", "greenhouse"}
        BY DEF ProfilesInit
  <2>3. touched \in BOOLEAN
        BY DEF ProfilesInit
  <2> QED BY <1>0, <2>1, <2>2, <2>3 DEF ProfilesInit, ProfilesTypeOK
<1>2. Visible(cached, hidden) = <<>>
  <2>1. cached = <<>> /\ cached \in Libraries
        BY ProfilesAssumption DEF ProfilesInit
  <2>2. Visible(cached, hidden) \in Seq(Entries(cached)) /\ Ids(Visible(cached, hidden)) \subseteq Ids(cached)
        BY <2>1, VisibleIs
  <2>3. Ids(cached) = {}
        BY <2>1 DEF Ids, Entries
  <2> QED BY <2>2, <2>3, FirstIsListed
<1> QED BY <1>1, <1>2 DEF ListingInv, SelectionInList

LEMMA ListingStep == ListingInv /\ [ProfilesNext]_profileVars => ListingInv'
<1> SUFFICES ASSUME ListingInv, [ProfilesNext]_profileVars PROVE ListingInv'
    OBVIOUS
<1>0. ProfilesTypeOK /\ choice \in Selectors /\ SelectionInList
      BY DEF ListingInv
<1>1. CASE ChooseProfile \/ ChooseStage
  <2>1. UNCHANGED <<stored, queriesVars, page, apply, listing>> /\ touched' = TRUE /\ page = "greenhouse"
        BY <1>1 DEF ChooseProfile, ChooseStage
  <2>2. choice' \in Selectors
    <3>1. CASE ChooseProfile
      <4>1. PICK p \in Ids(cached) : choice' = KeepStage([choice EXCEPT !.profile = p], cached)
            BY <3>1 DEF ChooseProfile
      <4>2. cached \in Libraries /\ p \in AllIds
            BY <1>0, AllIdsHave DEF ProfilesTypeOK
      <4>3. [choice EXCEPT !.profile = p] \in Selectors
            BY <1>0, <4>2 DEF Selectors
      <4> QED BY <4>1, <4>2, <4>3, KeepTyped
    <3>2. CASE ChooseStage
      <4>1. PICK s \in Names(StagesOf(cached, choice.profile)) : choice' = [choice EXCEPT !.stage = s]
            BY <3>2 DEF ChooseStage
      <4>2. s \in AllStages
            BY <1>0, AllStagesHave DEF ProfilesTypeOK
      <4> QED BY <1>0, <4>1, <4>2 DEF Selectors
    <3> QED BY <1>1, <3>1, <3>2
  <2> QED BY <1>0, <2>1, <2>2
          DEF ListingInv, ProfilesTypeOK, SelectionInList, stored, queriesVars, listing
<1>2. CASE Apply
  <2>1. choice.profile # None /\ choice.stage # None /\ apply' = [pair |-> choice, phase |-> "sent"]
        /\ UNCHANGED <<stored, queriesVars, page, choice, touched, listing>>
        BY <1>2 DEF Apply
  <2>2. choice \in AllPairs
        BY <1>0, <2>1 DEF Selectors, AllPairs
  <2>3. apply' \in [pair : AllPairs, phase : Phases]
        BY <2>1, <2>2 DEF Phases
  <2> QED BY <1>0, <2>1, <2>3
          DEF ListingInv, ProfilesTypeOK, SelectionInList, stored, queriesVars, listing
<1>3. CASE Assign
  <2>1. apply # None /\ apply' = [apply EXCEPT !.phase = "answered"] /\ assigned' \in {assigned, apply.pair}
        /\ UNCHANGED <<library, queriesVars, page, choice, touched, listing>>
        BY <1>3 DEF Assign
  <2>2. apply \in [pair : AllPairs, phase : Phases]
        BY <1>0, <2>1 DEF ProfilesTypeOK
  <2>3. apply' \in [pair : AllPairs, phase : Phases] /\ apply.pair \in AllPairs
        BY <2>1, <2>2 DEF Phases
  <2>4. assigned' \in AllPairs \cup {None}
        BY <1>0, <2>1, <2>3 DEF ProfilesTypeOK
  <2> QED BY <1>0, <2>1, <2>3, <2>4
          DEF ListingInv, ProfilesTypeOK, SelectionInList, queriesVars, listing
<1>4. CASE Assigned
      BY <1>0, <1>4 DEF Assigned, ListingInv, ProfilesTypeOK, SelectionInList, stored, queriesVars, listing
<1>5. CASE Filter
  <2>1. /\ page = "library" /\ hidden' \in SUBSET Ids(cached) /\ Anchor(cached, hidden')
        /\ UNCHANGED <<stored, queriesVars, page, panel, deleting, removal>>
        BY <1>5 DEF Filter
  <2>2. /\ selected' \in AllIds \cup {None} /\ cursor' \in Nat \ {0}
        /\ Visible(cached, hidden') # <<>> => selected' \in Ids(Visible(cached, hidden'))
        BY <1>0, <2>1, AnchorHolds DEF ProfilesTypeOK
  <2>3. hidden' \subseteq AllIds
        BY <1>0, <2>1, AllIdsHave DEF ProfilesTypeOK
  <2> QED BY <1>0, <2>1, <2>2, <2>3
          DEF ListingInv, ProfilesTypeOK, SelectionInList, stored, queriesVars, panel
<1>6. CASE SelectProfile
  <2>1. /\ selected' \in Ids(Visible(cached, hidden)) /\ cursor' = 1
        /\ UNCHANGED <<stored, queriesVars, page, panel, hidden, deleting, removal>>
        BY <1>6 DEF SelectProfile
  <2>2. selected' \in AllIds
        BY <1>0, <2>1, VisibleIs, AllIdsHave DEF ProfilesTypeOK
  <2>3. Visible(cached, hidden)' = Visible(cached, hidden)
        BY <2>1 DEF queriesVars
  <2>4. SelectionInList'
        BY <2>1, <2>3 DEF SelectionInList
  <2> QED BY <1>0, <2>1, <2>2, <2>4
          DEF ListingInv, ProfilesTypeOK, stored, queriesVars, panel
<1>7. CASE SelectStage
  <2>1. cursor' \in 1..StageCount
        /\ UNCHANGED <<stored, queriesVars, page, panel, hidden, selected, deleting, removal>>
        BY <1>7 DEF SelectStage
  <2>2. cursor' \in Nat \ {0}
    <3> HIDE DEF StageCount
    <3>1. StageCount \in Nat
          BY <1>0, CountTyped DEF ProfilesTypeOK
    <3> QED BY <2>1, <3>1
  <2> QED BY <1>0, <2>1, <2>2
          DEF ListingInv, ProfilesTypeOK, SelectionInList, stored, queriesVars, panel
<1>8. CASE OpenDelete \/ CloseDelete
  <2>1. UNCHANGED <<stored, queriesVars, page, panel, hidden, selected, cursor, removal>>
        /\ deleting' \in {selected, None}
        BY <1>8 DEF OpenDelete, CloseDelete
  <2> QED BY <1>0, <2>1
          DEF ListingInv, ProfilesTypeOK, SelectionInList, stored, queriesVars, panel
<1>9. CASE ConfirmDelete \/ Deleted
  <2>1. UNCHANGED <<stored, queriesVars, page, panel, hidden, selected, cursor>>
        /\ deleting' \in {deleting, None}
        /\ (removal' = None \/ (deleting # None /\ removal' = [id |-> deleting, phase |-> "sent"]))
        BY <1>9 DEF ConfirmDelete, Deleted
  <2>2. removal' \in [id : AllIds, phase : Phases] \cup {None}
        BY <1>0, <2>1 DEF ProfilesTypeOK, Phases
  <2> QED BY <1>0, <2>1, <2>2
          DEF ListingInv, ProfilesTypeOK, SelectionInList, stored, queriesVars, panel
<1>10. CASE DeleteProfile
  <2>1. /\ removal # None /\ removal' = [removal EXCEPT !.phase = "answered"]
        /\ UNCHANGED <<assigned, queriesVars, page, panel, hidden, selected, cursor, deleting>>
        BY <1>10 DEF DeleteProfile
  <2>2. library' \in Libraries
        BY <1>0, <1>10, ProfilesAssumption DEF DeleteProfile, ProfilesTypeOK
  <2>3. removal' \in [id : AllIds, phase : Phases]
        BY <1>0, <2>1 DEF ProfilesTypeOK, Phases
  <2> QED BY <1>0, <2>1, <2>2, <2>3
          DEF ListingInv, ProfilesTypeOK, SelectionInList, queriesVars, panel
<1>11. CASE LibraryChanges \/ AssignedElsewhere
  <2>1. UNCHANGED <<queriesVars, page, panel, listing>> /\ library' \in Libraries
        BY <1>0, <1>11 DEF LibraryChanges, AssignedElsewhere, ProfilesTypeOK
  <2>2. assigned' \in AllPairs \cup {None}
    <3>1. CASE UNCHANGED assigned
          BY <1>0, <3>1 DEF ProfilesTypeOK
    <3>2. CASE AssignedElsewhere
      <4>1. assigned' \in Pairs(library) /\ InLibrary(library, assigned')
            BY <3>2 DEF AssignedElsewhere
      <4>2. assigned'.profile \in AllIds /\ assigned'.stage \in AllStages
            BY <1>0, <4>1, AllIdsHave, AllStagesHave DEF InLibrary, ProfilesTypeOK
      <4>3. assigned' = [profile |-> assigned'.profile, stage |-> assigned'.stage]
            BY <4>1 DEF Pairs
      <4> QED BY <4>2, <4>3 DEF AllPairs
    <3> QED BY <1>11, <3>1, <3>2 DEF LibraryChanges
  <2> QED BY <1>0, <2>1, <2>2
          DEF ListingInv, ProfilesTypeOK, SelectionInList, queriesVars, panel, listing
<1>12. CASE LibraryAnswered
  <2>1. UNCHANGED <<stored, current, page>> /\ cached' = library /\ ShowLibrary(library)
        BY <1>12 DEF LibraryAnswered
  <2>2. CASE page = "library"
    <3>1. Anchor(library, hidden) /\ UNCHANGED <<panel, hidden, deleting, removal>>
          BY <2>1, <2>2 DEF ShowLibrary
    <3>2. /\ selected' \in AllIds \cup {None} /\ cursor' \in Nat \ {0}
          /\ Visible(library, hidden) # <<>> => selected' \in Ids(Visible(library, hidden))
          BY <1>0, <3>1, AnchorHolds DEF ProfilesTypeOK
    <3> QED BY <1>0, <2>1, <3>1, <3>2
            DEF ListingInv, ProfilesTypeOK, SelectionInList, stored, panel
  <2>3. CASE page # "library"
    <3>1. Reseed(current, library) /\ UNCHANGED <<apply, listing>> /\ page' = "greenhouse"
          BY <1>0, <2>1, <2>3 DEF ShowLibrary, ProfilesTypeOK
    <3>2. choice' \in Selectors /\ touched' \in BOOLEAN
          BY <1>0, <3>1, SettledTyped DEF Reseed, ProfilesTypeOK
    <3> QED BY <1>0, <2>1, <3>1, <3>2
            DEF ListingInv, ProfilesTypeOK, SelectionInList, stored, listing
  <2> QED BY <2>2, <2>3
<1>13. CASE AssignmentAnswered
  <2>1. /\ page = "greenhouse" /\ current' = assigned /\ Reseed(assigned, cached)
        /\ UNCHANGED <<stored, cached, page, apply, listing>>
        BY <1>13 DEF AssignmentAnswered
  <2>2. choice' \in Selectors /\ touched' \in BOOLEAN
        BY <1>0, <2>1, SettledTyped DEF Reseed, ProfilesTypeOK
  <2> QED BY <1>0, <2>1, <2>2
          DEF ListingInv, ProfilesTypeOK, SelectionInList, stored, listing
<1>14. CASE Navigate
  <2>1. /\ page' = IF page = "library" THEN "greenhouse" ELSE "library"
        /\ choice' = IF page' = "greenhouse" THEN Settled(Blank, current, cached) ELSE Blank
        /\ touched' = FALSE /\ apply' = None /\ deleting' = None /\ removal' = None /\ hidden' = {}
        /\ selected' = IF page' = "library" /\ cached # <<>> THEN cached[1].id ELSE None
        /\ cursor' = 1 /\ UNCHANGED <<library, assigned, cached, current>>
        BY <1>14 DEF Navigate, stored, queriesVars
  <2>2. cached \in Libraries /\ current \in AllPairs \cup {None} /\ Blank \in Selectors
        BY <1>0 DEF ProfilesTypeOK, Selectors, Blank
  <2>3. choice' \in Selectors
        BY <2>1, <2>2, SettledTyped
  <2>4. cached # <<>> => cached[1].id \in Ids(cached) /\ cached[1].id \in AllIds
        BY <2>2, ProfilesAssumption, FirstIsListed, AllIdsHave
  <2>5. SelectionInList'
    <3>1. Visible(cached, {}) \in Seq(Entries(cached)) /\ Ids(Visible(cached, {})) = Ids(cached)
          BY <2>2, VisibleIs
    <3>2. cached = <<>> => Ids(cached) = {}
          BY DEF Ids, Entries
    <3>3. Visible(cached, {}) # <<>> => cached # <<>>
          BY <3>1, <3>2, FirstIsListed
    <3> QED BY <2>1, <2>4, <3>1, <3>3 DEF SelectionInList
  <2>6. ProfilesTypeOK'
    <3>1. page' \in {"library", "greenhouse"} /\ selected' \in AllIds \cup {None}
          BY <1>0, <2>1, <2>4
    <3>2. cursor' \in Nat \ {0} /\ hidden' \subseteq AllIds
          BY <2>1
    <3> QED BY <1>0, <2>1, <3>1, <3>2 DEF ProfilesTypeOK
  <2> QED BY <2>3, <2>5, <2>6 DEF ListingInv
<1>15. CASE UNCHANGED profileVars
      BY <1>0, <1>15 DEF profileVars, stored, queriesVars, panel, listing,
                         ListingInv, ProfilesTypeOK, SelectionInList
<1> QED BY <1>1, <1>2, <1>3, <1>4, <1>5, <1>6, <1>7, <1>8, <1>9, <1>10, <1>11, <1>12, <1>13,
           <1>14, <1>15 DEF ProfilesNext

THEOREM ListingInvariant == ProfilesSpec => []ListingInv
BY ListingStart, ListingStep, PTL DEF ProfilesSpec

(* For any libraries the cached one, the assignment, what is in flight and *)
(* the selections stay what the code takes them for.                       *)
THEOREM PagesTypeCorrect == ProfilesSpec => []ProfilesTypeOK
BY ListingInvariant, PTL DEF ListingInv

(* For any libraries, filters, deletions and others' edits, the detail     *)
(* panes of the library page (ProfileManagement.tsx) show a stage that the *)
(* selected profile has: the effect keeps the selection in the filtered    *)
(* list, and the clamp keeps the stage in the profile.                     *)
THEOREM ShowsAStageThatIs == ProfilesSpec => []ShownStageExists
<1>1. ListingInv => ShownStageExists
  <2> SUFFICES ASSUME ListingInv, page = "library", Visible(cached, hidden) # <<>>
               PROVE  selected \in Ids(Visible(cached, hidden)) /\ StageIndex \in 1..StageCount
      BY DEF ShownStageExists
  <2>1. selected \in Ids(Visible(cached, hidden))
        BY DEF ListingInv, SelectionInList
  <2>2. StageCount \in Nat \ {0} /\ cursor \in Nat \ {0}
        BY <2>1, CountPositive DEF ListingInv, ProfilesTypeOK
  <2> HIDE DEF StageCount
  <2>3. StageIndex \in 1..StageCount
        BY <2>2 DEF StageIndex
  <2> QED BY <2>1, <2>3
<1> QED BY <1>1, ListingInvariant, PTL

-----------------------------------------------------------------------------
(* The editor's envelopes.                                                 *)

(* Among the first n of a sequence of numbers there are a least and a      *)
(* greatest.                                                               *)
Extremes(zones, n) ==
    \E lo, hi \in 1..n : \A j \in 1..n : zones[lo] <= zones[j] /\ zones[j] <= zones[hi]

LEMMA ExtremesExist ==
    ASSUME NEW zones \in Seq(Int)
    PROVE  \A n \in 1..Len(zones) : Extremes(zones, n)
<1> DEFINE T == {n \in 1..Len(zones) : ~Extremes(zones, n)}
<1> SUFFICES ASSUME T # {} PROVE FALSE
    OBVIOUS
<1>0. Len(zones) \in Nat /\ \A j \in 1..Len(zones) : zones[j] \in Int
      BY ElementOfSeq
<1>1. PICK m \in T : \A k \in T : m <= k
  <2>1. T \in SUBSET Nat
        BY <1>0
  <2> HIDE DEF T
  <2> QED BY <2>1, LeastNumber
<1>2. m \in 1..Len(zones) /\ ~Extremes(zones, m)
      OBVIOUS
<1>3. CASE m = 1
  <2>1. 1 \in 1..m /\ \A j \in 1..m : zones[1] <= zones[j] /\ zones[j] <= zones[1]
        BY <1>0, <1>2, <1>3
  <2>2. Extremes(zones, m)
        BY <2>1 DEF Extremes
  <2> QED BY <1>2, <2>2
<1>4. CASE m # 1
  <2>1. m - 1 \in 1..Len(zones) /\ Extremes(zones, m - 1)
    <3>1. m - 1 \in 1..Len(zones) /\ m - 1 \notin T
          BY <1>0, <1>1, <1>2, <1>4
    <3> QED BY <3>1
  <2>2. PICK lo, hi \in 1..m-1 :
            \A j \in 1..m-1 : zones[lo] <= zones[j] /\ zones[j] <= zones[hi]
        BY <2>1 DEF Extremes
  <2> DEFINE l == IF zones[lo] <= zones[m] THEN lo ELSE m
             h == IF zones[m] <= zones[hi] THEN hi ELSE m
  <2>3. l \in 1..m /\ h \in 1..m
        BY <1>0, <1>2, <2>1, <2>2
  <2>4. /\ zones[l] <= zones[lo] /\ zones[l] <= zones[m] /\ zones[l] \in Int
        /\ zones[hi] <= zones[h] /\ zones[m] <= zones[h] /\ zones[h] \in Int
    <3>1. lo \in 1..Len(zones) /\ hi \in 1..Len(zones)
          BY <1>0, <1>2, <2>1, <2>2
    <3>2. zones[lo] \in Int /\ zones[hi] \in Int /\ zones[m] \in Int
          BY <1>0, <1>2, <3>1
    <3> QED BY <3>2
  <2> HIDE DEF l, h
  <2>5. ASSUME NEW j \in 1..m PROVE zones[l] <= zones[j] /\ zones[j] <= zones[h]
    <3>1. CASE j = m
          BY <2>4, <3>1
    <3>2. CASE j # m
      <4>1. zones[lo] <= zones[j] /\ zones[j] <= zones[hi] /\ j \in 1..Len(zones)
            BY <1>0, <1>2, <2>2, <3>2
      <4>2. zones[j] \in Int /\ zones[lo] \in Int /\ zones[hi] \in Int
            BY <1>0, <1>2, <2>1, <2>2, <4>1
      <4>3. \A a, b, c \in Int : a <= b /\ b <= c => a <= c
            OBVIOUS
      <4> QED BY <2>4, <4>1, <4>2, <4>3
    <3> QED BY <3>1, <3>2
  <2>6. Extremes(zones, m)
        BY <2>3, <2>5 DEF Extremes
  <2> QED BY <1>2, <2>6
<1> QED BY <1>3, <1>4

LEMMA ZonesBetween ==
    ASSUME NEW zones \in Seq(Int), zones # <<>>
    PROVE  Min(ZoneValues(zones)) \in Int /\ Max(ZoneValues(zones)) \in Int
<1>1. Len(zones) \in 1..Len(zones) /\ \A j \in 1..Len(zones) : zones[j] \in Int
      BY EmptySeq, ElementOfSeq
<1>2. Extremes(zones, Len(zones))
      BY <1>1, ExtremesExist
<1>3. PICK lo, hi \in 1..Len(zones) :
          \A j \in 1..Len(zones) : zones[lo] <= zones[j] /\ zones[j] <= zones[hi]
      BY <1>2 DEF Extremes
<1> DEFINE vals == ZoneValues(zones)
<1>4. /\ zones[lo] \in vals /\ \A v \in vals : zones[lo] <= v
      /\ zones[hi] \in vals /\ \A v \in vals : zones[hi] >= v
  <2>1. \A v \in vals : v \in Int /\ zones[lo] <= v /\ v <= zones[hi]
        BY <1>1, <1>3 DEF ZoneValues
  <2>2. zones[lo] \in vals /\ zones[hi] \in vals
        BY DEF ZoneValues
  <2> HIDE DEF vals
  <2> QED BY <2>1, <2>2
<1>5. \A v \in vals : v \in Int
      BY <1>1 DEF ZoneValues
<1> HIDE DEF vals
<1>6. Min(vals) \in vals
      BY <1>4 DEF Min
<1>7. Max(vals) \in vals
      BY <1>4 DEF Max
<1> QED BY <1>5, <1>6, <1>7 DEF vals

LEMMA Round2Typed == \A v \in Int : Round2(v) \in Int
BY DEF Round2

LEMMA DefaultBoundTyped == ASSUME NEW t \in Int PROVE DefaultBound(t) \in Bounds
<1>1. Larger(Lo, t - Margin) \in Int /\ Smaller(Hi, t + Margin) \in Int
      BY ProfileEditorAssumption DEF Larger, Smaller
<1> QED BY <1>1, Round2Typed DEF DefaultBound, Bounds

LEMMA SeedTyped ==
    ASSUME NEW zones \in Seq(Int), NEW zbound \in Bounds \cup {NoBound}
    PROVE  /\ SeedZoneBounds(zones, zbound) \in Bounds \cup {NoBound}
           /\ (SeedZoneBounds(zones, zbound) = NoBound) = (zones = <<>>)
<1>1. CASE zones = <<>>
      BY <1>1 DEF SeedZoneBounds
<1>2. CASE zones # <<>>
  <2>1. DefaultZoneBound(zones) \in Bounds
    <3> DEFINE lo == Min(ZoneValues(zones))
               hi == Max(ZoneValues(zones))
    <3>1. lo \in Int /\ hi \in Int
          BY <1>2, ZonesBetween
    <3>2. DefaultZoneBound(zones) = [min |-> Round2(Larger(Lo, lo - Margin)),
                                     max |-> Round2(Smaller(Hi, hi + Margin))]
          BY DEF DefaultZoneBound
    <3> HIDE DEF lo, hi
    <3>3. Larger(Lo, lo - Margin) \in Int /\ Smaller(Hi, hi + Margin) \in Int
          BY <3>1, ProfileEditorAssumption DEF Larger, Smaller
    <3> QED BY <3>2, <3>3, Round2Typed DEF Bounds
  <2>2. NoBound \notin Bounds
        BY ProfileEditorAssumption
  <2>3. SeedZoneBounds(zones, zbound) = IF zbound # NoBound THEN zbound ELSE DefaultZoneBound(zones)
        BY <1>2 DEF SeedZoneBounds
  <2> QED BY <1>2, <2>1, <2>2, <2>3
<1> QED BY <1>1, <1>2

(* A stage with an envelope for its zones exactly if it has zones.         *)
Whole == {s \in Stages : (s.zbound = NoBound) = (s.zones = <<>>)}

LEMMA FullBoundsWhole == ASSUME NEW s \in WireStages PROVE FullBounds(s) \in Whole
<1> DEFINE b == IF s.bound # NoBound THEN s.bound ELSE DefaultBound(s.target)
           z == SeedZoneBounds(s.zones, s.zbound)
<1>1. b \in Bounds
      BY DefaultBoundTyped DEF WireStages
<1>2. z \in Bounds \cup {NoBound} /\ (z = NoBound) = (s.zones = <<>>)
      BY SeedTyped DEF WireStages
<1>3. FullBounds(s) = [s EXCEPT !.bound = b, !.zbound = z]
      BY DEF FullBounds, WireStages
<1> HIDE DEF b, z
<1>4. FullBounds(s) \in Stages /\ FullBounds(s).zbound = z /\ FullBounds(s).zones = s.zones
      BY <1>1, <1>2, <1>3 DEF Stages, WireStages
<1> QED BY <1>2, <1>4 DEF Whole

LEMMA DefaultStageWhole == ASSUME NEW named \in BOOLEAN PROVE DefaultStage(named) \in Whole
<1>1. [named |-> named, target |-> Default, bound |-> NoBound, zones |-> <<>>, zbound |-> NoBound]
          \in WireStages
  <2>1. Default \in Int /\ <<>> \in Seq(Int)
        BY ProfileEditorAssumption
  <2> QED BY <2>1 DEF WireStages
<1> QED BY <1>1, FullBoundsWhole DEF DefaultStage

-----------------------------------------------------------------------------
(* The editor: each of its stages is whole, the ones being saved too.      *)
EditorInv ==
    /\ EditorTypeOK /\ SentIsEnveloped
    /\ stages \in Seq(Whole)
    /\ save # NoFlight => save.sends \in Seq(Whole)

LEMMA WithEdgeTyped ==
    ASSUME NEW b \in Bounds \cup {NoBound}, NEW edge \in {"min", "max"}, NEW v \in Int
    PROVE  WithEdge(b, edge, v) \in Bounds /\ WithEdge(b, edge, v) # NoBound
<1>1. WithEdge(b, edge, v) \in Bounds
      BY DEF WithEdge, Bounds
<1> QED BY <1>1, ProfileEditorAssumption

(* A sequence without one of its elements.                                 *)
LEMMA Removed ==
    ASSUME NEW S, NEW s \in Seq(S), NEW i \in 1..Len(s)
    PROVE  LET r == SubSeq(s, 1, i - 1) \o SubSeq(s, i + 1, Len(s))
           IN r \in Seq(S) /\ Len(r) = Len(s) - 1
<1> DEFINE a == SubSeq(s, 1, i - 1)
           b == SubSeq(s, i + 1, Len(s))
<1>1. Len(s) \in Nat /\ i \in Int /\ i - 1 \in Int /\ i + 1 \in Int
      /\ \A k \in 1..Len(s) : s[k] \in S
      BY ElementOfSeq
<1>2. a \in Seq(S) /\ Len(a) = i - 1
  <2>1. \A k \in 1..i-1 : s[k] \in S
        BY <1>1
  <2>2. a \in Seq(S) /\ Len(a) = IF 1 <= i - 1 THEN i - 1 - 1 + 1 ELSE 0
        BY <1>1, <2>1, SubSeqProperties
  <2> HIDE DEF a
  <2> QED BY <1>1, <2>2
<1>3. b \in Seq(S) /\ Len(b) = Len(s) - i
  <2>1. \A k \in i+1..Len(s) : s[k] \in S
        BY <1>1
  <2>2. b \in Seq(S) /\ Len(b) = IF i + 1 <= Len(s) THEN Len(s) - (i + 1) + 1 ELSE 0
        BY <1>1, <2>1, SubSeqProperties
  <2> HIDE DEF b
  <2> QED BY <1>1, <2>2
<1> HIDE DEF a, b
<1>4. a \o b \in Seq(S) /\ Len(a \o b) = Len(a) + Len(b)
      BY <1>2, <1>3, ConcatProperties
<1>5. Len(a) + Len(b) = Len(s) - 1
      BY <1>1, <1>2, <1>3
<1> QED BY <1>4, <1>5 DEF a, b

(* A stage edited in place is whole, and so are all.                       *)
LEMMA EditKeeps ==
    ASSUME stages \in Seq(Whole), NEW i \in 1..Len(stages), NEW s \in Whole, Edit(i, s)
    PROVE  stages' \in Seq(Whole) /\ stages' # <<>>
<1>1. stages' \in Seq(Whole) /\ Len(stages') = Len(stages)
      BY ExceptSeq DEF Edit
<1>2. Len(stages) # 0
      BY LenProperties
<1> QED BY <1>1, <1>2, EmptySeq

LEMMA ZonesKeep ==
    ASSUME stages \in Seq(Whole), NEW i \in 1..Len(stages), NEW zones \in Seq(Int),
           SetZones(i, zones)
    PROVE  stages' \in Seq(Whole) /\ stages' # <<>>
<1> DEFINE s == stages[i]
           z == SeedZoneBounds(zones, s.zbound)
           n == [s EXCEPT !.zones = zones, !.zbound = z]
<1>1. s \in Whole
      BY ElementOfSeq
<1>2. z \in Bounds \cup {NoBound} /\ (z = NoBound) = (zones = <<>>)
      BY <1>1, SeedTyped DEF Whole, Stages
<1>3. Edit(i, n)
      BY DEF SetZones
<1> HIDE DEF s, z
<1>4. n \in Whole
  <2>1. n \in Stages /\ n.zones = zones /\ n.zbound = z
        BY <1>1, <1>2 DEF Whole, Stages
  <2> HIDE DEF n
  <2> QED BY <1>2, <2>1 DEF Whole
<1> HIDE DEF n
<1> QED BY <1>3, <1>4, EditKeeps

LEMMA ZoneEditKeeps ==
    ASSUME stages \in Seq(Whole), NEW i \in 1..Len(stages), ZoneEdit(i)
    PROVE  stages' \in Seq(Whole) /\ stages' # <<>>
<1> DEFINE zones == stages[i].zones
<1>1. zones \in Seq(Int)
      BY ElementOfSeq DEF Whole, Stages
<1>2. \/ SetZones(i, Append(zones, Default))
      \/ \E j \in 1..Len(zones), v \in Typed : SetZones(i, [zones EXCEPT ![j] = v])
      \/ \E j \in 1..Len(zones) :
            SetZones(i, SubSeq(zones, 1, j - 1) \o SubSeq(zones, j + 1, Len(zones)))
      BY DEF ZoneEdit
<1> HIDE DEF zones
<1>3. Default \in Int /\ Typed \subseteq Int
      BY ProfileEditorAssumption
<1>4. Append(zones, Default) \in Seq(Int)
      BY <1>1, <1>3, AppendProperties
<1>5. \A j \in 1..Len(zones), v \in Typed : [zones EXCEPT ![j] = v] \in Seq(Int)
      BY <1>1, <1>3, ExceptSeq
<1>6. \A j \in 1..Len(zones) : SubSeq(zones, 1, j - 1) \o SubSeq(zones, j + 1, Len(zones)) \in Seq(Int)
      BY <1>1, Removed
<1> QED BY <1>2, <1>4, <1>5, <1>6, ZonesKeep

LEMMA EditFormKeeps ==
    ASSUME stages \in Seq(Whole), EditForm
    PROVE  stages' \in Seq(Whole) /\ stages' # <<>>
<1>1. CASE AddStage
  <2>1. DefaultStage(FALSE) \in Whole /\ stages' = Append(stages, DefaultStage(FALSE))
        BY <1>1, DefaultStageWhole DEF AddStage
  <2>2. stages' \in Seq(Whole) /\ Len(stages') = Len(stages) + 1 /\ Len(stages) \in Nat
        BY <2>1, AppendProperties, LenProperties
  <2> QED BY <2>2, EmptySeq
<1>2. ASSUME NEW i \in 1..Len(stages), SetName(i) \/ ZoneEdit(i) \/ RemoveStage(i)
      PROVE  stages' \in Seq(Whole) /\ stages' # <<>>
  <2>1. CASE SetName(i)
    <3>1. stages[i] \in Whole
          BY <1>2, ElementOfSeq
    <3>2. [stages[i] EXCEPT !.named = ~@] \in Whole
          BY <3>1 DEF Whole, Stages
    <3> QED BY <1>2, <2>1, <3>2, EditKeeps DEF SetName
  <2>2. CASE ZoneEdit(i)
        BY <1>2, <2>2, ZoneEditKeeps
  <2>3. CASE RemoveStage(i)
    <3>1. Len(stages) > 1
          BY <2>3 DEF RemoveStage
    <3>2. stages' = SubSeq(stages, 1, i - 1) \o SubSeq(stages, i + 1, Len(stages))
          BY <2>3 DEF RemoveStage
    <3>3. stages' \in Seq(Whole) /\ Len(stages') = Len(stages) - 1
          BY <1>2, <3>2, Removed
    <3>4. Len(stages) \in Nat
          BY LenProperties
    <3>5. Len(stages') # 0
          BY <3>1, <3>3, <3>4
    <3> QED BY <3>3, <3>5, EmptySeq
  <2> QED BY <1>2, <2>1, <2>2, <2>3
<1>3. ASSUME NEW i \in 1..Len(stages), NEW v \in Typed, SetTarget(i, v)
      PROVE  stages' \in Seq(Whole) /\ stages' # <<>>
  <2>1. stages[i] \in Whole /\ v \in Int
        BY <1>3, ElementOfSeq, ProfileEditorAssumption
  <2>2. [stages[i] EXCEPT !.target = v] \in Whole
        BY <2>1 DEF Whole, Stages
  <2> QED BY <1>3, <2>2, EditKeeps DEF SetTarget
<1>4. ASSUME NEW i \in 1..Len(stages), NEW v \in Typed, NEW edge \in {"min", "max"},
             SetBound(i, edge, v) \/ SetZoneBound(i, edge, v)
      PROVE  stages' \in Seq(Whole) /\ stages' # <<>>
  <2> DEFINE s == stages[i]
  <2>1. s \in Whole /\ v \in Int
        BY <1>4, ElementOfSeq, ProfileEditorAssumption
  <2>2. CASE SetBound(i, edge, v)
    <3> DEFINE b == WithEdge(s.bound, edge, v)
    <3>1. Edit(i, [s EXCEPT !.bound = b])
          BY <2>2 DEF SetBound
    <3>2. b \in Bounds
          BY <2>1, WithEdgeTyped DEF Whole, Stages
    <3> HIDE DEF s, b
    <3>3. [s EXCEPT !.bound = b] \in Whole
          BY <2>1, <3>2 DEF Whole, Stages
    <3> QED BY <1>4, <3>1, <3>3, EditKeeps
  <2>3. CASE SetZoneBound(i, edge, v)
    <3> DEFINE b == WithEdge(s.zbound, edge, v)
    <3>1. s.zones # <<>> /\ Edit(i, [s EXCEPT !.zbound = b])
          BY <2>3 DEF SetZoneBound
    <3>2. b \in Bounds /\ b # NoBound
          BY <2>1, WithEdgeTyped DEF Whole, Stages
    <3> HIDE DEF s, b
    <3>3. [s EXCEPT !.zbound = b] \in Whole
          BY <2>1, <3>1, <3>2 DEF Whole, Stages
    <3> QED BY <1>4, <3>1, <3>3, EditKeeps
  <2> QED BY <1>4, <2>2, <2>3
<1> QED BY <1>1, <1>2, <1>3, <1>4 DEF EditForm

LEMMA WholesAreStages == ASSUME NEW s \in Seq(Whole) PROVE s \in Seq(Stages)
<1>1. Whole \subseteq Stages
      BY DEF Whole
<1> QED BY <1>1, SeqMonotonic

LEMMA EditorStart == EditorInit => EditorInv
<1> SUFFICES ASSUME EditorInit PROVE EditorInv
    OBVIOUS
<1>1. stages \in Seq(Whole)
      BY EmptySeq DEF EditorInit
<1>2. edits \in 0..MaxEdits
      BY ProfileEditorAssumption DEF EditorInit
<1> QED BY <1>1, <1>2, WholesAreStages DEF EditorInit, EditorInv, EditorTypeOK, SentIsEnveloped

LEMMA EditorStep == EditorInv /\ [EditorNext]_editorVars => EditorInv'
<1> SUFFICES ASSUME EditorInv, [EditorNext]_editorVars PROVE EditorInv'
    OBVIOUS
<1>0. /\ EditorTypeOK /\ SentIsEnveloped /\ stages \in Seq(Whole)
      /\ save # NoFlight => save.sends \in Seq(Whole)
      BY DEF EditorInv
<1>1. CASE OpenEditor
  <2>1. editor' = TRUE /\ error' = FALSE /\ edits' = 0 /\ UNCHANGED <<save, stray>>
        BY <1>1 DEF OpenEditor
  <2>2. stages' \in Seq(Whole) /\ stages' # <<>>
    <3>1. CASE stages' = <<DefaultStage(TRUE)>>
      <4> DEFINE s == DefaultStage(TRUE)
      <4>1. s \in Whole
            BY DefaultStageWhole
      <4> HIDE DEF s
      <4>2. <<s>> \in Seq(Whole) /\ <<s>> # <<>>
            BY <4>1
      <4> QED BY <3>1, <4>2 DEF s
    <3>2. ASSUME NEW p \in Existing, stages' = [j \in 1..Len(p) |-> FullBounds(p[j])]
          PROVE  stages' \in Seq(Whole) /\ stages' # <<>>
      <4>1. p \in Seq(WireStages) /\ p # <<>>
            BY ProfileEditorAssumption
      <4>2. Len(p) \in Nat \ {0} /\ \A j \in 1..Len(p) : FullBounds(p[j]) \in Whole
            BY <4>1, EmptySeq, ElementOfSeq, FullBoundsWhole
      <4>3. stages' \in Seq(Whole)
            BY <3>2, <4>2, IsASeq
      <4>4. Len(stages') = Len(p)
            BY <3>2, <4>2
      <4> QED BY <4>2, <4>3, <4>4, EmptySeq
    <3> QED BY <1>1, <3>1, <3>2 DEF OpenEditor
  <2>3. edits' \in 0..MaxEdits
        BY <2>1, ProfileEditorAssumption
  <2>4. SentIsEnveloped'
        BY <1>0, <2>1 DEF SentIsEnveloped
  <2> QED BY <1>0, <2>1, <2>2, <2>3, <2>4, WholesAreStages DEF EditorInv, EditorTypeOK
<1>2. CASE EditForm
  <2>1. editor /\ edits < MaxEdits /\ edits' = edits + 1 /\ UNCHANGED <<editor, error, save, stray>>
        BY <1>2 DEF EditForm
  <2>2. stages' \in Seq(Whole) /\ stages' # <<>>
        BY <1>0, <1>2, EditFormKeeps
  <2>3. edits' \in 0..MaxEdits
        BY <1>0, <2>1, ProfileEditorAssumption DEF EditorTypeOK
  <2>4. SentIsEnveloped'
        BY <1>0, <2>1 DEF SentIsEnveloped
  <2> QED BY <1>0, <2>1, <2>2, <2>3, <2>4, WholesAreStages DEF EditorInv, EditorTypeOK
<1>3. CASE Submit
  <2>1. editor /\ UNCHANGED <<editor, stages, stray, edits>> /\ error' \in BOOLEAN
        BY <1>3 DEF Submit
  <2>2. CASE \A i \in 1..Len(stages) : Accepts(stages[i])
    <3>1. save' = [sends |-> stages, phase |-> "sent"]
          BY <1>3, <2>2 DEF Submit
    <3>2. stages \in Seq(Stages) /\ stages # <<>>
          BY <1>0, <2>1 DEF EditorTypeOK
    <3>3. save' \in [sends : Seq(Stages), phase : {"sent"} \cup Fates] /\ save'.sends = stages
          BY <3>1, <3>2
    <3>4. ASSUME NEW i \in 1..Len(stages)
          PROVE  LET s == stages[i]
                 IN /\ s.bound # NoBound /\ Inside(s.target, s.bound)
                    /\ (s.zbound = NoBound) = (s.zones = <<>>)
                    /\ \A v \in ZoneValues(s.zones) : Inside(v, s.zbound)
      <4> DEFINE s == stages[i]
      <4>1. s \in Whole /\ Accepts(s)
            BY <1>0, <2>2, ElementOfSeq
      <4> HIDE DEF s
      <4>2. s.bound \in Bounds /\ s.bound # NoBound
            BY <4>1, ProfileEditorAssumption DEF Whole, Stages
      <4>3. (s.zbound = NoBound) = (s.zones = <<>>)
            BY <4>1 DEF Whole
      <4>4. Inside(s.target, s.bound)
            BY <4>1, <4>2 DEF Accepts
      <4>5. \A v \in ZoneValues(s.zones) : Inside(v, s.zbound)
        <5>1. CASE s.zbound # NoBound
              BY <4>1, <5>1 DEF Accepts
        <5>2. CASE s.zbound = NoBound
          <6>1. ZoneValues(s.zones) = {}
                BY <4>3, <5>2 DEF ZoneValues
          <6> QED BY <6>1
        <5> QED BY <5>1, <5>2
      <4> QED BY <4>2, <4>3, <4>4, <4>5 DEF s
    <3>5. SentIsEnveloped'
          BY <3>2, <3>3, <3>4 DEF SentIsEnveloped
    <3> QED BY <1>0, <2>1, <3>3, <3>5 DEF EditorInv, EditorTypeOK
  <2>3. CASE ~\A i \in 1..Len(stages) : Accepts(stages[i])
    <3>1. save' = save
          BY <1>3, <2>3 DEF Submit
    <3>2. SentIsEnveloped'
          BY <1>0, <3>1 DEF SentIsEnveloped
    <3> QED BY <1>0, <2>1, <3>1, <3>2 DEF EditorInv, EditorTypeOK
  <2> QED BY <2>2, <2>3
<1>4. CASE AnswerSave
  <2>1. UNCHANGED <<editor, stages, error, edits>>
        BY <1>4 DEF AnswerSave
  <2>2. stray' \in {"none", "sent"} \cup Fates
        BY <1>0, <1>4 DEF AnswerSave, EditorTypeOK
  <2>3. CASE UNCHANGED save
    <3>1. SentIsEnveloped'
          BY <1>0, <2>3 DEF SentIsEnveloped
    <3> QED BY <1>0, <2>1, <2>2, <2>3, <3>1 DEF EditorInv, EditorTypeOK
  <2>4. CASE ~UNCHANGED save
    <3>1. PICK p \in Fates : save' = [save EXCEPT !.phase = p]
          BY <1>4, <2>4 DEF AnswerSave
    <3>2. save # NoFlight /\ save \in [sends : Seq(Stages), phase : {"sent"} \cup Fates]
          BY <1>0, <1>4, <2>4 DEF AnswerSave, EditorTypeOK
    <3>3. save' \in [sends : Seq(Stages), phase : {"sent"} \cup Fates] /\ save'.sends = save.sends
          BY <3>1, <3>2
    <3>4. SentIsEnveloped' /\ save'.sends \in Seq(Whole)
          BY <1>0, <3>2, <3>3 DEF SentIsEnveloped
    <3> QED BY <1>0, <2>1, <2>2, <3>3, <3>4 DEF EditorInv, EditorTypeOK
  <2> QED BY <2>3, <2>4
<1>5. CASE Settle
  <2>1. save' = NoFlight /\ UNCHANGED <<stages, stray, edits>> /\ Tell(save.phase)
        BY <1>5 DEF Settle
  <2>2. editor' \in BOOLEAN /\ error' \in BOOLEAN /\ (editor' => editor)
        BY <1>0, <2>1 DEF Tell, EditorTypeOK
  <2> QED BY <1>0, <2>1, <2>2 DEF EditorInv, EditorTypeOK, SentIsEnveloped
<1>6. CASE SettleStray
  <2>1. stray' = "none" /\ UNCHANGED <<editor, stages, error, save, edits>>
        BY <1>6 DEF SettleStray
  <2>2. SentIsEnveloped'
        BY <1>0, <2>1 DEF SentIsEnveloped
  <2> QED BY <1>0, <2>1, <2>2 DEF EditorInv, EditorTypeOK
<1>7. CASE CloseEditor
  <2>1. editor' = FALSE /\ UNCHANGED <<stages, error, edits>>
        BY <1>7 DEF CloseEditor
  <2>2. CASE save = NoFlight
    <3>1. UNCHANGED <<save, stray>>
          BY <1>7, <2>2 DEF CloseEditor
    <3> QED BY <1>0, <2>1, <2>2, <3>1 DEF EditorInv, EditorTypeOK, SentIsEnveloped
  <2>3. CASE save # NoFlight
    <3>1. save' = NoFlight /\ stray' = save.phase
          BY <1>7, <2>3 DEF CloseEditor
    <3>2. save.phase \in {"sent"} \cup Fates
          BY <1>0, <2>3 DEF EditorTypeOK
    <3> QED BY <1>0, <2>1, <3>1, <3>2 DEF EditorInv, EditorTypeOK, SentIsEnveloped
  <2> QED BY <2>2, <2>3
<1>8. CASE UNCHANGED editorVars
  <2>1. SentIsEnveloped'
        BY <1>0, <1>8 DEF SentIsEnveloped, editorVars
  <2> QED BY <1>0, <1>8, <2>1 DEF EditorInv, EditorTypeOK, editorVars
<1> QED BY <1>1, <1>2, <1>3, <1>4, <1>5, <1>6, <1>7, <1>8 DEF EditorNext

THEOREM EditorInvariant == EditorSpec => []EditorInv
BY EditorStart, EditorStep, PTL DEF EditorSpec

(* For any library and anything typed, an open editor keeps a stage, and   *)
(* every stage of it is one.                                               *)
THEOREM EditorTypeCorrect == EditorSpec => []EditorTypeOK
BY EditorInvariant, PTL DEF EditorInv

(* For any profiles, any ranges and margin, and any order of edits, what   *)
(* is sent has a complete envelope with every target in it: submit         *)
(* (ProfileEditForm.tsx) passes over a missing envelope, so this rests on  *)
(* every stage of the form being whole from opening to the last edit.      *)
THEOREM SavesAreEnveloped == EditorSpec => []SentIsEnveloped
BY EditorInvariant, PTL DEF EditorInv

(* Whatever is typed and however many saves were dismissed, an open editor *)
(* closes only when its operator dismisses it or its own save succeeded,   *)
(* and shows an error only after its own checks or its own save failed.    *)
THEOREM EditorKeepsItsForm == EditorSpec => AnswerIsForItsForm
<1>1. ASSUME [EditorNext]_editorVars
      PROVE  [/\ ~editor' /\ editor => CloseEditor \/ OwnFate = "saved"
              /\ error' /\ ~error => Submit \/ OwnFate = "refused"]_editorVars
  <2>1. CASE OpenEditor \/ EditForm \/ AnswerSave \/ SettleStray
        BY <2>1 DEF OpenEditor, EditForm, AnswerSave, SettleStray
  <2>2. CASE Submit \/ CloseEditor
        BY <2>2 DEF Submit, CloseEditor
  <2>3. CASE Settle
        BY <2>3 DEF Settle, Tell, Fates, OwnFate
  <2>4. CASE UNCHANGED editorVars
        BY <2>4
  <2> QED BY <1>1, <2>1, <2>2, <2>3, <2>4 DEF EditorNext
<1> QED BY <1>1, PTL DEF EditorSpec, AnswerIsForItsForm
=============================================================================
