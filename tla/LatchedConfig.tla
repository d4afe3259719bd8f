---------------------------- MODULE LatchedConfig ----------------------------
(***************************************************************************)
(* What the controller promises of its configuration: "REST writes are     *)
(* latched, not applied immediately ... each tick [is] a clean snapshot".  *)
(* A write replaces one section with a valid one.  A tick takes every      *)
(* write accepted so far, runs on exactly that, and then publishes it.     *)
(***************************************************************************)
CONSTANTS
    Sections,  \* independently written parts of the configuration
    Valid,     \* the section contents that pass validation
    Boot       \* the configuration the process starts with

VARIABLES
    latched,   \* the configuration with every accepted write
    running,   \* a tick is under way
    taken,     \* the configuration the last tick ran on
    view       \* the configuration the read model shows

vars == <<latched, running, taken, view>>

Init ==
    /\ latched = Boot /\ taken = Boot /\ view = Boot
    /\ running = FALSE

Accept ==
    /\ \E s \in Sections, b \in Valid : latched' = [latched EXCEPT ![s] = b]
    /\ UNCHANGED <<running, taken, view>>

Take ==
    /\ ~running /\ running' = TRUE
    /\ taken' = latched
    /\ UNCHANGED <<latched, view>>

Publish ==
    /\ running /\ running' = FALSE
    /\ view' = taken
    /\ UNCHANGED <<latched, taken>>

Next == Accept \/ Take \/ Publish

Spec == Init /\ [][Next]_vars
=============================================================================
