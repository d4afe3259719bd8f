---------------------------- MODULE IntendedState ----------------------------
(***************************************************************************)
(* What the platform promises of one greenhouse's intended setpoints.      *)
(* Each request to change them is answered at most once, by a refusal or   *)
(* by one revision appended to the provenance ledger.  The controller is   *)
(* sent only what an open request asks for or what the ledger holds, and   *)
(* the revision booked as delivered is one it accepted whole.  Retiring    *)
(* the greenhouse clears the ledger; a request or a pass that was under    *)
(* way may then still send, and book, what it read before.                 *)
(***************************************************************************)
EXTENDS Naturals, Sequences

CONSTANTS
    Requests,   \* the requests to change the intended state
    Bundles,    \* complete sets of setpoints
    Asks        \* [Requests -> SUBSET Bundles]: what would satisfy a request

VARIABLES
    registered, \* the greenhouse is in the registry
    ledger,     \* its revisions, oldest first
    open,       \* the requests not answered yet
    accepted,   \* the bundles the controller accepted whole
    delivered,  \* the revision booked as delivered last, or 0
    retired     \* the greenhouse has been retired before

vars == <<registered, ledger, open, accepted, delivered, retired>>

Init ==
    /\ registered = TRUE /\ ledger = <<>> /\ open = Requests
    /\ accepted = {} /\ delivered = 0 /\ retired = FALSE

Answer(r) == r \in open /\ open' = open \ {r}

Record(r) ==
    /\ registered /\ Answer(r)
    /\ \E b \in Asks[r] : ledger' = Append(ledger, b)
    /\ UNCHANGED <<registered, accepted, delivered, retired>>

Refuse(r) ==
    /\ Answer(r)
    /\ UNCHANGED <<registered, ledger, accepted, delivered, retired>>

Wanted(b) ==
    \/ \E r \in open : b \in Asks[r]
    \/ \E n \in 1..Len(ledger) : b = ledger[n]

Accept ==
    /\ \E b \in Bundles : (retired \/ Wanted(b)) /\ accepted' = accepted \cup {b}
    /\ UNCHANGED <<registered, ledger, open, delivered, retired>>

Deliverable(n) == n # 0 => n \in 1..Len(ledger) /\ ledger[n] \in accepted

Book ==
    /\ registered
    /\ delivered' \in Nat /\ (retired \/ Deliverable(delivered'))
    /\ UNCHANGED <<registered, ledger, open, accepted, retired>>

Retire ==
    /\ registered /\ registered' = FALSE
    /\ ledger' = <<>> /\ delivered' = 0 /\ retired' = TRUE
    /\ UNCHANGED <<open, accepted>>

Register ==
    /\ ~registered /\ registered' = TRUE
    /\ UNCHANGED <<ledger, open, accepted, delivered, retired>>

Next ==
    \/ \E r \in Requests : Record(r) \/ Refuse(r)
    \/ Accept \/ Book \/ Retire \/ Register

Spec == Init /\ [][Next]_vars
=============================================================================
