-------------------------- MODULE ControllerConfig --------------------------
(***************************************************************************)
(* How a configuration write reaches the control loop of one greenhouse    *)
(* controller (climate-controller: rest.rs, runtime.rs).                   *)
(*                                                                         *)
(* A PATCH handler merges the request onto the read model, validates the   *)
(* result and sends the whole section through a bounded channel; the tick  *)
(* loop applies what it receives while it waits for the next tick, drains  *)
(* the rest when the tick is due, runs the pipeline and republishes the    *)
(* read model.  The read model is therefore as old as the last tick.       *)
(***************************************************************************)
EXTENDS Integers, Sequences

CONSTANTS
    Requests,  \* PATCH requests, one handler task each
    Sections,  \* the house setpoints and the zones: what one command replaces
    Fields,    \* the fields of a section
    Values,    \* their contents
    Section,   \* [Requests -> Sections]
    Patch,     \* the fields each request names, with their new values
    Valid,     \* section contents accepted by validate()
    Boot,      \* the configuration file
    Cap        \* COMMAND_CAP, the channel's capacity

Contents == [Fields -> Values]
Config   == [Sections -> Contents]
Commands == [req : Requests, body : Contents]

ASSUME ControllerConfigAssumption ==
    /\ Section \in [Requests -> Sections]
    /\ \A r \in Requests : \A f \in Fields \cap DOMAIN Patch[r] : Patch[r][f] \in Values
    /\ Valid \subseteq Contents
    /\ Boot \in [Sections -> Valid]
    /\ Cap \in Nat \ {0}

VARIABLES
    config,    \* what the pipeline runs
    view,      \* the watch channel's RuntimeView
    queue,     \* the command channel
    phase,     \* the loop waits for the deadline, drains, or runs the tick
    pc,        \* where each handler is
    candidate  \* the section each handler built

loop    == <<config, view, phase>>
handler == <<pc, candidate>>
vars    == <<loop, queue, handler>>

Merge(b, e) == [f \in Fields |-> IF f \in DOMAIN e THEN e[f] ELSE b[f]]

Init ==
    /\ config = Boot /\ view = Boot
    /\ queue = <<>> /\ phase = "wait"
    /\ pc = [r \in Requests |-> "idle"]
    /\ candidate = [r \in Requests |-> Boot[Section[r]]]

-----------------------------------------------------------------------------
(* The handlers.                                                           *)

(* An empty patch and an invalid result are refused with 422.              *)
Accepts(r, b) == DOMAIN Patch[r] # {} /\ b \in Valid

(* Up to the handler's only await: one read of the view.                   *)
Validate(r) ==
    /\ pc[r] = "idle"
    /\ LET b == Merge(view[Section[r]], Patch[r])
       IN IF Accepts(r, b)
          THEN /\ candidate' = [candidate EXCEPT ![r] = b]
               /\ pc' = [pc EXCEPT ![r] = "send"]
          ELSE pc' = [pc EXCEPT ![r] = "refused"] /\ UNCHANGED candidate
    /\ UNCHANGED <<loop, queue>>

(* Variant: an unbounded channel.                                          *)
SendUnbounded(r) ==
    /\ pc[r] = "send"
    /\ queue' = Append(queue, [req |-> r, body |-> candidate[r]])
    /\ pc' = [pc EXCEPT ![r] = "accepted"]
    /\ UNCHANGED <<loop, candidate>>

(* The send waits while the channel is full; then the handler answers 200. *)
Send(r) ==
    /\ pc[r] = "send" /\ Len(queue) < Cap
    /\ queue' = Append(queue, [req |-> r, body |-> candidate[r]])
    /\ pc' = [pc EXCEPT ![r] = "accepted"]
    /\ UNCHANGED <<loop, candidate>>

-----------------------------------------------------------------------------
(* The tick loop.                                                          *)

(* Variant: a command carries the patch, merged when it is applied.        *)
AppliedAsPatch(c, b) == Merge(b, Patch[c.req])

(* apply_setpoints and apply_zone replace the section.                     *)
Applied(c, b) == c.body

ApplyHead ==
    /\ queue # <<>>
    /\ queue' = Tail(queue)
    /\ LET c == Head(queue) s == Section[c.req]
       IN config' = [config EXCEPT ![s] = Applied(c, @)]
    /\ UNCHANGED <<view, phase, handler>>

Receive == phase = "wait" /\ ApplyHead

(* The select! is biased: a deadline that has passed goes before a command *)
(* that is waiting.                                                        *)
Due ==
    /\ phase = "wait" /\ phase' = "drain"
    /\ UNCHANGED <<config, view, queue, handler>>

Drain == phase = "drain" /\ ApplyHead

(* Variant: the tick starts on its deadline, whatever is queued.           *)
StartUndrained ==
    /\ phase = "drain" /\ phase' = "tick"
    /\ UNCHANGED <<config, view, queue, handler>>

StartTick ==
    /\ phase = "drain" /\ queue = <<>> /\ phase' = "tick"
    /\ UNCHANGED <<config, view, queue, handler>>

(* Pipeline::tick reads config; build_view and send_replace follow it.     *)
EndTick ==
    /\ phase = "tick" /\ phase' = "wait"
    /\ view' = config
    /\ UNCHANGED <<config, queue, handler>>

-----------------------------------------------------------------------------
Tick == Due \/ Drain \/ StartTick \/ EndTick
Next == (\E r \in Requests : Validate(r) \/ Send(r)) \/ Receive \/ Tick

(* The loop runs and a channel with room takes a waiting send.  Nothing is *)
(* owed to Receive: when ticks overrun, the deadline always wins.          *)
Spec     == Init /\ [][Next]_vars
FairSpec == Spec /\ WF_vars(Tick) /\ \A r \in Requests : WF_vars(Send(r))

-----------------------------------------------------------------------------
TypeOK ==
    /\ config \in Config /\ view \in Config
    /\ queue \in Seq(Commands) /\ Len(queue) <= Cap
    /\ phase \in {"wait", "drain", "tick"}
    /\ pc \in [Requests -> {"idle", "send", "accepted", "refused"}]
    /\ candidate \in [Requests -> Contents]

(* The pipeline never runs a section that validation would refuse, though  *)
(* every check is made against a read model that may be ticks behind: each *)
(* command carries a whole checked section (patch_setpoints, patch_zone).  *)
ConfigValid ==
    /\ config \in [Sections -> Valid] /\ view \in [Sections -> Valid]
    /\ \A i \in 1..Len(queue) : queue[i].body \in Valid

(* A command waits in the channel at most once, after its request was      *)
(* answered 200, with the section that request validated (the handlers'    *)
(* send, apply_command).                                                   *)
CommandsAnswered ==
    /\ \A i \in 1..Len(queue) :
         LET c == queue[i]
         IN pc[c.req] = "accepted" /\ c.body = candidate[c.req]
    /\ \A i, j \in 1..Len(queue) : queue[i].req = queue[j].req => i = j

(* Each section that runs, or that the read model shows, is the configured *)
(* one or, whole, the one that some request for it was answered 200 for:   *)
(* never a mixture of two requests (apply_setpoints, apply_zone).          *)
Answered(s, b) ==
    b = Boot[s] \/ \E r \in Requests :
                      pc[r] = "accepted" /\ Section[r] = s /\ b = candidate[r]

SectionsAnswered == \A s \in Sections : Answered(s, config[s]) /\ Answered(s, view[s])

(* The configuration with every accepted write: the last command queued    *)
(* for a section, or what the pipeline runs when there is none.            *)
Queued(q, s)  == {i \in 1..Len(q) : Section[q[i].req] = s}
IsLast(q, s, i) == i \in Queued(q, s) /\ \A j \in Queued(q, s) : j <= i

Latest(q, c) ==
    [s \in Sections |-> IF Queued(q, s) = {} THEN c[s]
                        ELSE q[CHOOSE i \in Queued(q, s) : IsLast(q, s, i)].body]

Latched == Latest(queue, config)

(* Writes are latched to tick boundaries: each tick runs on exactly the    *)
(* writes accepted before it took them, none is applied in the middle of   *)
(* it, and the view it publishes is the one it ran on.                     *)
Promise == INSTANCE LatchedConfig WITH
               latched <- Latched,
               running <- phase = "tick",
               taken   <- IF phase = "tick" THEN config ELSE view
Implements == Promise!Spec

(* An accepted write takes effect even when ticks overrun their period, so *)
(* that the loop never waits for a command: config and view settle on it.  *)
WritesTakeEffect == <>[](queue = <<>> /\ view = Latched)

(* No handler waits for ever on a full channel.                            *)
SendsFinish == \A r \in Requests : pc[r] = "send" ~> pc[r] = "accepted"

(* "The controller's REST PATCH is a merge latched to the next tick": once *)
(* all is applied, a field an accepted request named has that request's    *)
(* value, or that of another accepted request that named it too.           *)
Settled == queue = <<>> /\ phase = "wait" /\ \A r \in Requests : pc[r] \in {"accepted", "refused"}
Named(s, f) == {r \in Requests : pc[r] = "accepted" /\ Section[r] = s /\ f \in DOMAIN Patch[r]}

AcceptedFieldsSurvive ==
    Settled => \A s \in Sections, f \in Fields :
        Named(s, f) # {} => \E r \in Named(s, f) : config[s][f] = Patch[r][f]
=============================================================================
