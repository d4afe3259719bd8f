---------------------------- MODULE StreamClient ----------------------------
(***************************************************************************)
(* The dashboard's live link (climate-frontend: api/ws.ts and              *)
(* app/StreamProvider.tsx).  The provider's effect makes a StreamClient    *)
(* and connects it; its cleanup closes it.  StrictMode runs the effect     *)
(* twice in development, so a client that was closed can still get the     *)
(* close event of its socket while its successor is connecting, and both   *)
(* report to the same indicator.                                           *)
(*                                                                         *)
(* A socket's events are the browser's: each callback runs to its end and  *)
(* is one action.                                                          *)
(***************************************************************************)
EXTENDS Integers

CONSTANTS
    Clients,     \* the stream clients the provider makes, one per mount
    Sockets,     \* identities of the browser's sockets, reused when gone
    NoClient, NoSocket, NoTimer,
    Base, Limit, \* baseDelayMs, maxDelayMs
    MaxAttempts  \* where attempts saturate: the delay has reached Limit

ASSUME StreamClientAssumption ==
    /\ NoClient \notin Clients /\ NoSocket \notin Sockets
    /\ Base \in Nat \ {0} /\ Limit \in Nat /\ MaxAttempts \in Nat
    /\ Base * 2^MaxAttempts >= Limit
    /\ NoTimer \notin 0..Limit

VARIABLES
    mounted,   \* the client of the mounted provider
    used,      \* clients the provider has made
    stopped,   \* stopped, of each client
    state,     \* state, of each client
    attempts,  \* attempts, of each client
    timer,     \* the delay each client's reconnect timer was set to
    ref,       \* socket, of each client
    conn,      \* owner and state of each of the browser's sockets
    shown,     \* connectionState, what the indicator is given
    up         \* the platform accepts and keeps sockets

client   == <<mounted, used, stopped, state, attempts, timer, ref>>
linkVars == <<client, conn, shown, up>>

States == {"connecting", "open", "reconnecting", "closed"}
Free   == [owner |-> NoClient, st |-> "free"]
Live   == {s \in Sockets : conn[s].st \in {"connecting", "open"}}

LinkInit ==
    /\ mounted = NoClient /\ used = {}
    /\ stopped = [c \in Clients |-> FALSE] /\ state = [c \in Clients |-> "closed"]
    /\ attempts = [c \in Clients |-> 0] /\ timer = [c \in Clients |-> NoTimer]
    /\ ref = [c \in Clients |-> NoSocket]
    /\ conn = [s \in Sockets |-> Free]
    /\ shown = "closed" /\ up = TRUE

-----------------------------------------------------------------------------
(* setState tells the provider of a change only.                           *)
SetState(c, st) ==
    /\ state' = [state EXCEPT ![c] = st]
    /\ shown' = IF state[c] = st THEN shown ELSE st

(* Variant: the delay doubles for ever.                                    *)
DelayUncapped(n) == Base * 2^n

(* The delay before the next attempt, at most maxDelayMs.                  *)
Delay(n) == IF Base * 2^n \in 0..Limit THEN Base * 2^n ELSE Limit

Open(c) ==
    \E s \in Sockets :
        /\ conn[s].st = "free"
        /\ conn' = [conn EXCEPT ![s] = [owner |-> c, st |-> "connecting"]]
        /\ ref' = [ref EXCEPT ![c] = s]

(* The effect of the provider: a new client, connected.                    *)
Mount ==
    /\ mounted = NoClient
    /\ \E c \in Clients \ used :
          /\ mounted' = c /\ used' = used \cup {c}
          /\ Open(c) /\ SetState(c, "connecting")
    /\ UNCHANGED <<stopped, attempts, timer, up>>

(* Variant: the timer is cleared, the socket left to the browser.          *)
CloseSocketNever(c) == conn' = conn

CloseSocket(c) ==
    conn' = IF ref[c] = NoSocket THEN conn ELSE [conn EXCEPT ![ref[c]].st = "closing"]

(* Its cleanup: close().  A socket told to close takes a while.            *)
Unmount ==
    /\ mounted # NoClient
    /\ mounted' = NoClient
    /\ stopped' = [stopped EXCEPT ![mounted] = TRUE]
    /\ timer' = [timer EXCEPT ![mounted] = NoTimer]
    /\ CloseSocket(mounted)
    /\ ref' = [ref EXCEPT ![mounted] = NoSocket]
    /\ SetState(mounted, "closed")
    /\ UNCHANGED <<used, attempts, up>>

(* onopen.                                                                 *)
Opened(s) ==
    /\ conn[s].st = "connecting" /\ up
    /\ conn' = [conn EXCEPT ![s].st = "open"]
    /\ attempts' = [attempts EXCEPT ![conn[s].owner] = 0]
    /\ SetState(conn[s].owner, "open")
    /\ UNCHANGED <<mounted, used, stopped, timer, ref, up>>

(* scheduleReconnect.                                                      *)
ScheduleReconnect(c) ==
    /\ SetState(c, "reconnecting")
    /\ timer' = [timer EXCEPT ![c] = Delay(attempts[c])]
    /\ attempts' = [attempts EXCEPT ![c] = IF @ < MaxAttempts THEN @ + 1 ELSE @]

Lost(s) == conn[s].st = "closing" \/ (s \in Live /\ ~up)

(* Variant: onclose reconnects whatever closed the socket.                 *)
OnCloseAlways(c, st) == ScheduleReconnect(c)

(* Variant: only a connection that was open is made again.                 *)
OnCloseOfOpen(c, st) ==
    IF stopped[c] \/ st # "open" THEN UNCHANGED <<state, shown, timer, attempts>>
                                 ELSE ScheduleReconnect(c)

(* onclose, also of a socket that failed to connect.                       *)
OnClose(c, st) ==
    IF stopped[c] THEN UNCHANGED <<state, shown, timer, attempts>>
                  ELSE ScheduleReconnect(c)

Closed(s) ==
    /\ Lost(s)
    /\ conn' = [conn EXCEPT ![s] = Free]
    /\ ref' = [ref EXCEPT ![conn[s].owner] = NoSocket]
    /\ OnClose(conn[s].owner, conn[s].st)
    /\ UNCHANGED <<mounted, used, stopped, up>>

(* Variant: the client gives up once the delay cannot grow.                *)
ReopenAtFirst(c) ==
    IF stopped[c] \/ attempts[c] = MaxAttempts THEN UNCHANGED <<conn, ref>> ELSE Open(c)

Reopen(c) == IF stopped[c] THEN UNCHANGED <<conn, ref>> ELSE Open(c)

TimerFires(c) ==
    /\ timer[c] # NoTimer
    /\ timer' = [timer EXCEPT ![c] = NoTimer]
    /\ Reopen(c)
    /\ UNCHANGED <<mounted, used, stopped, state, attempts, shown, up>>

(* The platform, or the network, goes away and comes back.                 *)
Outage   == up /\ up' = FALSE /\ UNCHANGED <<client, conn, shown>>
Recovery == ~up /\ up' = TRUE /\ UNCHANGED <<client, conn, shown>>

SocketEvent(s) == Opened(s) \/ Closed(s)

LinkNext ==
    \/ Mount \/ Unmount \/ Outage \/ Recovery
    \/ \E s \in Sockets : SocketEvent(s)
    \/ \E c \in Clients : TimerFires(c)

(* The browser delivers a socket's events and fires timers.                *)
LinkFairness ==
    /\ \A s \in Sockets : WF_linkVars(SocketEvent(s))
    /\ \A c \in Clients : WF_linkVars(TimerFires(c))

LinkSpec == LinkInit /\ [][LinkNext]_linkVars

-----------------------------------------------------------------------------
LinkTypeOK ==
    /\ mounted \in used \cup {NoClient} /\ used \subseteq Clients
    /\ stopped \in [Clients -> BOOLEAN] /\ state \in [Clients -> States]
    /\ attempts \in [Clients -> 0..MaxAttempts]
    /\ timer \in [Clients -> (0..Limit) \cup {NoTimer}]
    /\ ref \in [Clients -> Sockets \cup {NoSocket}]
    /\ conn \in [Sockets -> [owner : Clients \cup {NoClient},
                             st : {"free", "connecting", "open", "closing"}]]
    /\ shown \in States /\ up \in BOOLEAN

(* "Mounts exactly one StreamClient for the app": there is never a second  *)
(* live socket, and the one there is belongs to the mounted client, so no  *)
(* frame is applied twice to the caches.                                   *)
OneLiveSocket == \A s \in Live : mounted # NoClient /\ ref[mounted] = s

(* The indicator tells the mounted client's state and never what a client  *)
(* that was closed before it learns late, and it says Live only while that *)
(* client's socket is open.                                                *)
ShownIsMine ==
    /\ shown = IF mounted = NoClient THEN "closed" ELSE state[mounted]
    /\ shown = "open" <=> \E s \in Sockets : conn[s].st = "open"

(* A mounted client always has a socket the browser will report on or a    *)
(* timer that will make one, never both: it cannot get stuck, and it never *)
(* runs two attempts at once.                                              *)
NeverStranded ==
    mounted # NoClient =>
        (ref[mounted] # NoSocket /\ ref[mounted] \in Live) # (timer[mounted] # NoTimer)

(* Whatever the outages, once the platform stays up and the provider stays *)
(* mounted the link comes back to Live and stays there.                    *)
Reconnects ==
    <>[](up /\ mounted # NoClient) => <>[](shown = "open")
=============================================================================
