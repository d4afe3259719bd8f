------------------------- MODULE StreamClientProofs -------------------------
(***************************************************************************)
(* Proofs about the dashboard's link: whatever clients the provider makes, *)
(* and however late a closed socket's event arrives, there is at most one  *)
(* live socket, the indicator tells the mounted client's state, and that   *)
(* client can always go on.                                                *)
(***************************************************************************)
EXTENDS StreamClient, TLAPS

(* Only the mounted client holds a socket or a timer; those before it are  *)
(* stopped, those after it have not begun.                                 *)
ClientsInv ==
    /\ \A c \in Clients \ {mounted} : ref[c] = NoSocket /\ timer[c] = NoTimer
    /\ \A c \in used \ {mounted} : stopped[c]
    /\ \A c \in Clients \ used : state[c] = "closed" /\ ~stopped[c]
    /\ mounted # NoClient => ~stopped[mounted]

(* A live socket is the mounted client's own, a closing one that of a      *)
(* client that was stopped.                                                *)
SocketsInv ==
    \A s \in Sockets :
        /\ conn[s].st = "free" \/ conn[s].owner \in used
        /\ s \in Live => mounted # NoClient /\ conn[s].owner = mounted /\ ref[mounted] = s
        /\ conn[s].st = "closing" => stopped[conn[s].owner]

(* The mounted client waits for its socket or for its timer, and knows     *)
(* whether it is open; the indicator knows what the client knows.          *)
MountedInv ==
    /\ mounted # NoClient =>
          /\ ref[mounted] # NoSocket => ref[mounted] \in Live /\ timer[mounted] = NoTimer
          /\ ref[mounted] = NoSocket => timer[mounted] # NoTimer
          /\ state[mounted] = "open" <=>
                ref[mounted] # NoSocket /\ conn[ref[mounted]].st = "open"
    /\ shown = IF mounted = NoClient THEN "closed" ELSE state[mounted]

LinkInv == LinkTypeOK /\ ClientsInv /\ SocketsInv /\ MountedInv

(* The delay before an attempt is never longer than maxDelayMs.            *)
LEMMA DelayType == \A n \in Nat : Delay(n) \in 0..Limit
BY StreamClientAssumption DEF Delay

LEMMA LinkStarts == LinkInit => LinkInv
BY StreamClientAssumption
   DEF LinkInit, LinkInv, LinkTypeOK, ClientsInv, SocketsInv, MountedInv, Live, Free, States

LEMMA MountKeeps == LinkInv /\ Mount => LinkInv'
<1> SUFFICES ASSUME LinkInv, Mount PROVE LinkInv'
    OBVIOUS
<1> USE StreamClientAssumption
<1>1. PICK c \in Clients \ used :
          /\ mounted' = c /\ used' = used \cup {c}
          /\ Open(c) /\ SetState(c, "connecting")
      BY DEF Mount
<1>2. PICK s \in Sockets :
          /\ conn[s].st = "free"
          /\ conn' = [conn EXCEPT ![s] = [owner |-> c, st |-> "connecting"]]
          /\ ref' = [ref EXCEPT ![c] = s]
      BY <1>1 DEF Open
<1>3. LinkTypeOK'
      BY <1>1, <1>2 DEF Mount, LinkInv, LinkTypeOK, SetState, States
<1>4. ClientsInv'
      BY <1>1, <1>2 DEF Mount, LinkInv, LinkTypeOK, SetState, ClientsInv
<1>5. SocketsInv'
      BY <1>1, <1>2 DEF Mount, LinkInv, LinkTypeOK, SocketsInv, Live
<1>6. MountedInv'
      BY <1>1, <1>2 DEF Mount, LinkInv, LinkTypeOK, SetState, ClientsInv, SocketsInv, MountedInv, Live
<1> QED BY <1>3, <1>4, <1>5, <1>6 DEF LinkInv

LEMMA UnmountKeeps == LinkInv /\ Unmount => LinkInv'
<1> SUFFICES ASSUME LinkInv, Unmount PROVE LinkInv'
    OBVIOUS
<1> USE StreamClientAssumption
<1>1. mounted \in Clients /\ mounted \in used
      BY DEF Unmount, LinkInv, LinkTypeOK
<1>2. LinkTypeOK'
      BY <1>1 DEF Unmount, LinkInv, LinkTypeOK, SetState, States, CloseSocket
<1>3. ClientsInv'
      BY <1>1 DEF Unmount, LinkInv, LinkTypeOK, SetState, ClientsInv
<1>4. SocketsInv'
      BY <1>1 DEF Unmount, LinkInv, LinkTypeOK, SocketsInv, MountedInv, Live, CloseSocket
<1>5. MountedInv'
      BY <1>1 DEF Unmount, LinkInv, LinkTypeOK, SetState, MountedInv
<1> QED BY <1>2, <1>3, <1>4, <1>5 DEF LinkInv

LEMMA OpenedKeeps == ASSUME NEW s \in Sockets PROVE LinkInv /\ Opened(s) => LinkInv'
<1> SUFFICES ASSUME LinkInv, Opened(s) PROVE LinkInv'
    OBVIOUS
<1> USE StreamClientAssumption
<1>1. /\ mounted # NoClient /\ conn[s].owner = mounted /\ ref[mounted] = s
      /\ mounted \in Clients /\ mounted \in used
      BY DEF Opened, LinkInv, SocketsInv, LinkTypeOK, Live
<1>2. LinkTypeOK'
      BY <1>1 DEF Opened, LinkInv, LinkTypeOK, SetState, States
<1>3. ClientsInv'
      BY <1>1 DEF Opened, LinkInv, LinkTypeOK, SetState, ClientsInv
<1>4. SocketsInv'
      BY <1>1 DEF Opened, LinkInv, LinkTypeOK, SocketsInv, Live
<1>5. MountedInv'
      BY <1>1 DEF Opened, LinkInv, LinkTypeOK, SetState, SocketsInv, MountedInv, Live
<1> QED BY <1>2, <1>3, <1>4, <1>5 DEF LinkInv

LEMMA ClosedKeeps == ASSUME NEW s \in Sockets PROVE LinkInv /\ Closed(s) => LinkInv'
<1> SUFFICES ASSUME LinkInv, Closed(s) PROVE LinkInv'
    OBVIOUS
<1> DEFINE c == conn[s].owner
<1> USE StreamClientAssumption
<1>1. c \in used /\ c \in Clients
      BY DEF Closed, Lost, LinkInv, SocketsInv, LinkTypeOK, Live
<1>2. CASE conn[s].st = "closing"
  <2>1. stopped[c] /\ c # mounted
        BY <1>1, <1>2 DEF LinkInv, SocketsInv, ClientsInv
  <2>2. UNCHANGED <<mounted, used, stopped, state, attempts, timer, shown, up>> /\ ref' = ref
        BY <1>1, <2>1 DEF Closed, OnClose, LinkInv, LinkTypeOK, ClientsInv
  <2>3. conn' = [conn EXCEPT ![s] = Free]
        BY DEF Closed
  <2>4. LinkTypeOK'
        BY <2>2, <2>3 DEF LinkInv, LinkTypeOK, Free
  <2>5. ClientsInv' /\ SocketsInv'
        BY <2>2, <2>3 DEF LinkInv, LinkTypeOK, ClientsInv, SocketsInv, Live, Free
  <2>6. MountedInv'
        BY <1>2, <2>2, <2>3 DEF LinkInv, LinkTypeOK, MountedInv, Live, Free
  <2> QED BY <2>4, <2>5, <2>6 DEF LinkInv
<1>3. CASE s \in Live
  <2>1. mounted # NoClient /\ c = mounted /\ ref[mounted] = s /\ ~stopped[c]
        BY <1>3 DEF LinkInv, SocketsInv, ClientsInv
  <2>2. /\ conn' = [conn EXCEPT ![s] = Free] /\ ref' = [ref EXCEPT ![c] = NoSocket]
        /\ ScheduleReconnect(c) /\ UNCHANGED <<mounted, used, stopped, up>>
        BY <2>1 DEF Closed, OnClose
  <2>3. Delay(attempts[c]) \in 0..Limit
        BY <1>1, DelayType DEF LinkInv, LinkTypeOK
  <2> HIDE DEF c
  <2>4. LinkTypeOK'
        BY <1>1, <2>2, <2>3 DEF LinkInv, LinkTypeOK, ScheduleReconnect, SetState, Free, States
  <2>5. ClientsInv'
        BY <1>1, <2>1, <2>2 DEF LinkInv, LinkTypeOK, ClientsInv, ScheduleReconnect, SetState
  <2>6. SocketsInv'
        BY <1>1, <2>1, <2>2 DEF LinkInv, LinkTypeOK, SocketsInv, Live, Free
  <2>7. MountedInv'
        BY <1>1, <2>1, <2>2, <2>3
           DEF LinkInv, LinkTypeOK, SocketsInv, MountedInv, ScheduleReconnect, SetState, Live, Free
  <2> QED BY <2>4, <2>5, <2>6, <2>7 DEF LinkInv
<1> QED BY <1>2, <1>3 DEF Closed, Lost

LEMMA TimerKeeps == ASSUME NEW c \in Clients PROVE LinkInv /\ TimerFires(c) => LinkInv'
<1> SUFFICES ASSUME LinkInv, TimerFires(c) PROVE LinkInv'
    OBVIOUS
<1> USE StreamClientAssumption
<1>1. c = mounted /\ mounted # NoClient /\ ~stopped[c] /\ ref[c] = NoSocket /\ c \in used
      BY DEF TimerFires, LinkInv, LinkTypeOK, ClientsInv, MountedInv
<1>2. PICK s \in Sockets :
          /\ conn[s].st = "free"
          /\ conn' = [conn EXCEPT ![s] = [owner |-> c, st |-> "connecting"]]
          /\ ref' = [ref EXCEPT ![c] = s]
      BY <1>1 DEF TimerFires, Reopen, Open
<1>3. LinkTypeOK'
      BY <1>2 DEF TimerFires, LinkInv, LinkTypeOK
<1>4. ClientsInv'
      BY <1>1, <1>2 DEF TimerFires, LinkInv, LinkTypeOK, ClientsInv
<1>5. SocketsInv'
      BY <1>1, <1>2 DEF TimerFires, LinkInv, LinkTypeOK, SocketsInv, Live
<1>6. MountedInv'
      BY <1>1, <1>2 DEF TimerFires, LinkInv, LinkTypeOK, MountedInv, Live
<1> QED BY <1>3, <1>4, <1>5, <1>6 DEF LinkInv

LEMMA LinkStepKeeps == LinkInv /\ [LinkNext]_linkVars => LinkInv'
<1> SUFFICES ASSUME LinkInv, [LinkNext]_linkVars PROVE LinkInv'
    OBVIOUS
<1>1. CASE Mount
      BY <1>1, MountKeeps
<1>2. CASE Unmount
      BY <1>2, UnmountKeeps
<1>3. CASE Outage
      BY <1>3 DEF Outage, client, LinkInv, LinkTypeOK, ClientsInv, SocketsInv, MountedInv, Live
<1>4. CASE Recovery
      BY <1>4 DEF Recovery, client, LinkInv, LinkTypeOK, ClientsInv, SocketsInv, MountedInv, Live
<1>5. CASE \E s \in Sockets : SocketEvent(s)
      BY <1>5, OpenedKeeps, ClosedKeeps DEF SocketEvent
<1>6. CASE \E c \in Clients : TimerFires(c)
      BY <1>6, TimerKeeps
<1>7. CASE UNCHANGED linkVars
      BY <1>7 DEF linkVars, client, LinkInv, LinkTypeOK, ClientsInv, SocketsInv, MountedInv, Live
<1> QED BY <1>1, <1>2, <1>3, <1>4, <1>5, <1>6, <1>7 DEF LinkNext

THEOREM LinkInvariant == LinkSpec => []LinkInv
BY LinkStarts, LinkStepKeeps, PTL DEF LinkSpec

-----------------------------------------------------------------------------
(* Every variable of the link keeps its range; in particular no reconnect  *)
(* waits longer than maxDelayMs, however often it failed before.           *)
THEOREM LinkTypeCorrect == LinkSpec => []LinkTypeOK
<1>1. LinkInv => LinkTypeOK
      BY DEF LinkInv
<1> QED BY <1>1, LinkInvariant, PTL

(* The app has one live socket at most, the mounted client's: frames reach *)
(* the caches once (StreamProvider's "exactly one StreamClient").          *)
THEOREM LinkIsSingle == LinkSpec => []OneLiveSocket
<1>1. LinkInv => OneLiveSocket
      BY DEF LinkInv, SocketsInv, OneLiveSocket, Live
<1> QED BY <1>1, LinkInvariant, PTL

(* The indicator is the mounted client's state, and says Live exactly when *)
(* a socket is open (setState of ws.ts, and the provider that shows it).   *)
THEOREM IndicatorIsTrue == LinkSpec => []ShownIsMine
<1>1. LinkInv => ShownIsMine
  <2> SUFFICES ASSUME LinkInv PROVE ShownIsMine
      OBVIOUS
  <2> USE StreamClientAssumption
  <2>1. ASSUME NEW s \in Sockets, conn[s].st = "open"
        PROVE  shown = "open"
        BY <2>1 DEF LinkInv, LinkTypeOK, SocketsInv, MountedInv, Live
  <2>2. ASSUME shown = "open" PROVE \E s \in Sockets : conn[s].st = "open"
        BY <2>2 DEF LinkInv, LinkTypeOK, MountedInv
  <2> QED BY <2>1, <2>2 DEF ShownIsMine, LinkInv, MountedInv
<1> QED BY <1>1, LinkInvariant, PTL

(* A mounted client waits for a socket's event or for a timer, never for   *)
(* nothing and never for both (scheduleReconnect and open of ws.ts).       *)
THEOREM LinkNeverStranded == LinkSpec => []NeverStranded
<1>1. LinkInv => NeverStranded
      BY DEF LinkInv, MountedInv, NeverStranded
<1> QED BY <1>1, LinkInvariant, PTL
=============================================================================
