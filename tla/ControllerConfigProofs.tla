----------------------- MODULE ControllerConfigProofs -----------------------
(***************************************************************************)
(* Proofs about the controller's configuration latch, for every set of     *)
(* requests, sections and fields and every channel capacity.               *)
(***************************************************************************)
EXTENDS ControllerConfig, TLAPS

(* Merging a patch onto a section's contents yields contents.              *)
LEMMA MergeType ==
    ASSUME NEW r \in Requests, NEW b \in Contents
    PROVE  Merge(b, Patch[r]) \in Contents
  BY ControllerConfigAssumption DEF Merge, Contents

(* What reaches the queue has been validated.                              *)
IInv ==
    /\ TypeOK /\ ConfigValid
    /\ \A r \in Requests : pc[r] = "send" => candidate[r] \in Valid

LEMMA IInvInit == Init => IInv
  <1> SUFFICES ASSUME Init PROVE IInv
    OBVIOUS
  <1> USE ControllerConfigAssumption DEF Init, Config, Contents
  <1>1. config \in Config /\ view \in Config
    OBVIOUS
  <1>2. candidate \in [Requests -> Contents]
    OBVIOUS
  <1>3. TypeOK
    BY <1>1, <1>2 DEF TypeOK, Commands
  <1>4. ConfigValid
    BY DEF ConfigValid
  <1>5. \A r \in Requests : pc[r] # "send"
    OBVIOUS
  <1> QED  BY <1>3, <1>4, <1>5 DEF IInv

LEMMA IInvStep == IInv /\ [Next]_vars => IInv'
  <1> SUFFICES ASSUME IInv, [Next]_vars PROVE IInv'
    OBVIOUS
  <1> USE ControllerConfigAssumption DEF IInv, TypeOK, ConfigValid
  <1>1. CASE UNCHANGED vars
    BY <1>1 DEF vars, loop, handler
  <1>2. ASSUME NEW r \in Requests, Validate(r) PROVE IInv'
    <2> DEFINE b == Merge(view[Section[r]], Patch[r])
    <2>1. b \in Contents
      BY MergeType DEF Config
    <2>2. CASE Accepts(r, b)
      <3>1. b \in Valid
        BY <2>2 DEF Accepts
      <3>2. candidate' = [candidate EXCEPT ![r] = b] /\ pc' = [pc EXCEPT ![r] = "send"]
        BY <1>2, <2>2 DEF Validate
      <3> QED  BY <1>2, <2>1, <3>1, <3>2 DEF Validate, loop
    <2>3. CASE ~Accepts(r, b)
      BY <1>2, <2>3 DEF Validate, loop
    <2> QED  BY <2>2, <2>3
  <1>3. ASSUME NEW r \in Requests, Send(r) PROVE IInv'
    <2> DEFINE c == [req |-> r, body |-> candidate[r]]
    <2>1. c \in Commands /\ c.body \in Valid
      BY <1>3 DEF Send, Commands
    <2>2. queue' = Append(queue, c) /\ Len(queue) < Cap
      BY <1>3 DEF Send
    <2>3. queue' \in Seq(Commands) /\ Len(queue') = Len(queue) + 1 /\ Len(queue') <= Cap
      BY <2>1, <2>2
    <2>4. \A i \in 1..Len(queue') : queue'[i].body \in Valid
      BY <2>1, <2>2
    <2> QED  BY <1>3, <2>3, <2>4 DEF Send, loop
  <1>4. ASSUME ApplyHead PROVE IInv'
    <2> DEFINE c == Head(queue)
    <2>0. queue # <<>> /\ c = queue[1] /\ 1 \in 1..Len(queue)
      BY <1>4 DEF ApplyHead
    <2>1. c \in Commands /\ c.body \in Valid /\ Section[c.req] \in Sections
      <3>1. queue[1] \in Commands /\ queue[1].body \in Valid
        BY <2>0
      <3>2. c \in Commands /\ c.body \in Valid
        BY <2>0, <3>1
      <3>3. c.req \in Requests
        BY <3>2 DEF Commands
      <3> QED  BY <3>2, <3>3
    <2>2. config' = [config EXCEPT ![Section[c.req]] = c.body]
      BY <1>4 DEF ApplyHead, Applied
    <2>3. queue' = Tail(queue) /\ queue # <<>>
      BY <1>4 DEF ApplyHead
    <2>4. queue' \in Seq(Commands) /\ Len(queue') <= Cap
      BY <2>3
    <2>5. \A i \in 1..Len(queue') : queue'[i].body \in Valid
      BY <2>3
    <2>6. config' \in Config /\ config' \in [Sections -> Valid]
      BY <2>1, <2>2 DEF Config, Commands
    <2> QED  BY <1>4, <2>4, <2>5, <2>6 DEF ApplyHead, handler
  <1>5. CASE Due \/ StartTick \/ EndTick
    BY <1>5 DEF Due, StartTick, EndTick, handler
  <1> QED  BY <1>1, <1>2, <1>3, <1>4, <1>5 DEF Next, Tick, Receive, Drain

(* Every variable keeps its type and the channel its bound.                *)
THEOREM TypeCorrect == Spec => []TypeOK
  <1>1. IInv => TypeOK
    BY DEF IInv
  <1> QED  BY <1>1, IInvInit, IInvStep, PTL DEF Spec

(* The pipeline never runs a configuration that validation would refuse.   *)
THEOREM OnlyValidRuns == Spec => []ConfigValid
  <1>1. IInv => ConfigValid
    BY DEF IInv
  <1> QED  BY <1>1, IInvInit, IInvStep, PTL DEF Spec

-----------------------------------------------------------------------------
(* What was answered stays answered: a handler that has sent its command   *)
(* is done, and never touches its candidate again.                         *)
AInv == IInv /\ CommandsAnswered /\ SectionsAnswered

LEMMA AcceptedStays ==
    ASSUME IInv, [Next]_vars, NEW r \in Requests, pc[r] = "accepted"
    PROVE  pc'[r] = "accepted" /\ candidate'[r] = candidate[r]
  <1>1. pc \in [Requests -> {"idle", "send", "accepted", "refused"}]
        /\ candidate \in [Requests -> Contents]
    BY DEF IInv, TypeOK
  <1>2. ASSUME NEW q \in Requests, Validate(q) \/ Send(q)
        PROVE  pc'[r] = "accepted" /\ candidate'[r] = candidate[r]
    <2>1. q # r
      BY <1>2 DEF Validate, Send
    <2> QED  BY <1>1, <1>2, <2>1 DEF Validate, Send
  <1>3. ASSUME UNCHANGED handler PROVE pc'[r] = "accepted" /\ candidate'[r] = candidate[r]
    BY <1>3 DEF handler
  <1> QED  BY <1>2, <1>3 DEF Next, Tick, Receive, Drain, ApplyHead, Due, StartTick, EndTick, vars

LEMMA AInvInit == Init => AInv
  <1> USE ControllerConfigAssumption
  <1>1. Init => CommandsAnswered /\ SectionsAnswered
    BY DEF Init, CommandsAnswered, SectionsAnswered, Answered
  <1> QED  BY <1>1, IInvInit DEF AInv

LEMMA AInvStep == AInv /\ [Next]_vars => AInv'
  <1> SUFFICES ASSUME AInv, [Next]_vars PROVE CommandsAnswered' /\ SectionsAnswered'
    BY IInvStep DEF AInv
  <1> USE ControllerConfigAssumption
  <1>a. IInv /\ CommandsAnswered /\ SectionsAnswered /\ queue \in Seq(Commands)
    BY DEF AInv, IInv, TypeOK
  <1>typed. ASSUME NEW i \in 1..Len(queue) PROVE queue[i] \in Commands /\ queue[i].req \in Requests
    <2>1. queue[i] \in Commands
      BY <1>a
    <2> QED  BY <2>1 DEF Commands
  <1>kept. \A r \in Requests : pc[r] = "accepted" =>
               pc'[r] = "accepted" /\ candidate'[r] = candidate[r]
    BY <1>a, AcceptedStays
  <1>sections. ASSUME UNCHANGED <<config, view>> PROVE SectionsAnswered'
    <2>1. ASSUME NEW s \in Sections PROVE Answered(s, config[s])' /\ Answered(s, view[s])'
      <3>1. Answered(s, config[s]) /\ Answered(s, view[s])
        BY <1>a DEF SectionsAnswered
      <3>2. config'[s] = config[s] /\ view'[s] = view[s]
        BY <1>sections
      <3> QED  BY <1>kept, <3>1, <3>2 DEF Answered
    <2> QED  BY <2>1 DEF SectionsAnswered
  <1>queue. ASSUME UNCHANGED queue PROVE CommandsAnswered'
    <2>1. ASSUME NEW i \in 1..Len(queue) PROVE queue[i].req \in Requests
      BY <1>typed
    <2> QED  BY <1>a, <1>kept, <1>queue, <2>1 DEF CommandsAnswered
  <1>1. ASSUME NEW r \in Requests, Validate(r) PROVE CommandsAnswered' /\ SectionsAnswered'
    BY <1>1, <1>queue, <1>sections DEF Validate, loop
  <1>2. ASSUME NEW r \in Requests, Send(r) PROVE CommandsAnswered' /\ SectionsAnswered'
    <2> DEFINE c == [req |-> r, body |-> candidate[r]]
               n == Len(queue)
    <2>1. /\ queue' = Append(queue, c) /\ candidate' = candidate
          /\ pc' = [pc EXCEPT ![r] = "accepted"] /\ pc[r] = "send"
      BY <1>2 DEF Send
    <2>2. c.req = r /\ c.body = candidate[r] /\ pc'[r] = "accepted" /\ candidate' = candidate
      BY <1>a, <2>1 DEF IInv, TypeOK
    <2>3. /\ n \in Nat /\ Len(queue') = n + 1 /\ queue'[n + 1] = c
          /\ \A i \in 1..n : queue'[i] = queue[i]
      BY <1>a, <2>1
    <2> HIDE DEF c, n
    <2>4. \A i \in 1..n : queue[i].req \in Requests /\ queue[i].req # r
                           /\ pc'[queue[i].req] = "accepted"
                           /\ queue[i].body = candidate'[queue[i].req]
      <3>1. ASSUME NEW i \in 1..n
            PROVE  queue[i].req \in Requests /\ pc[queue[i].req] = "accepted"
                   /\ queue[i].body = candidate[queue[i].req]
        <4>1. i \in 1..Len(queue)
          BY DEF n
        <4> QED  BY <1>a, <1>typed, <4>1 DEF CommandsAnswered
      <3> QED  BY <1>kept, <2>1, <3>1
    <2>5. \A i, j \in 1..n : queue[i].req = queue[j].req => i = j
      BY <1>a DEF CommandsAnswered, n
    <2>6. \A i \in 1..Len(queue') : i \in 1..n \/ i = n + 1
      BY <2>3
    <2>7. CommandsAnswered'
      <3>1. ASSUME NEW i \in 1..Len(queue')
            PROVE  pc'[queue'[i].req] = "accepted" /\ queue'[i].body = candidate'[queue'[i].req]
        BY <2>2, <2>3, <2>4, <2>6
      <3>2. ASSUME NEW i \in 1..Len(queue'), NEW j \in 1..Len(queue'),
                   queue'[i].req = queue'[j].req
            PROVE  i = j
        BY <2>2, <2>3, <2>4, <2>5, <2>6, <3>2
      <3> QED  BY <3>1, <3>2 DEF CommandsAnswered
    <2> QED  BY <1>2, <1>sections, <2>7 DEF Send, loop
  <1>3. ASSUME ApplyHead PROVE CommandsAnswered' /\ SectionsAnswered'
    <2> DEFINE c == Head(queue)
               s == Section[c.req]
    <2>1. /\ queue # <<>> /\ queue' = Tail(queue) /\ config' = [config EXCEPT ![s] = c.body]
          /\ view' = view /\ pc' = pc /\ candidate' = candidate
      BY <1>3 DEF ApplyHead, Applied, handler
    <2>2. /\ Len(queue) \in Nat \ {0} /\ c = queue[1] /\ c \in Commands
          /\ Len(queue') = Len(queue) - 1
          /\ \A i \in 1..Len(queue') : i + 1 \in 1..Len(queue) /\ queue'[i] = queue[i + 1]
      BY <1>a, <2>1
    <2>3. pc[c.req] = "accepted" /\ c.body = candidate[c.req] /\ c.req \in Requests
      BY <1>a, <2>2 DEF CommandsAnswered, Commands
    <2>4. config \in [Sections -> Contents]
      BY <1>a DEF IInv, TypeOK, Config
    <2> HIDE DEF c
    <2>5. CommandsAnswered'
      <3>1. ASSUME NEW i \in 1..Len(queue')
            PROVE  pc'[queue'[i].req] = "accepted" /\ queue'[i].body = candidate'[queue'[i].req]
        BY <1>a, <2>1, <2>2 DEF CommandsAnswered
      <3>2. ASSUME NEW i \in 1..Len(queue'), NEW j \in 1..Len(queue'),
                   queue'[i].req = queue'[j].req
            PROVE  i = j
        <4>1. queue[i + 1].req = queue[j + 1].req /\ i + 1 \in 1..Len(queue) /\ j + 1 \in 1..Len(queue)
          BY <2>2, <3>2
        <4>2. \A a, b \in 1..Len(queue) : queue[a].req = queue[b].req => a = b
          BY <1>a DEF CommandsAnswered
        <4>3. i + 1 = j + 1
          BY <4>1, <4>2
        <4> QED  BY <4>3
      <3> QED  BY <3>1, <3>2 DEF CommandsAnswered
    <2>6. Answered(s, c.body)
      BY <2>3 DEF Answered
    <2>7. ASSUME NEW t \in Sections PROVE Answered(t, config'[t]) /\ Answered(t, view'[t])
      <3>1. Answered(t, config[t]) /\ Answered(t, view[t])
        BY <1>a DEF SectionsAnswered
      <3>2. config'[t] = IF t = s THEN c.body ELSE config[t]
        BY <2>1, <2>4
      <3> QED  BY <2>1, <2>6, <3>1, <3>2
    <2> QED  BY <2>1, <2>5, <2>7 DEF SectionsAnswered, Answered
  <1>4. CASE Due \/ StartTick
    BY <1>4, <1>queue, <1>sections DEF Due, StartTick
  <1>5. CASE EndTick
    <2>1. view' = config /\ config' = config /\ pc' = pc /\ candidate' = candidate
      BY <1>5 DEF EndTick, handler
    <2>2. SectionsAnswered'
      BY <1>a, <2>1 DEF SectionsAnswered, Answered
    <2> QED  BY <1>5, <1>queue, <2>2 DEF EndTick
  <1>6. CASE UNCHANGED vars
    BY <1>6, <1>queue, <1>sections DEF vars, loop
  <1> QED  BY <1>1, <1>2, <1>3, <1>4, <1>5, <1>6 DEF Next, Tick, Receive, Drain

(* An accepted write goes through the channel once, as it was validated.   *)
THEOREM CommandsAreAnswered == Spec => []CommandsAnswered
  <1>1. AInv => CommandsAnswered
    BY DEF AInv
  <1> QED  BY <1>1, AInvInit, AInvStep, PTL DEF Spec

(* ... and what runs is always, section by section, one whole answer.      *)
THEOREM RunsWhatWasAnswered == Spec => []SectionsAnswered
  <1>1. AInv => SectionsAnswered
    BY DEF AInv
  <1> QED  BY <1>1, AInvInit, AInvStep, PTL DEF Spec

-----------------------------------------------------------------------------
(* A queue holds a last command for every section it holds one for.        *)
HasLasts(q) == \A s \in Sections : Queued(q, s) = {} \/ \E i \in Nat : IsLast(q, s, i)

(* The last queued command of a section is what is latched for it.         *)
LEMMA LatestQueued ==
    ASSUME NEW q \in Seq(Commands), NEW c, NEW s \in Sections, NEW i, IsLast(q, s, i)
    PROVE  Latest(q, c)[s] = q[i].body
  <1> DEFINE k == CHOOSE j \in Queued(q, s) : IsLast(q, s, j)
  <1>1. IsLast(q, s, k) /\ k \in Queued(q, s)
    BY DEF IsLast
  <1>2. i \in Queued(q, s) /\ k <= i /\ i <= k
    BY <1>1, Zenon DEF IsLast
  <1>3. Queued(q, s) \subseteq Int
    BY DEF Queued
  <1>4. k \in Int /\ i \in Int
    BY <1>1, <1>2, <1>3, Zenon
  <1> HIDE DEF k
  <1>5. k = i
    BY <1>2, <1>4
  <1> USE DEF k
  <1> QED  BY <1>1, <1>5 DEF Latest

(* Without one it is what the pipeline runs.                               *)
LEMMA LatestRunning ==
    ASSUME NEW q, NEW c, NEW s \in Sections, Queued(q, s) = {}
    PROVE  Latest(q, c)[s] = c[s]
  BY DEF Latest

(* It is a function on the sections.                                       *)
LEMMA LatestFunction ==
    ASSUME NEW q, NEW c
    PROVE  Latest(q, c) = [s \in Sections |-> Latest(q, c)[s]]
  BY DEF Latest

(* Sending a command latches its section and leaves the others.            *)
LEMMA SendLatches ==
    ASSUME NEW q \in Seq(Commands), HasLasts(q), NEW c, NEW d \in Commands
    PROVE  /\ HasLasts(Append(q, d))
           /\ Latest(Append(q, d), c) = [Latest(q, c) EXCEPT ![Section[d.req]] = d.body]
  <1> DEFINE r == Append(q, d)
             n == Len(q)
  <1> USE ControllerConfigAssumption
  <1>1. /\ r \in Seq(Commands) /\ Len(r) = n + 1 /\ r[n + 1] = d /\ n \in Nat /\ n = Len(q)
        /\ \A i \in 1..n : r[i] = q[i]
    OBVIOUS
  <1> HIDE DEF r, n
  <1>2. Section[d.req] \in Sections
    BY DEF Commands
  <1>3. IsLast(r, Section[d.req], n + 1)
    BY <1>1 DEF IsLast, Queued
  <1>4. ASSUME NEW s \in Sections, s # Section[d.req] PROVE Queued(r, s) = Queued(q, s)
    BY <1>1, <1>4 DEF Queued
  <1>5. HasLasts(r)
    BY <1>1, <1>3, <1>4 DEF HasLasts, IsLast
  <1>6. Latest(r, c)[Section[d.req]] = d.body
    BY <1>1, <1>2, <1>3, LatestQueued
  <1>7. ASSUME NEW s \in Sections, s # Section[d.req]
        PROVE  Latest(r, c)[s] = Latest(q, c)[s]
    <2>1. CASE Queued(q, s) = {}
      BY <1>4, <1>7, <2>1, LatestRunning
    <2>2. CASE Queued(q, s) # {}
      <3>1. PICK i \in Nat : IsLast(q, s, i)
        BY <2>2 DEF HasLasts
      <3>2. IsLast(r, s, i)
        BY <1>4, <1>7, <3>1 DEF IsLast
      <3>3. i \in 1..n
        BY <1>1, <3>1 DEF IsLast, Queued
      <3>4. Latest(q, c)[s] = q[i].body /\ Latest(r, c)[s] = r[i].body
        BY <1>1, <3>1, <3>2, LatestQueued
      <3> QED  BY <1>1, <3>3, <3>4
    <2> QED  BY <2>1, <2>2
  <1>8. Latest(r, c) = [Latest(q, c) EXCEPT ![Section[d.req]] = d.body]
    <2>1. Latest(r, c) = [s \in Sections |-> Latest(r, c)[s]]
      BY LatestFunction
    <2>2. Latest(q, c) = [s \in Sections |-> Latest(q, c)[s]]
      BY LatestFunction
    <2> QED  BY <1>2, <1>6, <1>7, <2>1, <2>2
  <1> QED  BY <1>5, <1>8 DEF r

(* Applying the head of the queue changes nothing of what is latched.      *)
LEMMA ApplyKeepsLatched ==
    ASSUME NEW q \in Seq(Commands), q # <<>>, HasLasts(q), NEW c, DOMAIN c = Sections
    PROVE  /\ HasLasts(Tail(q))
           /\ Latest(Tail(q), [c EXCEPT ![Section[Head(q).req]] = Head(q).body])
                = Latest(q, c)
  <1> DEFINE t == Tail(q)
             d == Head(q)
             e == [c EXCEPT ![Section[d.req]] = d.body]
  <1> USE ControllerConfigAssumption
  <1>1. /\ t \in Seq(Commands) /\ Len(t) = Len(q) - 1 /\ Len(q) \in Nat \ {0}
        /\ \A i \in 1..Len(t) : t[i] = q[i + 1]
        /\ d = q[1] /\ d \in Commands
    OBVIOUS
  <1>0. DOMAIN e = Sections /\ e[Section[d.req]] = d.body
        /\ \A s \in Sections : s # Section[d.req] => e[s] = c[s]
    BY <1>1 DEF Commands
  <1> HIDE DEF t, d, e
  <1>9. ASSUME NEW s \in Sections, NEW j
        PROVE  j \in Queued(t, s) <=> j \in 1..Len(t) /\ j + 1 \in Queued(q, s)
    <2>1. j \in 1..Len(t) => j + 1 \in 1..Len(q) /\ t[j] = q[j + 1]
      BY <1>1
    <2> QED  BY <2>1 DEF Queued
  <1>2. ASSUME NEW s \in Sections, NEW i \in Nat, IsLast(q, s, i), i # 1
        PROVE  IsLast(t, s, i - 1) /\ t[i - 1] = q[i]
    <2>1. i \in Queued(q, s) /\ i - 1 \in 1..Len(t) /\ (i - 1) + 1 = i
      BY <1>1, <1>2 DEF IsLast, Queued
    <2>2. i - 1 \in Queued(t, s) /\ t[i - 1] = q[i]
      BY <1>1, <1>9, <2>1
    <2>3. ASSUME NEW j \in Queued(t, s) PROVE j <= i - 1
      <3>1. j \in 1..Len(t) /\ j + 1 \in Queued(q, s)
        BY <1>9
      <3>2. j + 1 <= i
        BY <1>2, <3>1 DEF IsLast
      <3> QED  BY <1>1, <3>1, <3>2
    <2> QED  BY <2>2, <2>3 DEF IsLast
  <1>3. ASSUME NEW s \in Sections, Queued(q, s) = {} \/ IsLast(q, s, 1)
        PROVE  Queued(t, s) = {}
    <2> SUFFICES ASSUME NEW j \in Queued(t, s) PROVE FALSE
      OBVIOUS
    <2>1. j \in 1..Len(t) /\ j + 1 \in Queued(q, s)
      BY <1>9
    <2>2. j + 1 <= 1
      BY <1>3, <2>1 DEF IsLast
    <2> QED  BY <1>1, <2>1, <2>2
  <1>4. HasLasts(t)
    <2> SUFFICES ASSUME NEW s \in Sections, Queued(t, s) # {}
                 PROVE  \E i \in Nat : IsLast(t, s, i)
      BY DEF HasLasts
    <2>1. PICK i \in Nat : IsLast(q, s, i) /\ i # 1
      BY <1>3 DEF HasLasts
    <2>2. i - 1 \in Nat
      BY <2>1 DEF IsLast, Queued
    <2> QED  BY <1>2, <2>1, <2>2
  <1>5. ASSUME NEW s \in Sections PROVE Latest(t, e)[s] = Latest(q, c)[s]
    <2>1. CASE Queued(q, s) = {}
      <3>1. s # Section[d.req]
        BY <1>1, <2>1 DEF Queued
      <3>2. e[s] = c[s]
        BY <1>0, <3>1
      <3> QED  BY <1>3, <2>1, <3>2, LatestRunning
    <2>2. CASE IsLast(q, s, 1)
      <3>1. s = Section[d.req]
        BY <1>1, <2>2 DEF IsLast, Queued
      <3>2. e[s] = d.body
        BY <1>0, <3>1
      <3>3. Latest(t, e)[s] = d.body
        BY <1>3, <2>2, <3>2, LatestRunning
      <3>4. Latest(q, c)[s] = q[1].body
        BY <2>2, LatestQueued
      <3> QED  BY <1>1, <3>3, <3>4
    <2>3. ASSUME NEW i \in Nat, IsLast(q, s, i), i # 1
          PROVE  Latest(t, e)[s] = Latest(q, c)[s]
      <3>1. IsLast(t, s, i - 1) /\ t[i - 1] = q[i]
        BY <1>2, <2>3
      <3>2. Latest(t, e)[s] = t[i - 1].body
        BY <1>1, <3>1, LatestQueued
      <3>3. Latest(q, c)[s] = q[i].body
        BY <2>3, LatestQueued
      <3> QED  BY <3>1, <3>2, <3>3
    <2> QED  BY <2>1, <2>2, <2>3 DEF HasLasts
  <1>6. Latest(t, e) = Latest(q, c)
    BY <1>5, LatestFunction
  <1> QED  BY <1>4, <1>6 DEF t, d, e

-----------------------------------------------------------------------------
(* The invariant of the refinement.                                        *)
LInv == IInv /\ HasLasts(queue)

LEMMA LInvInit == Init => LInv
  BY IInvInit DEF Init, LInv, HasLasts, Queued

(* What each step does to the latched configuration.                       *)
LEMMA SendStep ==
    ASSUME LInv, NEW r \in Requests, Send(r)
    PROVE  /\ HasLasts(queue')
           /\ Latched' = [Latched EXCEPT ![Section[r]] = candidate[r]]
           /\ candidate[r] \in Valid
  <1> DEFINE d == [req |-> r, body |-> candidate[r]]
  <1>1. d \in Commands /\ d.req = r /\ d.body = candidate[r] /\ candidate[r] \in Valid
    BY DEF LInv, IInv, TypeOK, Send, Commands
  <1>2. queue' = Append(queue, d) /\ config' = config /\ queue \in Seq(Commands)
    BY DEF LInv, IInv, TypeOK, Send, loop
  <1> HIDE DEF d
  <1>3. /\ HasLasts(Append(queue, d))
        /\ Latest(Append(queue, d), config) = [Latest(queue, config) EXCEPT ![Section[d.req]] = d.body]
    BY <1>1, <1>2, SendLatches DEF LInv
  <1> QED  BY <1>1, <1>2, <1>3 DEF Latched

LEMMA ApplyStep ==
    ASSUME LInv, ApplyHead
    PROVE  HasLasts(queue') /\ Latched' = Latched
  <1> DEFINE d == Head(queue)
  <1>1. /\ queue \in Seq(Commands) /\ queue # <<>> /\ queue' = Tail(queue)
        /\ DOMAIN config = Sections
        /\ config' = [config EXCEPT ![Section[d.req]] = d.body]
    BY DEF LInv, IInv, TypeOK, Config, ApplyHead, Applied
  <1> QED  BY <1>1, ApplyKeepsLatched DEF LInv, Latched

LEMMA LInvStep == LInv /\ [Next]_vars => LInv'
  <1> SUFFICES ASSUME LInv, [Next]_vars PROVE HasLasts(queue')
    BY IInvStep DEF LInv
  <1>1. ASSUME NEW r \in Requests, Send(r) PROVE HasLasts(queue')
    BY <1>1, SendStep
  <1>2. CASE ApplyHead
    BY <1>2, ApplyStep
  <1>3. ASSUME queue' = queue PROVE HasLasts(queue')
    BY <1>3 DEF LInv
  <1> QED  BY <1>1, <1>2, <1>3 DEF Next, Tick, Receive, Drain, Validate, Due, StartTick,
                                   EndTick, vars

(* With an empty channel the pipeline's configuration is the latched one.  *)
LEMMA NothingQueued ==
    ASSUME LInv, queue = <<>> PROVE Latched = config
  <1>1. \A s \in Sections : Queued(queue, s) = {}
    BY DEF Queued
  <1>2. config = [s \in Sections |-> config[s]]
    BY DEF LInv, IInv, TypeOK, Config
  <1> QED  BY <1>1, <1>2 DEF Latched, Latest

LEMMA RefineInit == Init => Promise!Init
  <1> SUFFICES ASSUME Init PROVE Promise!Init
    OBVIOUS
  <1>1. Latched = config
    BY LInvInit, NothingQueued DEF Init
  <1> QED  BY <1>1 DEF Init, Promise!Init

LEMMA RefineStep == LInv /\ [Next]_vars => [Promise!Next]_Promise!vars
  <1> SUFFICES ASSUME LInv, [Next]_vars PROVE [Promise!Next]_Promise!vars
    OBVIOUS
  <1> USE DEF Promise!vars
  <1>1. CASE UNCHANGED vars
    BY <1>1 DEF vars, loop, Latched
  <1>2. ASSUME NEW r \in Requests, Validate(r) PROVE UNCHANGED Promise!vars
    BY <1>2 DEF Validate, loop, Latched
  <1>3. ASSUME NEW r \in Requests, Send(r) PROVE Promise!Accept
    <2>1. Section[r] \in Sections
      BY ControllerConfigAssumption
    <2> QED  BY <1>3, <2>1, SendStep DEF Promise!Accept, Send, loop
  <1>4. CASE (Receive \/ Drain)
    <2>1. phase' # "tick" /\ phase # "tick" /\ view' = view /\ Latched' = Latched
      BY <1>4, ApplyStep DEF Receive, Drain, ApplyHead
    <2> QED  BY <2>1
  <1>5. CASE Due
    BY <1>5 DEF Due, Latched
  <1>6. CASE StartTick
    <2>1. Latched = config
      BY <1>6, NothingQueued DEF StartTick
    <2> QED  BY <1>6, <2>1 DEF StartTick, Latched, Promise!Next, Promise!Take
  <1>7. CASE EndTick
    BY <1>7 DEF EndTick, Latched, Promise!Next, Promise!Publish
  <1> QED  BY <1>1, <1>2, <1>3, <1>4, <1>5, <1>6, <1>7 DEF Next, Tick, Promise!Next

(* Writes are latched to tick boundaries: the handlers, the channel and    *)
(* the loop implement LatchedConfig.                                       *)
THEOREM LatchRefines == Spec => Implements
  <1> QED  BY LInvInit, LInvStep, RefineInit, RefineStep, PTL DEF Spec, Implements, Promise!Spec
=============================================================================
