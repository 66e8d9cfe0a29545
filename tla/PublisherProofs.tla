---------------------------- MODULE PublisherProofs ---------------------------
(***************************************************************************)
(* The publishers.  StandardPublisher, for every number of callers,        *)
(* consumers, items and connections and every queue size; nothing of       *)
(* ZmqTransport is used for it.  ZmqTransport, for every number of         *)
(* callers, consumers, subscribers and items, every way to give the items  *)
(* a kind and every nrfiles: what is proved of standard_publisher carries  *)
(* over, as a step of the ZeroMQ publisher is one of its steps, or closes  *)
(* the socket, or is taken by another process.                             *)
(***************************************************************************)
EXTENDS ZmqTransport, TLAPS

(* A consumer holds an item exactly while it sends it. *)
HandInv ==
  \A c \in Consumers :
    /\ citem[c] # NoItem <=> cpc[c] = "send"
    /\ c \in waiting => cpc[c] = "get"

(* The order in which stop() takes the publisher down. *)
StopInv ==
  /\ running <=> spc = "up"
  /\ shut <=> spc \in {"join", "connections", "down"}
  /\ \A c \in Consumers : cpc[c] = "done" => ~running
  /\ spc \in {"connections", "down"} => \A c \in Consumers : cpc[c] = "done"

BaseInv == TypeOK /\ NoLostWakeup /\ HandInv /\ StopInv

LEMMA InitBase == Init => BaseInv
<1> SUFFICES ASSUME Init PROVE BaseInv
  OBVIOUS
<1> USE PublisherAssumption DEF Init, Q!InitQueue
<1>1. TypeOK
  <2>1. received \in [Connections -> [Items -> Nat]]
    OBVIOUS
  <2>2. conn \in [Consumers -> 1..(NConn + 1)]
    OBVIOUS
  <2>3. queue \in Seq(Items) /\ waiting \subseteq Consumers /\ stopped \in 0..NConn
    OBVIOUS
  <2>4. fate \in [Items -> Fates]
    BY DEF Fates
  <2> QED
    BY <2>1, <2>2, <2>3, <2>4 DEF TypeOK
<1>2. NoLostWakeup
  BY DEF NoLostWakeup, Q!NoLostWakeup
<1>3. HandInv
  BY DEF HandInv
<1>4. StopInv
  BY DEF StopInv
<1> QED
  BY <1>1, <1>2, <1>3, <1>4 DEF BaseInv

(* What a sending consumer holds, and that transmitting it is counted. *)
LEMMA SendTypes ==
  ASSUME TypeOK, HandInv, NEW c \in Consumers, cpc[c] = "send"
  PROVE  citem[c] \in Items /\ conn[c] \in 1..(NConn + 1)
BY DEF TypeOK, HandInv

LEMMA TransmittedType ==
  ASSUME TypeOK, HandInv, NEW c \in Consumers, cpc[c] = "send", conn[c] <= NConn,
         Transmitted(c)
  PROVE  received' \in [Connections -> [Items -> Nat]]
<1> DEFINE k == conn[c]  i == citem[c]
<1>1. k \in Connections /\ i \in Items
  BY SendTypes, PublisherAssumption DEF Connections
<1>2. [received[k] EXCEPT ![i] = @ + 1] \in [Items -> Nat]
  BY <1>1 DEF TypeOK
<1>3. received' = [received EXCEPT ![k] = [received[k] EXCEPT ![i] = @ + 1]]
  BY DEF Transmitted
<1> HIDE DEF k, i
<1> QED
  BY <1>1, <1>2, <1>3 DEF TypeOK

LEMMA NextTypeOK == BaseInv /\ [Next]_vars => TypeOK'
<1> SUFFICES ASSUME BaseInv, [Next]_vars PROVE TypeOK'
  OBVIOUS
<1> USE PublisherAssumption DEF BaseInv, TypeOK, HandInv, Connections, Fates
<1>1. ASSUME NEW p \in Callers, NEW i \in Items, Refuse(p, i) PROVE TypeOK'
  BY <1>1 DEF Refuse, queueVars, callerVars, consumerVars, stopVars, stats
<1>2. ASSUME NEW p \in Callers, NEW i \in Items, Begin(p, i) PROVE TypeOK'
  BY <1>2 DEF Begin, queueVars, callerVars, consumerVars, stopVars, stats
<1>3. ASSUME NEW p \in Callers, GiveUp(p) PROVE TypeOK'
  BY <1>3 DEF GiveUp, queueVars, callerVars, consumerVars, stopVars, stats
<1>4. ASSUME NEW p \in Callers, Enqueue(p) PROVE TypeOK'
  <2>1. caller[p] \in Items /\ caller' \in [Callers -> Items \cup {NoItem}]
    BY <1>4 DEF Enqueue
  <2>2. UNCHANGED <<consumerVars, stopVars, received>>
    BY <1>4 DEF Enqueue
  <2>3. CASE Q!Put(caller[p]) /\ fate' = [fate EXCEPT ![caller[p]] = "queued"]
             /\ UNCHANGED stats
    <3>1. Append(queue, caller[p]) \in Seq(Items)
      BY <2>1
    <3> QED
      BY <2>1, <2>2, <2>3, <3>1 DEF Q!Put, Q!NotifyAll, consumerVars, stopVars, stats
  <2>4. CASE Q!PutFull /\ fate' = [fate EXCEPT ![caller[p]] = "full"]
             /\ statError' = [statError EXCEPT ![caller[p]] = @ + 1] /\ UNCHANGED statOk
    <3>1. statError' \in [Items -> Nat] /\ fate' \in [Items -> Fates]
      BY <2>1, <2>4
    <3>2. UNCHANGED <<queue, shut>> /\ waiting' = {}
      BY <2>4 DEF Q!PutFull, Q!NotifyAll
    <3> QED
      BY <2>1, <2>2, <2>4, <3>1, <3>2 DEF consumerVars, stopVars
  <2>5. CASE Q!PutIgnored /\ fate' = [fate EXCEPT ![caller[p]] = "ignored"]
             /\ UNCHANGED stats
    BY <2>1, <2>2, <2>5 DEF Q!PutIgnored, Q!NotifyAll, consumerVars, stopVars, stats
  <2> QED
    BY <1>4, <2>3, <2>4, <2>5 DEF Enqueue
<1>5. ASSUME NEW c \in Consumers, Test(c) PROVE TypeOK'
  BY <1>5 DEF Test, queueVars, callerVars, consumerVars, stopVars, stats
<1>6. ASSUME NEW c \in Consumers, Take(c) PROVE TypeOK'
  <2>1. Head(queue) \in Items /\ Tail(queue) \in Seq(Items)
    BY <1>6 DEF Take, Q!Get
  <2>2. queue' = Tail(queue) /\ UNCHANGED <<shut, waiting>>
    BY <1>6 DEF Take, Q!Get
  <2>3. /\ fate' \in [Items -> Fates]
        /\ citem' \in [Consumers -> Items \cup {NoItem}]
        /\ conn' \in [Consumers -> 1..(NConn + 1)]
    BY <1>6, <2>1 DEF Take
  <2> QED
    BY <1>6, <2>1, <2>2, <2>3 DEF Take, callerVars, stopVars, stats
<1>7. ASSUME NEW c \in Consumers, Sleep(c) PROVE TypeOK'
  BY <1>7
  DEF Sleep, queueVars, callerVars, consumerVars, stopVars, stats, Q!Wait
<1>8. ASSUME NEW c \in Consumers, WakeUp(c) PROVE TypeOK'
  BY <1>8
  DEF WakeUp, queueVars, callerVars, consumerVars, stopVars, stats,
      Q!WaitTimesOut
<1>9. ASSUME NEW c \in Consumers, Leave(c) PROVE TypeOK'
  BY <1>9
  DEF Leave, queueVars, callerVars, consumerVars, stopVars, stats,
      Q!GetShutdown, Q!queueVars
<1>10. ASSUME NEW c \in Consumers, SendWorks(c) PROVE TypeOK'
  <2>1. received' \in [Connections -> [Items -> Nat]]
    BY <1>10, TransmittedType DEF SendWorks
  <2>2. conn' \in [Consumers -> 1..(NConn + 1)]
    BY <1>10 DEF SendWorks
  <2> QED
    BY <1>10, <2>1, <2>2 DEF SendWorks, queueVars, callerVars, stopVars, stats
<1>11. ASSUME NEW c \in Consumers, SendFails(c) PROVE TypeOK'
  <2>1. received' \in [Connections -> [Items -> Nat]]
    BY <1>11, TransmittedType DEF SendFails
  <2>2. citem[c] \in Items
    BY <1>11 DEF SendFails
  <2>3. /\ statError' \in [Items -> Nat]
        /\ fate' \in [Items -> Fates]
    BY <1>11, <2>2 DEF SendFails, Finish
  <2>4. conn' \in [Consumers -> 1..(NConn + 1)]
    BY <1>11 DEF SendFails, Finish
  <2> QED
    BY <1>11, <2>1, <2>3, <2>4
    DEF SendFails, Finish, queueVars, callerVars, stopVars
<1>12. ASSUME NEW c \in Consumers, SendDone(c) PROVE TypeOK'
  BY <1>12
  DEF SendDone, queueVars, callerVars, consumerVars, stopVars, stats, Finish
<1>13. CASE StopRunning
  BY <1>13
  DEF StopRunning, queueVars, callerVars, consumerVars, stopVars, stats
<1>14. CASE StopQueue
  BY <1>14
  DEF StopQueue, queueVars, callerVars, consumerVars, stopVars, stats,
      Q!Shutdown, Q!NotifyAll
<1>15. CASE StopJoin
  BY <1>15 DEF StopJoin, queueVars, callerVars, consumerVars, stopVars, stats
<1>16. CASE StopConnection
  BY <1>16 DEF StopConnection, queueVars, callerVars, consumerVars, stats
<1>17. CASE StopReturns
  BY <1>17
  DEF StopReturns, queueVars, callerVars, consumerVars, stopVars, stats
<1>18. CASE UNCHANGED vars
  BY <1>18 DEF vars
<1> QED
  BY <1>1, <1>2, <1>3, <1>4, <1>5, <1>6, <1>7, <1>8, <1>9, <1>10, <1>11, <1>12, <1>13, <1>14, <1>15, <1>16, <1>17, <1>18
  DEF Next, Publish, Consume, Stop

LEMMA NextNoLostWakeup == BaseInv /\ [Next]_vars => NoLostWakeup'
<1> SUFFICES ASSUME BaseInv, [Next]_vars PROVE NoLostWakeup'
  OBVIOUS
<1> USE PublisherAssumption DEF BaseInv, TypeOK, NoLostWakeup, Q!NoLostWakeup
<1>1. ASSUME NEW p \in Callers, NEW i \in Items, Refuse(p, i) PROVE NoLostWakeup'
  BY <1>1 DEF Refuse, queueVars, callerVars, consumerVars, stopVars, stats
<1>2. ASSUME NEW p \in Callers, NEW i \in Items, Begin(p, i) PROVE NoLostWakeup'
  BY <1>2 DEF Begin, queueVars, callerVars, consumerVars, stopVars, stats
<1>3. ASSUME NEW p \in Callers, GiveUp(p) PROVE NoLostWakeup'
  BY <1>3 DEF GiveUp, queueVars, callerVars, consumerVars, stopVars, stats
<1>4. ASSUME NEW p \in Callers, Enqueue(p) PROVE NoLostWakeup'
  BY <1>4
  DEF Enqueue, queueVars, callerVars, consumerVars, stopVars, stats, Q!Put,
      Q!PutFull, Q!PutIgnored, Q!NotifyAll
<1>5. ASSUME NEW c \in Consumers, Test(c) PROVE NoLostWakeup'
  BY <1>5 DEF Test, queueVars, callerVars, consumerVars, stopVars, stats
<1>6. ASSUME NEW c \in Consumers, Take(c) PROVE NoLostWakeup'
  BY <1>6
  DEF Take, queueVars, callerVars, consumerVars, stopVars, stats, Q!Get
<1>7. ASSUME NEW c \in Consumers, Sleep(c) PROVE NoLostWakeup'
  BY <1>7
  DEF Sleep, queueVars, callerVars, consumerVars, stopVars, stats, Q!Wait
<1>8. ASSUME NEW c \in Consumers, WakeUp(c) PROVE NoLostWakeup'
  BY <1>8
  DEF WakeUp, queueVars, callerVars, consumerVars, stopVars, stats,
      Q!WaitTimesOut
<1>9. ASSUME NEW c \in Consumers, Leave(c) PROVE NoLostWakeup'
  BY <1>9
  DEF Leave, queueVars, callerVars, consumerVars, stopVars, stats,
      Q!GetShutdown, Q!queueVars
<1>10. ASSUME NEW c \in Consumers, SendWorks(c) PROVE NoLostWakeup'
  BY <1>10
  DEF SendWorks, queueVars, callerVars, consumerVars, stopVars, stats,
      Transmitted
<1>11. ASSUME NEW c \in Consumers, SendFails(c) PROVE NoLostWakeup'
  BY <1>11
  DEF SendFails, queueVars, callerVars, consumerVars, stopVars, stats,
      Transmitted, Finish
<1>12. ASSUME NEW c \in Consumers, SendDone(c) PROVE NoLostWakeup'
  BY <1>12
  DEF SendDone, queueVars, callerVars, consumerVars, stopVars, stats, Finish
<1>13. CASE StopRunning
  BY <1>13
  DEF StopRunning, queueVars, callerVars, consumerVars, stopVars, stats
<1>14. CASE StopQueue
  BY <1>14
  DEF StopQueue, queueVars, callerVars, consumerVars, stopVars, stats,
      Q!Shutdown, Q!NotifyAll
<1>15. CASE StopJoin
  BY <1>15 DEF StopJoin, queueVars, callerVars, consumerVars, stopVars, stats
<1>16. CASE StopConnection
  BY <1>16
  DEF StopConnection, queueVars, callerVars, consumerVars, stopVars, stats
<1>17. CASE StopReturns
  BY <1>17
  DEF StopReturns, queueVars, callerVars, consumerVars, stopVars, stats
<1>18. CASE UNCHANGED vars
  BY <1>18 DEF vars
<1> QED
  BY <1>1, <1>2, <1>3, <1>4, <1>5, <1>6, <1>7, <1>8, <1>9, <1>10, <1>11, <1>12, <1>13, <1>14, <1>15, <1>16, <1>17, <1>18
  DEF Next, Publish, Consume, Stop

LEMMA NextHandInv == BaseInv /\ [Next]_vars => HandInv'
<1> SUFFICES ASSUME BaseInv, [Next]_vars PROVE HandInv'
  OBVIOUS
<1> USE PublisherAssumption
  DEF BaseInv, TypeOK, HandInv, NoLostWakeup, Q!NoLostWakeup
<1>1. ASSUME NEW p \in Callers, NEW i \in Items, Refuse(p, i) PROVE HandInv'
  BY <1>1 DEF Refuse, queueVars, callerVars, consumerVars, stopVars, stats
<1>2. ASSUME NEW p \in Callers, NEW i \in Items, Begin(p, i) PROVE HandInv'
  BY <1>2 DEF Begin, queueVars, callerVars, consumerVars, stopVars, stats
<1>3. ASSUME NEW p \in Callers, GiveUp(p) PROVE HandInv'
  BY <1>3 DEF GiveUp, queueVars, callerVars, consumerVars, stopVars, stats
<1>4. ASSUME NEW p \in Callers, Enqueue(p) PROVE HandInv'
  BY <1>4
  DEF Enqueue, queueVars, callerVars, consumerVars, stopVars, stats, Q!Put,
      Q!PutFull, Q!PutIgnored, Q!NotifyAll
<1>5. ASSUME NEW c \in Consumers, Test(c) PROVE HandInv'
  BY <1>5 DEF Test, queueVars, callerVars, consumerVars, stopVars, stats
<1>6. ASSUME NEW c \in Consumers, Take(c) PROVE HandInv'
  BY <1>6
  DEF Take, queueVars, callerVars, consumerVars, stopVars, stats, Q!Get
<1>7. ASSUME NEW c \in Consumers, Sleep(c) PROVE HandInv'
  BY <1>7
  DEF Sleep, queueVars, callerVars, consumerVars, stopVars, stats, Q!Wait
<1>8. ASSUME NEW c \in Consumers, WakeUp(c) PROVE HandInv'
  BY <1>8
  DEF WakeUp, queueVars, callerVars, consumerVars, stopVars, stats,
      Q!WaitTimesOut
<1>9. ASSUME NEW c \in Consumers, Leave(c) PROVE HandInv'
  BY <1>9
  DEF Leave, queueVars, callerVars, consumerVars, stopVars, stats,
      Q!GetShutdown, Q!queueVars
<1>10. ASSUME NEW c \in Consumers, SendWorks(c) PROVE HandInv'
  BY <1>10
  DEF SendWorks, queueVars, callerVars, consumerVars, stopVars, stats,
      Transmitted
<1>11. ASSUME NEW c \in Consumers, SendFails(c) PROVE HandInv'
  BY <1>11
  DEF SendFails, queueVars, callerVars, consumerVars, stopVars, stats,
      Transmitted, Finish
<1>12. ASSUME NEW c \in Consumers, SendDone(c) PROVE HandInv'
  BY <1>12
  DEF SendDone, queueVars, callerVars, consumerVars, stopVars, stats, Finish
<1>13. CASE StopRunning
  BY <1>13
  DEF StopRunning, queueVars, callerVars, consumerVars, stopVars, stats
<1>14. CASE StopQueue
  BY <1>14
  DEF StopQueue, queueVars, callerVars, consumerVars, stopVars, stats,
      Q!Shutdown, Q!NotifyAll
<1>15. CASE StopJoin
  BY <1>15 DEF StopJoin, queueVars, callerVars, consumerVars, stopVars, stats
<1>16. CASE StopConnection
  BY <1>16
  DEF StopConnection, queueVars, callerVars, consumerVars, stopVars, stats
<1>17. CASE StopReturns
  BY <1>17
  DEF StopReturns, queueVars, callerVars, consumerVars, stopVars, stats
<1>18. CASE UNCHANGED vars
  BY <1>18 DEF vars
<1> QED
  BY <1>1, <1>2, <1>3, <1>4, <1>5, <1>6, <1>7, <1>8, <1>9, <1>10, <1>11, <1>12, <1>13, <1>14, <1>15, <1>16, <1>17, <1>18
  DEF Next, Publish, Consume, Stop

LEMMA NextStopInv == BaseInv /\ [Next]_vars => StopInv'
<1> SUFFICES ASSUME BaseInv, [Next]_vars PROVE StopInv'
  OBVIOUS
<1> USE PublisherAssumption DEF BaseInv, TypeOK, StopInv
<1>1. ASSUME NEW p \in Callers, NEW i \in Items, Refuse(p, i) PROVE StopInv'
  BY <1>1 DEF Refuse, queueVars, callerVars, consumerVars, stopVars, stats
<1>2. ASSUME NEW p \in Callers, NEW i \in Items, Begin(p, i) PROVE StopInv'
  BY <1>2 DEF Begin, queueVars, callerVars, consumerVars, stopVars, stats
<1>3. ASSUME NEW p \in Callers, GiveUp(p) PROVE StopInv'
  BY <1>3 DEF GiveUp, queueVars, callerVars, consumerVars, stopVars, stats
<1>4. ASSUME NEW p \in Callers, Enqueue(p) PROVE StopInv'
  BY <1>4
  DEF Enqueue, queueVars, callerVars, consumerVars, stopVars, stats, Q!Put,
      Q!PutFull, Q!PutIgnored, Q!NotifyAll
<1>5. ASSUME NEW c \in Consumers, Test(c) PROVE StopInv'
  BY <1>5 DEF Test, queueVars, callerVars, consumerVars, stopVars, stats
<1>6. ASSUME NEW c \in Consumers, Take(c) PROVE StopInv'
  BY <1>6
  DEF Take, queueVars, callerVars, consumerVars, stopVars, stats, Q!Get
<1>7. ASSUME NEW c \in Consumers, Sleep(c) PROVE StopInv'
  BY <1>7
  DEF Sleep, queueVars, callerVars, consumerVars, stopVars, stats, Q!Wait
<1>8. ASSUME NEW c \in Consumers, WakeUp(c) PROVE StopInv'
  BY <1>8
  DEF WakeUp, queueVars, callerVars, consumerVars, stopVars, stats,
      Q!WaitTimesOut
<1>9. ASSUME NEW c \in Consumers, Leave(c) PROVE StopInv'
  BY <1>9
  DEF Leave, queueVars, callerVars, consumerVars, stopVars, stats,
      Q!GetShutdown, Q!queueVars
<1>10. ASSUME NEW c \in Consumers, SendWorks(c) PROVE StopInv'
  BY <1>10
  DEF SendWorks, queueVars, callerVars, consumerVars, stopVars, stats,
      Transmitted
<1>11. ASSUME NEW c \in Consumers, SendFails(c) PROVE StopInv'
  BY <1>11
  DEF SendFails, queueVars, callerVars, consumerVars, stopVars, stats,
      Transmitted, Finish
<1>12. ASSUME NEW c \in Consumers, SendDone(c) PROVE StopInv'
  BY <1>12
  DEF SendDone, queueVars, callerVars, consumerVars, stopVars, stats, Finish
<1>13. CASE StopRunning
  BY <1>13
  DEF StopRunning, queueVars, callerVars, consumerVars, stopVars, stats
<1>14. CASE StopQueue
  BY <1>14
  DEF StopQueue, queueVars, callerVars, consumerVars, stopVars, stats,
      Q!Shutdown, Q!NotifyAll
<1>15. CASE StopJoin
  BY <1>15 DEF StopJoin, queueVars, callerVars, consumerVars, stopVars, stats
<1>16. CASE StopConnection
  BY <1>16
  DEF StopConnection, queueVars, callerVars, consumerVars, stopVars, stats
<1>17. CASE StopReturns
  BY <1>17
  DEF StopReturns, queueVars, callerVars, consumerVars, stopVars, stats
<1>18. CASE UNCHANGED vars
  BY <1>18 DEF vars
<1> QED
  BY <1>1, <1>2, <1>3, <1>4, <1>5, <1>6, <1>7, <1>8, <1>9, <1>10, <1>11, <1>12, <1>13, <1>14, <1>15, <1>16, <1>17, <1>18
  DEF Next, Publish, Consume, Stop

LEMMA NextBase == BaseInv /\ [Next]_vars => BaseInv'
BY NextTypeOK, NextNoLostWakeup, NextHandInv, NextStopInv DEF BaseInv

LEMMA BaseInvariance == Spec => []BaseInv
BY InitBase, NextBase, PTL DEF Spec

----------------------------------------------------------------------------
(* Every item in one place *)

LEMMA AppendPlaces ==
  ASSUME NEW s \in Seq(Items), NEW x \in Items
  PROVE  /\ Len(Append(s, x)) = Len(s) + 1
         /\ Append(s, x)[Len(s) + 1] = x
         /\ \A a \in 1..Len(s) : Append(s, x)[a] = s[a]
OBVIOUS

LEMMA TailPlaces ==
  ASSUME NEW s \in Seq(Items), s # <<>>
  PROVE  /\ Len(s) \in Nat /\ Len(s) >= 1
         /\ Head(s) = s[1]
         /\ Len(Tail(s)) = Len(s) - 1
         /\ \A a \in 1..(Len(s) - 1) : Tail(s)[a] = s[a + 1]
OBVIOUS

(* The queue part and the two hand parts of EveryItemInOnePlace. *)
QueueOnce == \A a, b \in 1..Len(queue) : queue[a] = queue[b] => a = b
CallerOnce == \A p, q \in Callers : caller[p] = caller[q] /\ caller[p] # NoItem => p = q
ConsumerOnce == \A c, d \in Consumers : citem[c] = citem[d] /\ citem[c] # NoItem => c = d
FateQueued == \A i \in Items : fate[i] = "queued" <=> InQueue(i)
FateHeld == \A i \in Items : fate[i] = "held" <=> \E p \in Callers : caller[p] = i
FateSending == \A i \in Items : fate[i] = "sending" <=> \E c \in Consumers : citem[c] = i

PlaceInv ==
  QueueOnce /\ CallerOnce /\ ConsumerOnce /\ FateQueued /\ FateHeld /\ FateSending

LEMMA PlaceInvIsEveryItemInOnePlace == PlaceInv <=> EveryItemInOnePlace
BY DEF PlaceInv, EveryItemInOnePlace, QueueOnce, CallerOnce, ConsumerOnce, FateQueued,
       FateHeld, FateSending

(* Steps that move no item. *)
LEMMA PlaceUnmoved ==
  ASSUME PlaceInv, UNCHANGED <<queue, caller, citem>>, UNCHANGED fate
  PROVE  PlaceInv'
BY DEF PlaceInv, QueueOnce, CallerOnce, ConsumerOnce, FateQueued, FateHeld, FateSending,
       InQueue

LEMMA RefusePlace ==
  ASSUME BaseInv, PlaceInv, NEW p \in Callers, NEW i \in Items, Refuse(p, i)
  PROVE  PlaceInv'
BY DEF BaseInv, TypeOK, PlaceInv, QueueOnce, CallerOnce, ConsumerOnce, FateQueued, FateHeld,
       FateSending, InQueue, Refuse, queueVars, callerVars, consumerVars

LEMMA BeginPlace ==
  ASSUME BaseInv, PlaceInv, NEW p \in Callers, NEW i \in Items, Begin(p, i)
  PROVE  PlaceInv'
<1> USE DEF BaseInv, TypeOK, PlaceInv, Begin, queueVars, consumerVars
<1>1. QueueOnce' /\ ConsumerOnce'
  BY DEF QueueOnce, ConsumerOnce
<1>2. CallerOnce'
  BY ZenonT(40) DEF CallerOnce, FateHeld
<1>3. FateQueued' /\ FateSending'
  BY SMTT(30) DEF FateQueued, FateSending, InQueue
<1>4. FateHeld'
  BY PublisherAssumption DEF FateHeld
<1> QED
  BY <1>1, <1>2, <1>3, <1>4

(* A caller lets go of its item, which gets a fate that is no place. *)
LEMMA GiveUpPlace ==
  ASSUME BaseInv, PlaceInv, NEW p \in Callers, caller[p] # NoItem,
         NEW f \in Fates \ {"held", "queued", "sending"},
         caller' = [caller EXCEPT ![p] = NoItem],
         fate' = [fate EXCEPT ![caller[p]] = f],
         UNCHANGED queue, UNCHANGED citem
  PROVE  PlaceInv'
<1> USE DEF BaseInv, TypeOK, PlaceInv
<1>0. caller[p] \in Items /\ fate[caller[p]] = "held"
  BY DEF FateHeld
<1>1. QueueOnce' /\ ConsumerOnce'
  BY DEF QueueOnce, ConsumerOnce
<1>2. CallerOnce'
  BY DEF CallerOnce
<1>3. FateQueued' /\ FateSending'
  BY <1>0 DEF FateQueued, FateSending, InQueue
<1>4. FateHeld'
  BY <1>0, PublisherAssumption DEF FateHeld, CallerOnce
<1> QED
  BY <1>1, <1>2, <1>3, <1>4

LEMMA PutPlace ==
  ASSUME BaseInv, PlaceInv, NEW p \in Callers, caller[p] # NoItem,
         queue' = Append(queue, caller[p]),
         caller' = [caller EXCEPT ![p] = NoItem],
         fate' = [fate EXCEPT ![caller[p]] = "queued"],
         UNCHANGED citem
  PROVE  PlaceInv'
<1> USE DEF BaseInv, TypeOK, PlaceInv
<1> DEFINE x == caller[p]
<1>0. x \in Items /\ fate[x] = "held" /\ ~InQueue(x)
  BY DEF FateHeld, FateQueued
<1>1. /\ Len(queue') = Len(queue) + 1
      /\ queue'[Len(queue) + 1] = x
      /\ \A a \in 1..Len(queue) : queue'[a] = queue[a]
  BY <1>0, AppendPlaces
<1>2. QueueOnce'
  <2> SUFFICES ASSUME NEW a \in 1..Len(queue'), NEW b \in 1..Len(queue'),
                      queue'[a] = queue'[b]
               PROVE  a = b
    BY DEF QueueOnce
  <2>1. CASE a \in 1..Len(queue) /\ b \in 1..Len(queue)
    BY <1>1, <2>1 DEF QueueOnce
  <2>2. CASE a = Len(queue) + 1 /\ b \in 1..Len(queue)
    BY <1>0, <1>1, <2>2 DEF InQueue
  <2>3. CASE a \in 1..Len(queue) /\ b = Len(queue) + 1
    BY <1>0, <1>1, <2>3 DEF InQueue
  <2> QED
    BY <1>1, <2>1, <2>2, <2>3
<1>3. \A i \in Items : InQueue(i)' <=> InQueue(i) \/ i = x
  <2> TAKE i \in Items
  <2>1. InQueue(i) => InQueue(i)'
    BY <1>1 DEF InQueue
  <2>2. ASSUME i = x PROVE \E a \in 1..Len(queue') : queue'[a] = i
    <3>1. Len(queue) \in Nat /\ Len(queue) + 1 \in 1..Len(queue')
      BY <1>1
    <3> QED
      BY <1>1, <2>2, <3>1
  <2>3. ASSUME NEW a \in 1..Len(queue'), queue'[a] = i PROVE InQueue(i) \/ i = x
    <3>1. Len(queue) \in Nat
      OBVIOUS
    <3>2. CASE a = Len(queue) + 1
      BY <1>1, <2>3, <3>2
    <3>3. CASE a # Len(queue) + 1
      <4>1. a \in 1..Len(queue)
        BY <1>1, <3>1, <3>3
      <4> QED
        BY <1>1, <2>3, <4>1 DEF InQueue
    <3> QED
      BY <3>2, <3>3
  <2> QED
    BY <2>1, <2>2, <2>3 DEF InQueue
<1>4. FateQueued'
  BY <1>0, <1>3 DEF FateQueued
<1>5. CallerOnce' /\ ConsumerOnce' /\ FateSending'
  BY <1>0 DEF CallerOnce, ConsumerOnce, FateSending
<1>6. FateHeld'
  BY <1>0, PublisherAssumption DEF FateHeld, CallerOnce
<1> QED
  BY <1>2, <1>4, <1>5, <1>6

LEMMA TakePlace ==
  ASSUME BaseInv, PlaceInv, NEW c \in Consumers, citem[c] = NoItem, queue # <<>>,
         queue' = Tail(queue),
         citem' = [citem EXCEPT ![c] = Head(queue)],
         fate' = [fate EXCEPT ![Head(queue)] = "sending"],
         UNCHANGED caller
  PROVE  PlaceInv'
<1> USE DEF BaseInv, TypeOK, PlaceInv
<1> DEFINE x == Head(queue)
<1>1. /\ Len(queue) \in Nat /\ Len(queue) >= 1
      /\ x = queue[1]
      /\ Len(queue') = Len(queue) - 1
      /\ \A a \in 1..(Len(queue) - 1) : queue'[a] = queue[a + 1]
  BY TailPlaces
<1>2. x \in Items /\ InQueue(x) /\ fate[x] = "queued"
  BY <1>1 DEF FateQueued, InQueue
<1>3. QueueOnce'
  BY <1>1 DEF QueueOnce
<1>4. \A i \in Items : InQueue(i)' <=> InQueue(i) /\ i # x
  <2> TAKE i \in Items
  <2>1. InQueue(i)' => InQueue(i) /\ i # x
    <3> SUFFICES ASSUME NEW a \in 1..Len(queue'), queue'[a] = i
                 PROVE  InQueue(i) /\ i # x
      BY DEF InQueue
    <3>1. a + 1 \in 1..Len(queue) /\ queue[a + 1] = i
      BY <1>1
    <3> QED
      BY <1>1, <3>1 DEF InQueue, QueueOnce
  <2>2. InQueue(i) /\ i # x => InQueue(i)'
    <3> SUFFICES ASSUME NEW a \in 1..Len(queue), queue[a] = i, i # x
                 PROVE  \E b \in 1..Len(queue') : queue'[b] = i
      BY DEF InQueue
    <3>1. a - 1 \in 1..Len(queue') /\ queue'[a - 1] = i
      BY <1>1
    <3> QED
      BY <3>1
  <2> QED
    BY <2>1, <2>2
<1>5. FateQueued'
  BY <1>2, <1>4 DEF FateQueued
<1>6. CallerOnce' /\ FateHeld'
  BY <1>2 DEF CallerOnce, FateHeld
<1>7. \A d \in Consumers : citem[d] # x
  BY <1>2 DEF FateSending
<1>8. ConsumerOnce'
  BY <1>7 DEF ConsumerOnce
<1>9. FateSending'
  BY <1>2, <1>7, PublisherAssumption DEF FateSending
<1> QED
  BY <1>3, <1>5, <1>6, <1>8, <1>9

(* A consumer is done with its item. *)
LEMMA FinishPlace ==
  ASSUME BaseInv, PlaceInv, NEW c \in Consumers, citem[c] # NoItem,
         NEW f \in {"sent", "failed"}, Finish(c, f),
         UNCHANGED queue, UNCHANGED caller
  PROVE  PlaceInv'
<1> USE DEF BaseInv, TypeOK, PlaceInv, Finish
<1>0. citem[c] \in Items /\ fate[citem[c]] = "sending"
  BY DEF FateSending
<1>1. QueueOnce' /\ CallerOnce'
  BY DEF QueueOnce, CallerOnce
<1>2. FateQueued' /\ FateHeld'
  BY SMTT(30), <1>0 DEF FateQueued, FateHeld, InQueue
<1>3. ConsumerOnce'
  BY DEF ConsumerOnce
<1>4. FateSending'
  BY <1>0, PublisherAssumption DEF FateSending, ConsumerOnce
<1> QED
  BY <1>1, <1>2, <1>3, <1>4

LEMMA NextPlaceInv == BaseInv /\ PlaceInv /\ [Next]_vars => PlaceInv'
<1> SUFFICES ASSUME BaseInv, PlaceInv, [Next]_vars PROVE PlaceInv'
  OBVIOUS
<1> USE DEF queueVars, callerVars, consumerVars
<1>1. ASSUME NEW p \in Callers, NEW i \in Items, Refuse(p, i) PROVE PlaceInv'
  BY <1>1, RefusePlace
<1>2. ASSUME NEW p \in Callers, NEW i \in Items, Begin(p, i) PROVE PlaceInv'
  BY <1>2, BeginPlace
<1>3. ASSUME NEW p \in Callers, GiveUp(p) PROVE PlaceInv'
  <2>1. PICK f \in {"discarded", "raised"} : fate' = [fate EXCEPT ![caller[p]] = f]
    BY <1>3 DEF GiveUp
  <2> QED
    BY <1>3, <2>1, GiveUpPlace DEF GiveUp, Fates
<1>4. ASSUME NEW p \in Callers, Enqueue(p) PROVE PlaceInv'
  <2>0. /\ caller[p] # NoItem
        /\ caller' = [caller EXCEPT ![p] = NoItem]
        /\ UNCHANGED citem
    BY <1>4 DEF Enqueue
  <2>1. CASE Q!Put(caller[p]) /\ fate' = [fate EXCEPT ![caller[p]] = "queued"]
    BY <2>0, <2>1, PutPlace DEF Q!Put
  <2>2. CASE Q!PutFull /\ fate' = [fate EXCEPT ![caller[p]] = "full"]
    BY <2>0, <2>2, GiveUpPlace DEF Q!PutFull, Fates
  <2>3. CASE Q!PutIgnored /\ fate' = [fate EXCEPT ![caller[p]] = "ignored"]
    BY <2>0, <2>3, GiveUpPlace DEF Q!PutIgnored, Fates
  <2> QED
    BY <1>4, <2>1, <2>2, <2>3 DEF Enqueue
<1>5. ASSUME NEW c \in Consumers, Take(c) PROVE PlaceInv'
  <2>1. citem[c] = NoItem
    BY <1>5 DEF Take, BaseInv, HandInv
  <2> QED
    BY <1>5, <2>1, TakePlace DEF Take, Q!Get
<1>6. ASSUME NEW c \in Consumers, SendFails(c) \/ SendDone(c) PROVE PlaceInv'
  <2>1. citem[c] # NoItem
    BY <1>6 DEF SendFails, SendDone, BaseInv, HandInv
  <2> QED
    BY <1>6, <2>1, FinishPlace DEF SendFails, SendDone
<1>7. ASSUME NEW c \in Consumers,
             Test(c) \/ Sleep(c) \/ WakeUp(c) \/ Leave(c) \/ SendWorks(c)
      PROVE  PlaceInv'
  <2>1. UNCHANGED <<queue, caller, citem>> /\ UNCHANGED fate
    BY <1>7 DEF Test, Sleep, WakeUp, Leave, SendWorks, Q!Wait, Q!WaitTimesOut,
                Q!GetShutdown, Q!queueVars
  <2> QED
    BY <2>1, PlaceUnmoved
<1>8. ASSUME StopRunning \/ StopQueue \/ StopJoin \/ StopConnection \/ StopReturns
      PROVE  PlaceInv'
  <2>1. UNCHANGED <<queue, caller, citem>> /\ UNCHANGED fate
    BY <1>8 DEF StopRunning, StopQueue, StopJoin, StopConnection, StopReturns, Q!Shutdown
  <2> QED
    BY <2>1, PlaceUnmoved
<1>9. CASE UNCHANGED vars
  BY <1>9, PlaceUnmoved DEF vars
<1> QED
  BY <1>1, <1>2, <1>3, <1>4, <1>5, <1>6, <1>7, <1>8, <1>9
  DEF Next, Publish, Consume, Stop

LEMMA InitPlaceInv == Init => PlaceInv
BY PublisherAssumption
DEF Init, Q!InitQueue, PlaceInv, QueueOnce, CallerOnce, ConsumerOnce, FateQueued,
    FateHeld, FateSending, InQueue

LEMMA PlaceInvariance == Spec => [](BaseInv /\ PlaceInv)
BY InitPlaceInv, NextPlaceInv, BaseInvariance, PTL DEF Spec

(* Types of the publisher, for every configuration (standard_publisher). *)
THEOREM PublisherTypes == Spec => []TypeOK
BY BaseInvariance, PTL DEF BaseInv

(* pubQueue never lets a consumer sleep over a queued item or a shutdown,   *)
(* with any number of consumers: the notifications alone are enough.        *)
THEOREM NoWakeupIsLost == Spec => []NoLostWakeup
BY BaseInvariance, PTL DEF BaseInv

(* No interleaving of publishing threads, consumer threads and stop() loses *)
(* an item, duplicates it or gives it to two consumers.                     *)
THEOREM ItemsStayInOnePlace == Spec => []EveryItemInOnePlace
BY PlaceInvariance, PlaceInvIsEveryItemInOnePlace, PTL

(* After the join of stop() the publisher is silent for ever. *)
THEOREM StopHasLastWord == Spec => StopIsFinal
<1>1. BaseInv /\ [Next]_vars
        => [(spc \in {"connections", "down"}) => UNCHANGED <<queue, received, stats, cpc>>]_vars
  <2> SUFFICES ASSUME BaseInv, Next, spc \in {"connections", "down"}
               PROVE  UNCHANGED <<queue, received, stats, cpc>>
    BY DEF vars
  <2>1. shut /\ \A c \in Consumers : cpc[c] = "done"
    BY DEF BaseInv, StopInv
  <2>2. \A c \in Consumers : ~Consume(c)
    BY <2>1 DEF Consume, Test, Take, Sleep, Leave, SendWorks, SendFails, SendDone
  <2>3. ASSUME NEW c \in Consumers, WakeUp(c) PROVE UNCHANGED <<queue, received, stats, cpc>>
    BY <2>3 DEF WakeUp, Q!WaitTimesOut, consumerVars
  <2>4. ASSUME NEW p \in Callers, Publish(p) PROVE UNCHANGED <<queue, received, stats, cpc>>
    <3>1. ASSUME Enqueue(p) PROVE UNCHANGED <<queue, received, stats, cpc>>
      BY <2>1, <3>1 DEF Enqueue, Q!Put, Q!PutFull, Q!PutIgnored, consumerVars
    <3> QED
      BY <2>4, <3>1 DEF Publish, GiveUp, Refuse, Begin, queueVars, consumerVars
  <2>5. ASSUME StopRunning \/ Stop PROVE UNCHANGED <<queue, received, stats, cpc>>
    BY <2>5 DEF StopRunning, Stop, StopQueue, StopJoin, StopConnection, StopReturns,
                Q!Shutdown, queueVars, consumerVars
  <2> QED
    BY <2>2, <2>3, <2>4, <2>5 DEF Next
<1> QED
  BY <1>1, BaseInvariance, PTL DEF Spec, StopIsFinal

----------------------------------------------------------------------------
(* What the statistics and the connections know of an item in each of its   *)
(* places.  What a sending consumer has transmitted is told by the          *)
(* connection it is about to call.                                          *)
Uncounted == {"new", "held", "queued", "sending", "refused", "discarded", "raised", "ignored"}
Untouched == Fates \ {"sending", "sent", "failed"}

CountInv ==
  \A i \in Items :
    /\ fate[i] \in Uncounted => statOk[i] = 0 /\ statError[i] = 0
    /\ fate[i] \in {"full", "failed"} => statOk[i] = 0 /\ statError[i] = 1
    /\ fate[i] = "sent" => statOk[i] = 1 /\ statError[i] = 0

ReceivedInv ==
  \A i \in Items, k \in Connections :
    /\ fate[i] \in Untouched => received[k][i] = 0
    /\ fate[i] = "sent" => received[k][i] = 1
    /\ \A c \in Consumers :
         citem[c] = i => received[k][i] = IF k < conn[c] THEN 1 ELSE 0

StatInv == CountInv /\ ReceivedInv

LEMMA StatInvSuffices == BaseInv /\ StatInv => StatisticsTellTruth
<1> SUFFICES ASSUME BaseInv, StatInv, NEW i \in Items
             PROVE  /\ statOk[i] + statError[i] <= 1
                    /\ statOk[i] = 1 => \A k \in Connections : received[k][i] = 1
                    /\ statError[i] = 1 => fate[i] \in {"full", "failed"}
                    /\ fate[i] \in {"full", "failed", "sent"} => statOk[i] + statError[i] = 1
  BY DEF StatisticsTellTruth
<1>1. fate[i] \in Uncounted \cup {"full", "failed", "sent"}
  BY DEF BaseInv, TypeOK, Fates, Uncounted
<1> QED
  BY <1>1 DEF StatInv, CountInv, ReceivedInv, Uncounted

(* Steps that leave the counters alone: the item that moves goes from one   *)
(* uncounted place to another, and no item that is sent changes hands.      *)
LEMMA StatUnmoved ==
  ASSUME StatInv, UNCHANGED <<stats, received>>, UNCHANGED <<citem, conn>>, UNCHANGED fate
  PROVE  StatInv'
BY DEF StatInv, CountInv, ReceivedInv, stats

LEMMA StatMoved ==
  ASSUME BaseInv, StatInv, NEW i \in Items, fate[i] \in Uncounted \cap Untouched,
         NEW f \in Uncounted \cap Untouched,
         fate' = [fate EXCEPT ![i] = f],
         UNCHANGED <<stats, received>>, UNCHANGED <<citem, conn>>
  PROVE  StatInv'
<1> USE DEF BaseInv, TypeOK, StatInv, stats
<1>1. CountInv'
  BY DEF CountInv, Uncounted
<1>2. ReceivedInv'
  BY DEF ReceivedInv, Untouched, Uncounted, Fates
<1> QED
  BY <1>1, <1>2

(* The item of a caller has not been counted. *)
LEMMA CallerItem ==
  ASSUME BaseInv, PlaceInv, NEW p \in Callers, caller[p] # NoItem
  PROVE  caller[p] \in Items /\ fate[caller[p]] = "held"
BY DEF BaseInv, TypeOK, PlaceInv, FateHeld

LEMMA ConsumerItem ==
  ASSUME BaseInv, PlaceInv, NEW c \in Consumers, cpc[c] = "send"
  PROVE  /\ citem[c] \in Items /\ fate[citem[c]] = "sending"
         /\ conn[c] \in 1..(NConn + 1)
         /\ \A d \in Consumers : citem[d] = citem[c] => d = c
BY DEF BaseInv, TypeOK, HandInv, PlaceInv, FateSending, ConsumerOnce

LEMMA EnqueueStat ==
  ASSUME BaseInv, PlaceInv, StatInv, NEW p \in Callers, Enqueue(p)
  PROVE  StatInv'
<1> DEFINE x == caller[p]
<1>1. x \in Items /\ fate[x] = "held"
  BY CallerItem DEF Enqueue
<1>2. UNCHANGED received /\ UNCHANGED <<citem, conn>>
  BY DEF Enqueue, consumerVars
<1>3. ASSUME NEW f \in {"queued", "ignored"}, fate' = [fate EXCEPT ![x] = f], UNCHANGED stats
      PROVE  StatInv'
  BY <1>1, <1>2, <1>3, StatMoved DEF Uncounted, Untouched, Fates, stats
<1>4. ASSUME fate' = [fate EXCEPT ![x] = "full"],
             statError' = [statError EXCEPT ![x] = @ + 1], UNCHANGED statOk
      PROVE  StatInv'
  <2> USE <1>1, <1>2, <1>4 DEF BaseInv, TypeOK, StatInv
  <2>1. CountInv'
    BY DEF CountInv, Uncounted
  <2>2. ReceivedInv'
    BY DEF ReceivedInv, Untouched, Fates
  <2> QED
    BY <2>1, <2>2
<1> QED
  BY <1>3, <1>4 DEF Enqueue

LEMMA TakeStat ==
  ASSUME BaseInv, PlaceInv, StatInv, NEW c \in Consumers, Take(c)
  PROVE  StatInv'
<1> DEFINE x == Head(queue)
<1>1. queue # <<>> /\ fate' = [fate EXCEPT ![x] = "sending"]
      /\ citem' = [citem EXCEPT ![c] = x] /\ conn' = [conn EXCEPT ![c] = 1]
      /\ UNCHANGED <<stats, received>>
  BY DEF Take, Q!Get
<1>2. x \in Items /\ fate[x] = "queued"
  <2>1. Len(queue) \in Nat /\ Len(queue) >= 1 /\ x = queue[1]
    BY <1>1, TailPlaces DEF BaseInv, TypeOK
  <2> QED
    BY <2>1 DEF BaseInv, TypeOK, PlaceInv, FateQueued, InQueue
<1>3. \A d \in Consumers : citem[d] # x
  BY <1>2 DEF PlaceInv, FateSending
<1> HIDE DEF x
<1>4. CountInv'
  BY <1>1, <1>2 DEF BaseInv, TypeOK, StatInv, stats, CountInv, Uncounted
<1>5. ReceivedInv'
  <2> SUFFICES ASSUME NEW j \in Items, NEW k \in Connections
               PROVE  /\ fate'[j] \in Untouched => received[k][j] = 0
                      /\ fate'[j] = "sent" => received[k][j] = 1
                      /\ \A d \in Consumers :
                           citem'[d] = j => received[k][j] = IF k < conn'[d] THEN 1 ELSE 0
    BY <1>1 DEF ReceivedInv
  <2>1. fate[j] \in Untouched => received[k][j] = 0
    BY DEF StatInv, ReceivedInv
  <2>2. CASE j = x
    <3>1. fate'[j] = "sending" /\ received[k][j] = 0
      BY <1>1, <1>2, <2>1, <2>2 DEF BaseInv, TypeOK, Untouched, Fates
    <3>2. \A d \in Consumers : citem'[d] = j => conn'[d] = 1
      BY <1>1, <1>3, <2>2 DEF BaseInv, TypeOK
    <3>3. ~(k < 1)
      BY PublisherAssumption DEF Connections
    <3> QED
      BY <3>1, <3>2, <3>3 DEF Untouched
  <2>3. CASE j # x
    <3>1. /\ fate'[j] = fate[j]
          /\ \A d \in Consumers : citem'[d] = j => citem[d] = j /\ conn'[d] = conn[d]
      BY <1>1, <2>3 DEF BaseInv, TypeOK
    <3> QED
      BY <3>1 DEF StatInv, ReceivedInv
  <2> QED
    BY <2>2, <2>3
<1> QED
  BY <1>4, <1>5 DEF StatInv

(* What the transmission of consumer c changes. *)
LEMMA TransmittedCounts ==
  ASSUME BaseInv, NEW c \in Consumers, Transmitted(c), citem[c] \in Items,
         conn[c] \in Connections
  PROVE  \A k \in Connections, j \in Items :
           received'[k][j] = IF k = conn[c] /\ j = citem[c] THEN received[k][j] + 1
                                                          ELSE received[k][j]
<1> DEFINE n == conn[c]  i == citem[c]
<1>1. received' = [received EXCEPT ![n] = [received[n] EXCEPT ![i] = @ + 1]]
  BY DEF Transmitted
<1> HIDE DEF n, i
<1>2. received \in [Connections -> [Items -> Nat]]
  BY DEF BaseInv, TypeOK
<1>3. ASSUME NEW k \in Connections, NEW j \in Items
      PROVE  received'[k][j] = IF k = n /\ j = i THEN received[k][j] + 1 ELSE received[k][j]
  <2>1. received'[k] = IF k = n THEN [received[n] EXCEPT ![i] = @ + 1] ELSE received[k]
    BY <1>1, <1>2, <1>3
  <2>2. received[k] \in [Items -> Nat]
    BY <1>2, <1>3
  <2> QED
    BY <2>1, <2>2, <1>3
<1> QED
  BY <1>3 DEF n, i

(* One more connection has transmitted the item. *)
LEMMA SendWorksStat ==
  ASSUME BaseInv, PlaceInv, StatInv, NEW c \in Consumers, SendWorks(c)
  PROVE  StatInv'
<1> DEFINE i == citem[c]  n == conn[c]
<1>1. /\ i \in Items /\ fate[i] = "sending" /\ n \in Connections
      /\ \A d \in Consumers : citem[d] = i => d = c
  BY ConsumerItem, PublisherAssumption DEF SendWorks, Connections
<1>2. /\ received' = [received EXCEPT ![n] = [received[n] EXCEPT ![i] = @ + 1]]
      /\ conn' = [conn EXCEPT ![c] = n + 1]
      /\ UNCHANGED <<statOk, statError>> /\ UNCHANGED citem /\ UNCHANGED fate
  BY DEF SendWorks, Transmitted, stats
<1>3. CountInv'
  BY <1>2 DEF StatInv, CountInv
<1>4. ASSUME NEW k \in Connections, NEW j \in Items, j # i
      PROVE  received'[k][j] = received[k][j]
  BY <1>1, <1>4, TransmittedCounts DEF SendWorks
<1>5. ASSUME NEW k \in Connections
      PROVE  received'[k][i] = IF k < n + 1 THEN 1 ELSE 0
  <2>1. received[k][i] = IF k < n THEN 1 ELSE 0
    BY <1>1 DEF StatInv, ReceivedInv
  <2>2. received'[k][i] = IF k = n THEN received[k][i] + 1 ELSE received[k][i]
    BY <1>1, <1>5, TransmittedCounts DEF SendWorks
  <2> QED
    BY <1>1, <2>1, <2>2, PublisherAssumption DEF Connections
<1>6. ReceivedInv'
  <2> SUFFICES ASSUME NEW j \in Items, NEW k \in Connections
               PROVE  /\ fate[j] \in Untouched => received'[k][j] = 0
                      /\ fate[j] = "sent" => received'[k][j] = 1
                      /\ \A d \in Consumers :
                           citem[d] = j => received'[k][j] = IF k < conn'[d] THEN 1 ELSE 0
    BY <1>2 DEF ReceivedInv
  <2>1. CASE j = i
    BY <1>1, <1>2, <1>5, <2>1 DEF Untouched, BaseInv, TypeOK
  <2>2. CASE j # i
    <3>1. \A d \in Consumers : citem[d] = j => conn'[d] = conn[d]
      BY <1>2, <2>2 DEF BaseInv, TypeOK
    <3> QED
      BY <1>4, <2>2, <3>1 DEF StatInv, ReceivedInv
  <2> QED
    BY <2>1, <2>2
<1> QED
  BY <1>3, <1>6 DEF StatInv

LEMMA SendEndsStat ==
  ASSUME BaseInv, PlaceInv, StatInv, NEW c \in Consumers, SendFails(c) \/ SendDone(c)
  PROVE  StatInv'
<1> DEFINE i == citem[c]  n == conn[c]
<1>1. /\ i \in Items /\ fate[i] = "sending" /\ n \in 1..(NConn + 1)
      /\ \A d \in Consumers : citem[d] = i => d = c
  BY ConsumerItem DEF SendFails, SendDone
<1>2. PICK f \in {"sent", "failed"} :
        /\ fate' = [fate EXCEPT ![i] = f]
        /\ citem' = [citem EXCEPT ![c] = NoItem]
        /\ conn' = [conn EXCEPT ![c] = 1]
        /\ f = "sent" => /\ UNCHANGED <<received, statError>> /\ n > NConn
                         /\ statOk' = [statOk EXCEPT ![i] = @ + 1]
        /\ f = "failed" => /\ UNCHANGED statOk
                           /\ statError' = [statError EXCEPT ![i] = @ + 1]
                           /\ n <= NConn
                           /\ Transmitted(c) \/ UNCHANGED received
  BY DEF SendFails, SendDone, Finish
<1>3. CountInv'
  BY <1>1, <1>2 DEF StatInv, CountInv, Uncounted, BaseInv, TypeOK
<1>4. ASSUME NEW k \in Connections, NEW j \in Items, j # i
      PROVE  received'[k][j] = received[k][j]
  BY <1>1, <1>2, <1>4, TransmittedCounts DEF Connections
<1>5. ReceivedInv'
  <2> SUFFICES ASSUME NEW j \in Items, NEW k \in Connections
               PROVE  /\ fate'[j] \in Untouched => received'[k][j] = 0
                      /\ fate'[j] = "sent" => received'[k][j] = 1
                      /\ \A d \in Consumers :
                           citem'[d] = j => received'[k][j] = IF k < conn'[d] THEN 1 ELSE 0
    BY DEF ReceivedInv
  <2>1. CASE j = i
    <3>1. fate'[j] = f /\ \A d \in Consumers : citem'[d] # j
      BY <1>1, <1>2, <2>1, PublisherAssumption DEF BaseInv, TypeOK
    <3>2. f = "sent" => received'[k][j] = 1
      BY <1>1, <1>2, <2>1, PublisherAssumption DEF StatInv, ReceivedInv, Connections
    <3> QED
      BY <3>1, <3>2 DEF Untouched
  <2>2. CASE j # i
    <3>1. /\ fate'[j] = fate[j]
          /\ \A d \in Consumers : citem'[d] = j => citem[d] = j /\ conn'[d] = conn[d]
      BY <1>2, <2>2, PublisherAssumption DEF BaseInv, TypeOK
    <3> QED
      BY <1>4, <2>2, <3>1 DEF StatInv, ReceivedInv
  <2> QED
    BY <2>1, <2>2
<1> QED
  BY <1>3, <1>5 DEF StatInv

LEMMA NextStatInv == BaseInv /\ PlaceInv /\ StatInv /\ [Next]_vars => StatInv'
<1> SUFFICES ASSUME BaseInv, PlaceInv, StatInv, [Next]_vars PROVE StatInv'
  OBVIOUS
<1>1. ASSUME NEW p \in Callers, NEW i \in Items, Refuse(p, i) PROVE StatInv'
  <2>1. /\ fate[i] = "new" /\ fate' = [fate EXCEPT ![i] = "refused"]
        /\ UNCHANGED <<stats, received>> /\ UNCHANGED <<citem, conn>>
    BY <1>1 DEF Refuse, consumerVars
  <2> QED
    BY <2>1, StatMoved DEF Uncounted, Untouched, Fates
<1>2. ASSUME NEW p \in Callers, NEW i \in Items, Begin(p, i) PROVE StatInv'
  <2>1. /\ fate[i] = "new" /\ fate' = [fate EXCEPT ![i] = "held"]
        /\ UNCHANGED <<stats, received>> /\ UNCHANGED <<citem, conn>>
    BY <1>2 DEF Begin, consumerVars
  <2> QED
    BY <2>1, StatMoved DEF Uncounted, Untouched, Fates
<1>3. ASSUME NEW p \in Callers, GiveUp(p) PROVE StatInv'
  <2>1. PICK f \in {"discarded", "raised"} : fate' = [fate EXCEPT ![caller[p]] = f]
    BY <1>3 DEF GiveUp
  <2>2. caller[p] \in Items /\ fate[caller[p]] = "held"
    BY <1>3, CallerItem DEF GiveUp
  <2>3. UNCHANGED <<stats, received>> /\ UNCHANGED <<citem, conn>>
    BY <1>3 DEF GiveUp, consumerVars
  <2>4. /\ fate[caller[p]] \in Uncounted \cap Untouched
        /\ f \in Uncounted \cap Untouched
    BY <2>1, <2>2 DEF Uncounted, Untouched, Fates
  <2> QED
    BY <2>1, <2>2, <2>3, <2>4, StatMoved
<1>4. ASSUME NEW p \in Callers, Enqueue(p) PROVE StatInv'
  BY <1>4, EnqueueStat
<1>5. ASSUME NEW c \in Consumers, Test(c) \/ Sleep(c) \/ Leave(c) \/ WakeUp(c) PROVE StatInv'
  BY <1>5, StatUnmoved DEF Test, Sleep, Leave, WakeUp, consumerVars
<1>6. ASSUME NEW c \in Consumers, Take(c) PROVE StatInv'
  BY <1>6, TakeStat
<1>7. ASSUME NEW c \in Consumers, SendWorks(c) PROVE StatInv'
  BY <1>7, SendWorksStat
<1>8. ASSUME NEW c \in Consumers, SendFails(c) \/ SendDone(c) PROVE StatInv'
  BY <1>8, SendEndsStat
<1>9. CASE StopRunning \/ Stop
  BY <1>9, StatUnmoved
  DEF StopRunning, Stop, StopQueue, StopJoin, StopConnection, StopReturns, consumerVars
<1>10. CASE UNCHANGED vars
  BY <1>10, StatUnmoved DEF vars, stats
<1> QED
  BY <1>1, <1>2, <1>3, <1>4, <1>5, <1>6, <1>7, <1>8, <1>9, <1>10 DEF Next, Publish, Consume

LEMMA InitStatInv == Init => StatInv
<1> SUFFICES ASSUME Init PROVE StatInv
  OBVIOUS
<1>1. CountInv
  BY DEF Init, CountInv, Uncounted
<1>2. ReceivedInv
  BY PublisherAssumption DEF Init, ReceivedInv, Untouched, Fates
<1> QED
  BY <1>1, <1>2 DEF StatInv

(* Whatever the threads, the queue and the connections do, a counted file   *)
(* is counted once, as ok only if every connection transmitted it once.     *)
THEOREM StatisticsAreTrue == Spec => []StatisticsTellTruth
<1>1. Spec => []StatInv
  BY InitStatInv, NextStatInv, BaseInvariance, PlaceInvariance, PTL DEF Spec
<1> QED
  BY <1>1, BaseInvariance, StatInvSuffices, PTL

----------------------------------------------------------------------------
(* The publisher implements the contract of the backend, safety part.       *)
Mapped == [i \in Items |-> ContractState(i)]

(* A step that moves one item moves it alone in the contract. *)
LEMMA MappedMoves ==
  ASSUME NEW x \in Items, NEW f \in Fates, fate \in [Items -> Fates],
         fate' = [fate EXCEPT ![x] = f]
  PROVE  Mapped' = [Mapped EXCEPT ![x] = ContractState(x)']
<1>1. \A i \in Items : i # x => ContractState(i)' = ContractState(i)
  BY DEF ContractState
<1> QED
  BY <1>1 DEF Mapped

LEMMA MappedStands == ASSUME UNCHANGED fate PROVE UNCHANGED Mapped
BY DEF Mapped, ContractState

LEMMA MappedItem ==
  ASSUME NEW i \in Items, fate \in [Items -> Fates]
  PROVE  /\ fate[i] \in {"new", "held"} => Mapped[i] = "new"
         /\ fate[i] \in {"refused", "discarded", "raised", "full", "ignored"}
              => Mapped[i] = "rejected"
         /\ fate[i] = "queued" => Mapped[i] = "waiting"
         /\ fate[i] = "sending" => Mapped[i] = "busy"
         /\ fate[i] \in {"sent", "failed"} => Mapped[i] = fate[i]
BY DEF Mapped, ContractState

(* Where an item gets by a step, in the contract. *)
LEMMA MappedStep ==
  ASSUME NEW x \in Items, NEW f \in Fates, fate \in [Items -> Fates],
         fate' = [fate EXCEPT ![x] = f]
  PROVE  /\ f \in {"new", "held"} => Mapped' = [Mapped EXCEPT ![x] = "new"]
         /\ f \in {"refused", "discarded", "raised", "full", "ignored"}
              => Mapped' = [Mapped EXCEPT ![x] = "rejected"]
         /\ f = "queued" => Mapped' = [Mapped EXCEPT ![x] = "waiting"]
         /\ f = "sending" => Mapped' = [Mapped EXCEPT ![x] = "busy"]
         /\ f \in {"sent", "failed"} => Mapped' = [Mapped EXCEPT ![x] = f]
<1>1. fate'[x] = f
  OBVIOUS
<1> QED
  BY <1>1, MappedMoves DEF ContractState

LEMMA Rejected ==
  ASSUME BaseInv, NEW x \in Items, fate[x] \in {"new", "held"},
         NEW f \in {"refused", "discarded", "raised", "full", "ignored"},
         fate' = [fate EXCEPT ![x] = f], UNCHANGED <<queue, shut>>
  PROVE  Contract!Next
<1>1. Contract!Reject(x)
  BY MappedItem, MappedStep DEF Contract!Reject, Mapped, BaseInv, TypeOK, Fates
<1> QED
  BY <1>1 DEF Contract!Next

LEMMA EnqueueRefines ==
  ASSUME BaseInv, PlaceInv, NEW p \in Callers, Enqueue(p)
  PROVE  Contract!Next
<1> DEFINE x == caller[p]
<1>1. x \in Items /\ fate[x] = "held"
  BY CallerItem DEF Enqueue
<1>2. ASSUME Q!Put(x), fate' = [fate EXCEPT ![x] = "queued"]
      PROVE  Contract!Accept(x)
  <2>1. Mapped[x] = "new" /\ Mapped' = [Mapped EXCEPT ![x] = "waiting"]
    BY <1>1, <1>2, MappedItem, MappedStep DEF BaseInv, TypeOK, Fates
  <2>2. /\ ~shut /\ UNCHANGED shut
        /\ queue' = Append(queue, x)
        /\ QueueSize > 0 => ~(Len(queue) >= QueueSize)
    BY <1>2 DEF Q!Put, Q!Full
  <2>3. Len(queue) \in Nat
    BY DEF BaseInv, TypeOK
  <2>4. QueueSize > 0 => Len(queue) < QueueSize
    BY <2>2, <2>3, PublisherAssumption
  <2> QED
    BY <2>1, <2>2, <2>4 DEF Contract!Accept, Mapped
<1>3. ASSUME Q!PutFull \/ Q!PutIgnored, NEW f \in {"full", "ignored"},
             fate' = [fate EXCEPT ![x] = f]
      PROVE  Contract!Next
  BY <1>1, <1>3, Rejected DEF Q!PutFull, Q!PutIgnored
<1> QED
  BY <1>1, <1>2, <1>3 DEF Enqueue, Contract!Next

LEMMA TakeRefines ==
  ASSUME BaseInv, PlaceInv, NEW c \in Consumers, Take(c)
  PROVE  Contract!Next
<1> DEFINE x == Head(queue)
<1>1. /\ ~shut /\ UNCHANGED shut
      /\ queue # <<>> /\ queue' = Tail(queue)
      /\ fate' = [fate EXCEPT ![x] = "sending"]
  BY DEF Take, Q!Get
<1>2. x \in Items
  BY <1>1 DEF BaseInv, TypeOK
<1>3. Mapped' = [Mapped EXCEPT ![x] = "busy"]
  BY <1>1, <1>2, MappedStep DEF BaseInv, TypeOK, Fates
<1>4. Contract!Pick
  BY <1>1, <1>3 DEF Contract!Pick, Mapped
<1> QED
  BY <1>4 DEF Contract!Next

LEMMA SettleRefines ==
  ASSUME BaseInv, PlaceInv, NEW c \in Consumers, SendFails(c) \/ SendDone(c)
  PROVE  Contract!Next
<1> DEFINE x == citem[c]
<1>1. x \in Items /\ fate[x] = "sending"
  BY ConsumerItem DEF SendFails, SendDone
<1>2. PICK f \in {"sent", "failed"} : fate' = [fate EXCEPT ![x] = f]
  BY DEF SendFails, SendDone, Finish
<1>3. UNCHANGED <<queue, shut>>
  BY DEF SendFails, SendDone, queueVars
<1>4. Mapped[x] = "busy" /\ Mapped' = [Mapped EXCEPT ![x] = f]
  BY <1>1, <1>2, MappedItem, MappedStep DEF BaseInv, TypeOK, Fates
<1>5. Contract!Settle(x)
  BY <1>3, <1>4 DEF Contract!Settle, Mapped
<1> QED
  BY <1>1, <1>5 DEF Contract!Next

(* Steps the contract does not see. *)
LEMMA Stutters ==
  ASSUME UNCHANGED <<queue, shut>>, UNCHANGED fate
  PROVE  UNCHANGED Contract!vars
<1>1. UNCHANGED Mapped
  BY MappedStands
<1> QED
  BY <1>1 DEF Contract!vars, Mapped

LEMMA StepRefines == BaseInv /\ PlaceInv /\ [Next]_vars => [Contract!Next]_(Contract!vars)
<1> SUFFICES ASSUME BaseInv, PlaceInv, [Next]_vars
             PROVE  Contract!Next \/ UNCHANGED Contract!vars
  OBVIOUS
<1>1. ASSUME NEW p \in Callers, NEW i \in Items, Refuse(p, i) PROVE Contract!Next
  BY <1>1, Rejected DEF Refuse, queueVars
<1>2. ASSUME NEW p \in Callers, NEW i \in Items, Begin(p, i) PROVE UNCHANGED Contract!vars
  <2>1. Mapped[i] = "new" /\ Mapped' = [Mapped EXCEPT ![i] = "new"]
    BY <1>2, MappedItem, MappedStep DEF Begin, BaseInv, TypeOK, Fates
  <2>2. UNCHANGED Mapped
    BY <2>1 DEF Mapped
  <2>3. UNCHANGED <<queue, shut>>
    BY <1>2 DEF Begin, queueVars
  <2> QED
    BY <2>2, <2>3 DEF Contract!vars, Mapped
<1>3. ASSUME NEW p \in Callers, GiveUp(p) PROVE Contract!Next
  <2>1. caller[p] \in Items /\ fate[caller[p]] = "held"
    BY <1>3, CallerItem DEF GiveUp
  <2>2. PICK f \in {"discarded", "raised"} : fate' = [fate EXCEPT ![caller[p]] = f]
    BY <1>3 DEF GiveUp
  <2>3. UNCHANGED <<queue, shut>>
    BY <1>3 DEF GiveUp, queueVars
  <2> QED
    BY <2>1, <2>2, <2>3, Rejected
<1>4. ASSUME NEW c \in Consumers,
             Test(c) \/ Sleep(c) \/ Leave(c) \/ SendWorks(c) \/ WakeUp(c)
      PROVE  UNCHANGED Contract!vars
  <2>1. UNCHANGED fate
    BY <1>4 DEF Test, Sleep, Leave, SendWorks, WakeUp
  <2>2. CASE Test(c) \/ SendWorks(c)
    BY <2>1, <2>2, Stutters DEF Test, SendWorks, queueVars
  <2>3. CASE Sleep(c) \/ WakeUp(c)
    BY <2>1, <2>3, Stutters DEF Sleep, WakeUp, Q!Wait, Q!WaitTimesOut
  <2>4. CASE Leave(c)
    <3>1. UNCHANGED <<queue, shut>>
      BY <2>4 DEF Leave, Q!GetShutdown, Q!queueVars
    <3> QED
      BY <2>1, <3>1, Stutters
  <2> QED
    BY <1>4, <2>2, <2>3, <2>4
<1>5. ASSUME StopRunning \/ StopJoin \/ StopConnection \/ StopReturns
      PROVE  UNCHANGED Contract!vars
  BY <1>5, Stutters DEF StopRunning, StopJoin, StopConnection, StopReturns, queueVars
<1>6. ASSUME StopQueue PROVE Contract!Next
  <2>1. ~shut
    BY <1>6 DEF StopQueue, BaseInv, StopInv
  <2>2. shut' /\ UNCHANGED queue /\ UNCHANGED fate
    BY <1>6 DEF StopQueue, Q!Shutdown
  <2>3. UNCHANGED Mapped
    BY <2>2, MappedStands
  <2>4. Contract!Close
    BY <2>1, <2>2, <2>3 DEF Contract!Close, Mapped
  <2> QED
    BY <2>4 DEF Contract!Next
<1>7. ASSUME UNCHANGED vars PROVE UNCHANGED Contract!vars
  BY <1>7, Stutters DEF vars
<1> QED
  BY <1>1, <1>2, <1>3, <1>4, <1>5, <1>6, <1>7, EnqueueRefines, TakeRefines, SettleRefines
  DEF Next, Publish, Consume, Stop

LEMMA InitRefines == Init => Contract!Init
<1> SUFFICES ASSUME Init PROVE Contract!Init
  OBVIOUS
<1>1. queue = <<>> /\ ~shut
  BY DEF Init, Q!InitQueue
<1>2. Mapped = [i \in Items |-> "new"]
  BY DEF Init, Mapped, ContractState
<1> QED
  BY <1>1, <1>2 DEF Contract!Init, Mapped

(* Every behaviour of the publisher is one the contract allows: its line is *)
(* bounded and served oldest first, an item gets one attempt or a rejection,*)
(* and nothing joins or leaves the line of a publisher that is closed.      *)
THEOREM PublisherKeepsContract == Spec => Contract!Spec
<1> QED
  BY InitRefines, StepRefines, PlaceInvariance, PTL DEF Spec, Contract!Spec

----------------------------------------------------------------------------
(* The ZeroMQ publisher. *)

PublisherInv == BaseInv /\ PlaceInv /\ StatInv

(* The one step that standard_publisher does not have. *)
OnlyCloses ==
  /\ stopped' = 1
  /\ UNCHANGED <<queueVars, callerVars, consumerVars, running, spc, stats, received, fate>>

LEMMA StepOfPublisher == [ZNext]_zvars => [Next]_vars \/ OnlyCloses
<1> SUFFICES ASSUME [ZNext]_zvars PROVE [Next]_vars \/ OnlyCloses
  OBVIOUS
<1>1. ASSUME NEW p \in Callers, Publish(p) PROVE Next
  BY <1>1 DEF Next
<1>2. ASSUME NEW c \in Consumers, ZConsume(c) \/ WakeUp(c) PROVE Next
  BY <1>2 DEF Next, Consume, ZConsume, SocketSends, SocketRaises
<1>3. CASE CloseSocket
  BY <1>3 DEF CloseSocket, OnlyCloses
<1>4. CASE ZStopRunning \/ ZStop
  BY <1>4 DEF ZStopRunning, ZStop, Next, Stop
<1>5. CASE \E s \in Subscribers : StartSubscriber(s) \/ Receive(s)
  BY <1>5 DEF StartSubscriber, Receive
<1>6. CASE UNCHANGED zvars
  BY <1>6 DEF zvars
<1> QED
  BY <1>1, <1>2, <1>3, <1>4, <1>5, <1>6 DEF ZNext

LEMMA ClosingKeeps == PublisherInv /\ OnlyCloses => PublisherInv'
<1> SUFFICES ASSUME PublisherInv, OnlyCloses PROVE PublisherInv'
  OBVIOUS
<1>1. /\ UNCHANGED <<queue, shut, waiting, running, caller, cpc, citem, conn>>
      /\ UNCHANGED <<spc, statOk, statError, received, fate>>
      /\ stopped' = 1
  BY DEF OnlyCloses, queueVars, callerVars, consumerVars, stats
<1>2. stopped' \in 0..NConn
  BY <1>1, ZmqAssumption
<1>3. TypeOK'
  BY <1>1, <1>2 DEF PublisherInv, BaseInv, TypeOK
<1>4. NoLostWakeup' /\ HandInv' /\ StopInv'
  BY <1>1 DEF PublisherInv, BaseInv, NoLostWakeup, Q!NoLostWakeup, HandInv, StopInv
<1>5. PlaceInv'
  BY <1>1 DEF PublisherInv, PlaceInv, FateQueued, FateHeld, FateSending, InQueue,
              QueueOnce, CallerOnce, ConsumerOnce
<1>6. StatInv'
  BY <1>1, StatUnmoved DEF PublisherInv, stats
<1> QED
  BY <1>3, <1>4, <1>5, <1>6 DEF PublisherInv, BaseInv

LEMMA PublisherInvInvariance == ZInit /\ [][ZNext]_zvars => []PublisherInv
<1>1. ZInit => PublisherInv
  BY InitBase, InitPlaceInv, InitStatInv DEF ZInit, PublisherInv
<1>2. PublisherInv /\ [ZNext]_zvars => PublisherInv'
  BY StepOfPublisher, ClosingKeeps, NextBase, NextPlaceInv, NextStatInv DEF PublisherInv
<1> QED
  BY <1>1, <1>2, PTL

(* Closing the socket first breaks nothing of what the backend was promised:*)
(* an item that the closed socket refuses is settled as failed, and the     *)
(* order of the line, its bound and the single attempt stand.               *)
THEOREM ZmqKeepsContract == ZSpec => Contract!Spec
<1>1. PublisherInv /\ [ZNext]_zvars => [Contract!Next]_(Contract!vars)
  <2>1. OnlyCloses => UNCHANGED Contract!vars
    BY Stutters DEF OnlyCloses, queueVars
  <2> QED
    BY <2>1, StepOfPublisher, StepRefines DEF PublisherInv
<1>2. ZInit => Contract!Init
  BY InitRefines DEF ZInit
<1> QED
  BY <1>1, <1>2, PublisherInvInvariance, PTL DEF ZSpec, Contract!Spec

----------------------------------------------------------------------------
(* What is on the wire: a message was accepted by the socket once, and its  *)
(* name could be encoded.                                                   *)
Messages == [item : Items, frame : Frames]
MonitorStates ==
  [running : BOOLEAN, left : Nat, entries : SUBSET (Nat \X Items), seen : Seq(Messages)]

WireTypes ==
  /\ kind \in [Items -> Kinds]
  /\ inbox \in [Subscribers -> Seq(Messages)]
  /\ stored \subseteq Messages

Sound(m) == received[1][m.item] = 1 /\ kind[m.item] # "foreign name"

WireInv ==
  /\ \A s \in Subscribers : \A n \in 1..Len(inbox[s]) : Sound(inbox[s][n])
  /\ StoredIsWhatWasSent

(* The socket takes an item once, and it takes nothing back. *)
LEMMA AcceptedOnce ==
  ASSUME PublisherInv, NEW c \in Consumers, SendWorks(c)
  PROVE  /\ citem[c] \in Items /\ received'[1][citem[c]] = 1
         /\ \A j \in Items : received[1][j] = 1 => received'[1][j] = 1
<1>1. citem[c] \in Items /\ conn[c] = 1 /\ 1 \in Connections
  BY ConsumerItem, ZmqAssumption DEF PublisherInv, SendWorks, Connections
<1>2. \A j \in Items : received'[1][j] = IF j = citem[c] THEN received[1][j] + 1
                                                       ELSE received[1][j]
  BY <1>1, TransmittedCounts DEF PublisherInv, SendWorks
<1>3. received[1][citem[c]] = 0
  BY <1>1 DEF PublisherInv, StatInv, ReceivedInv
<1> QED
  BY <1>1, <1>2, <1>3

(* A message that is delivered is the last of the inboxes it reaches. *)
LEMMA DeliveredLast ==
  ASSUME WireTypes, NEW m \in Messages, Delivered(m), NEW s \in Subscribers
  PROVE  /\ inbox'[s] \in Seq(Messages)
         /\ \A n \in 1..Len(inbox'[s]) :
              inbox'[s][n] = m \/ (n \in 1..Len(inbox[s]) /\ inbox'[s][n] = inbox[s][n])
<1>1. PICK reached \in SUBSET started :
        inbox' = [u \in Subscribers |->
                    IF u \in reached THEN Append(inbox[u], m) ELSE inbox[u]]
  BY DEF Delivered
<1>2. inbox[s] \in Seq(Messages)
  BY DEF WireTypes
<1>3. CASE s \in reached
  <2>1. inbox'[s] = Append(inbox[s], m)
    BY <1>1, <1>3
  <2> QED
    BY <1>2, <2>1
<1>4. CASE s \notin reached
  BY <1>1, <1>2, <1>4
<1> QED
  BY <1>3, <1>4

LEMMA DeliveryKeepsWire ==
  ASSUME PublisherInv, WireTypes, WireInv, NEW c \in Consumers, SocketSends(c)
  PROVE  WireTypes' /\ WireInv'
<1>1. PICK frame \in Frames : Delivered([item |-> citem[c], frame |-> frame])
  BY DEF SocketSends, Frames
<1> DEFINE m == [item |-> citem[c], frame |-> frame]
<1>2. /\ m \in Messages /\ m.item = citem[c] /\ received'[1][m.item] = 1
      /\ \A j \in Items : received[1][j] = 1 => received'[1][j] = 1
      /\ kind[m.item] # "foreign name" /\ UNCHANGED <<kind, stored>>
  BY AcceptedOnce DEF SocketSends, Messages
<1>3. Delivered(m)
  BY <1>1
<1> HIDE DEF m
<1>4. \E reached : inbox' = [s \in Subscribers |->
                    IF s \in reached THEN Append(inbox[s], m) ELSE inbox[s]]
  BY <1>3 DEF Delivered
<1>5. WireTypes'
  BY <1>2, <1>3, <1>4, DeliveredLast DEF WireTypes
<1>6. ASSUME NEW s \in Subscribers, NEW n \in 1..Len(inbox'[s])
      PROVE  Sound(inbox[s][n])'
  <2>1. CASE inbox'[s][n] = m
    BY <1>2, <2>1 DEF Sound
  <2>2. CASE n \in 1..Len(inbox[s]) /\ inbox'[s][n] = inbox[s][n]
    <3>1. Sound(inbox[s][n]) /\ inbox[s][n].item \in Items
      <4>1. inbox[s] \in Seq(Messages)
        BY DEF WireTypes
      <4>2. inbox[s][n] \in Messages
        BY <2>2, <4>1
      <4> QED
        BY <2>2, <4>2 DEF WireInv, Messages
    <3> QED
      BY <1>2, <2>2, <3>1 DEF Sound
  <2> QED
    BY <1>2, <1>3, <2>1, <2>2, DeliveredLast
<1>7. StoredIsWhatWasSent'
  BY <1>2 DEF WireInv, WireTypes, Messages, StoredIsWhatWasSent
<1> QED
  BY <1>5, <1>6, <1>7 DEF WireInv

LEMMA TailMessages ==
  ASSUME NEW q \in Seq(Messages), q # <<>>
  PROVE  /\ Head(q) = q[1] /\ 1 \in 1..Len(q) /\ Tail(q) \in Seq(Messages)
         /\ \A n \in 1..Len(Tail(q)) : n + 1 \in 1..Len(q) /\ Tail(q)[n] = q[n + 1]
OBVIOUS

LEMMA ReceiptKeepsWire ==
  ASSUME WireTypes, WireInv, NEW s \in Subscribers, Receive(s)
  PROVE  WireTypes' /\ WireInv'
<1> DEFINE m == Head(inbox[s])
<1>1. /\ inbox[s] # <<>> /\ inbox' = [inbox EXCEPT ![s] = Tail(@)]
      /\ UNCHANGED <<received, kind>>
      /\ stored' = stored \/ (/\ Accepted(m) /\ kind[m.item] # "long name"
                              /\ stored' = stored \cup {m})
  BY DEF Receive, vars
<1>2. /\ inbox[s] \in Seq(Messages) /\ m = inbox[s][1] /\ 1 \in 1..Len(inbox[s])
      /\ Tail(inbox[s]) \in Seq(Messages)
      /\ \A n \in 1..Len(Tail(inbox[s])) :
           n + 1 \in 1..Len(inbox[s]) /\ Tail(inbox[s])[n] = inbox[s][n + 1]
  <2>1. inbox[s] \in Seq(Messages)
    BY DEF WireTypes
  <2> QED
    BY <1>1, <2>1, TailMessages
<1>3. m \in Messages /\ Sound(m)
  BY <1>2 DEF WireInv
<1> HIDE DEF m
<1>4. WireTypes'
  <2>1. inbox' \in [Subscribers -> Seq(Messages)]
    BY <1>1, <1>2 DEF WireTypes
  <2> QED
    BY <1>1, <1>3, <2>1 DEF WireTypes
<1>5. ASSUME NEW u \in Subscribers, NEW n \in 1..Len(inbox'[u])
      PROVE  Sound(inbox[u][n])'
  <2>1. CASE u = s
    <3>1. inbox'[u] = Tail(inbox[s])
      BY <1>1, <2>1 DEF WireTypes
    <3>2. n + 1 \in 1..Len(inbox[s]) /\ inbox'[u][n] = inbox[s][n + 1]
      BY <1>2, <1>5, <2>1, <3>1
    <3> QED
      BY <1>1, <3>2 DEF WireInv, Sound
  <2>2. CASE u # s
    BY <1>1, <2>2 DEF WireTypes, WireInv, Sound
  <2> QED
    BY <2>1, <2>2
<1>6. StoredIsWhatWasSent'
  <2>1. Accepted(m) /\ kind[m.item] # "long name" => m.frame = "whole" /\ kind[m.item] = "plain"
    BY <1>3 DEF Accepted, Sound, WireTypes, Kinds, Messages
  <2> QED
    BY <1>1, <1>3, <2>1 DEF WireInv, StoredIsWhatWasSent, Sound
<1> QED
  BY <1>4, <1>5, <1>6 DEF WireInv

(* Steps that move neither a message nor what the socket accepted. *)
LEMMA WireStands ==
  ASSUME WireTypes, WireInv, UNCHANGED <<received, kind, inbox, stored>>
  PROVE  WireTypes' /\ WireInv'
BY DEF WireTypes, WireInv, Sound, StoredIsWhatWasSent

LEMMA NextWireInv ==
  PublisherInv /\ WireTypes /\ WireInv /\ [ZNext]_zvars => WireTypes' /\ WireInv'
<1> SUFFICES ASSUME PublisherInv, WireTypes, WireInv, [ZNext]_zvars
             PROVE  WireTypes' /\ WireInv'
  OBVIOUS
<1> DEFINE Still == UNCHANGED <<received, kind, inbox, stored>>
<1>1. ASSUME NEW p \in Callers, Publish(p), Elsewhere PROVE Still
  BY <1>1 DEF Publish, Refuse, Begin, GiveUp, Enqueue, Elsewhere, subVars
<1>2. ASSUME NEW c \in Consumers, Elsewhere,
             Test(c) \/ Take(c) \/ Sleep(c) \/ Leave(c) \/ SendDone(c) \/ WakeUp(c)
      PROVE  Still
  BY <1>2 DEF Test, Take, Sleep, Leave, SendDone, WakeUp, Elsewhere, subVars
<1>3. ASSUME NEW c \in Consumers, SocketRaises(c) PROVE Still
  BY <1>3 DEF SocketRaises, Elsewhere, subVars
<1>4. ASSUME CloseSocket \/ ZStopRunning \/ ZStop PROVE Still
  BY <1>4 DEF CloseSocket, ZStopRunning, ZStop, StopRunning, StopQueue, StopJoin,
              StopReturns, Elsewhere, subVars
<1>5. ASSUME NEW s \in Subscribers, StartSubscriber(s) PROVE Still
  BY <1>5 DEF StartSubscriber, vars
<1>6. CASE UNCHANGED zvars
  BY <1>6, WireStands DEF zvars, vars, subVars
<1> QED
  BY <1>1, <1>2, <1>3, <1>4, <1>5, <1>6, WireStands, DeliveryKeepsWire, ReceiptKeepsWire
  DEF ZNext, ZConsume

(* A file that a subscriber stored went through the socket exactly once, is *)
(* whole and has the name it was published under, whatever the socket drops *)
(* or garbles and however many subscriber threads run.                      *)
THEOREM OnlyWhatWasSentIsStored == ZSpec => []StoredIsWhatWasSent
<1>1. ZInit => WireTypes /\ WireInv
  BY ZmqAssumption DEF ZInit, WireTypes, WireInv, StoredIsWhatWasSent
<1>2. WireInv => StoredIsWhatWasSent
  BY DEF WireInv
<1> QED
  BY <1>1, <1>2, NextWireInv, PublisherInvInvariance, PTL DEF ZSpec

----------------------------------------------------------------------------
(* The monitor: what it has yet to accept tells what it has seen. *)
MonitorInv ==
  /\ monitor \in MonitorStates
  /\ MonitorTellsWhatItSaw
  /\ monitor.running /\ NrFiles > 0 => monitor.left + Len(monitor.seen) = NrFiles

LEMMA AppendMessage ==
  ASSUME NEW q \in Seq(Messages), NEW m \in Messages
  PROVE  /\ Append(q, m) \in Seq(Messages) /\ Len(q) \in Nat /\ Len(Append(q, m)) = Len(q) + 1
         /\ Append(q, m)[Len(q) + 1] = m
         /\ \A k \in 1..Len(q) : Append(q, m)[k] = q[k]
OBVIOUS

(* One more message: the rows of those before it stay the same. *)
LEMMA RowsGrow ==
  ASSUME NEW q \in Seq(Messages), NEW m \in Messages
  PROVE  /\ Rows(Append(q, m), Len(q)) = Rows(q, Len(q))
         /\ Rows(Append(q, m), Len(q) + 1) =
              Rows(q, Len(q)) \cup IF Short(m) THEN {} ELSE {<<Len(q) + 1, m.item>>}
<1> DEFINE n == Len(q)
           s == Append(q, m)
<1>1. n \in Nat /\ s[n + 1] = m /\ \A k \in 1..n : s[k] = q[k]
  BY AppendMessage
<1> HIDE DEF n, s
<1>2. 1..(n + 1) = (1..n) \cup {n + 1}
  BY <1>1
<1>3. Rows(s, n) = Rows(q, n)
  BY <1>1 DEF Rows
<1>4. Rows(s, n + 1) = Rows(q, n) \cup IF Short(m) THEN {} ELSE {<<n + 1, m.item>>}
  BY <1>1, <1>2 DEF Rows
<1> QED
  BY <1>3, <1>4 DEF n, s

LEMMA MonitoredKeeps ==
  ASSUME MonitorInv, monitor.running, NEW m \in Messages, monitor' = Monitored(m),
         Readable(m)' = Readable(m)
  PROVE  MonitorInv'
<1> DEFINE q == monitor.seen
           n == Len(q)
           left == monitor.left
           entries == monitor.entries
           after == Append(q, m)
<1>1. /\ q \in Seq(Messages) /\ left \in Nat /\ n \in Nat /\ NrFiles \in Nat
      /\ entries \subseteq Nat \X Items
      /\ entries = Rows(q, n)
  <2>1. q \in Seq(Messages)
    BY DEF MonitorInv, MonitorStates
  <2>2. n \in Nat
    BY <2>1
  <2> QED
    BY <2>1, <2>2, ZmqAssumption DEF MonitorInv, MonitorStates, MonitorTellsWhatItSaw
<1>2. NrFiles > 0 => left + n = NrFiles
  BY DEF MonitorInv
<1>3. /\ monitor'.seen = after
      /\ monitor'.entries = entries \cup IF Readable(m) THEN {Row(m)} ELSE {}
      /\ monitor'.left = IF NrFiles > 0 /\ left > 0 THEN left - 1 ELSE left
      /\ monitor'.running = GoesOn(m)
      /\ monitor' = [running |-> monitor'.running, left |-> monitor'.left,
                     entries |-> monitor'.entries, seen |-> monitor'.seen]
  BY DEF Monitored, Counted
<1>4. /\ GoesOn(m) \in BOOLEAN
      /\ GoesOn(m) => (Readable(m) \/ Short(m)) /\ (NrFiles > 0 => left > 0)
      /\ ~GoesOn(m) => ~(Readable(m) \/ Short(m)) \/ (NrFiles > 0 /\ ~(left > 0))
  BY DEF GoesOn
<1>5. /\ after \in Seq(Messages) /\ Len(after) = n + 1 /\ after[n + 1] = m
      /\ Rows(after, n) = Rows(q, n)
      /\ Rows(after, n + 1) = Rows(q, n) \cup IF Short(m) THEN {} ELSE {Row(m)}
  BY <1>1, AppendMessage, RowsGrow DEF Row
<1>6. Row(m) \in Nat \X Items /\ (Readable(m) => ~Short(m))
  BY <1>1 DEF Row, Messages, Readable, Short
<1>7. Readable(m)' = Readable(m) /\ Short(m)' = Short(m)
  BY DEF Short
<1>8. (n + 1) - 1 = n
  BY <1>1
<1>9. MonitorTellsWhatItSaw' <=>
        IF monitor'.running
          THEN monitor'.entries = Rows(after, n + 1) /\ (NrFiles > 0 => n + 1 <= NrFiles)
          ELSE \/ /\ monitor'.entries = Rows(after, n)
                  /\ ~Readable(m) /\ ~Short(m)
               \/ monitor'.entries = Rows(after, n + 1) /\ NrFiles > 0 /\ n + 1 = NrFiles + 1
  BY <1>3, <1>5, <1>7, <1>8 DEF MonitorTellsWhatItSaw, Readable, Short
<1> HIDE DEF q, n, left, entries, after
<1>10. monitor' \in MonitorStates
  <2>1. monitor'.left \in Nat /\ monitor'.running \in BOOLEAN
    BY <1>1, <1>3, <1>4
  <2>2. monitor'.entries \in SUBSET (Nat \X Items)
    BY <1>1, <1>3, <1>6
  <2> QED
    BY <1>3, <1>5, <2>1, <2>2 DEF MonitorStates
<1>11. MonitorTellsWhatItSaw'
  <2>1. CASE Readable(m) \/ Short(m)
    <3>1. monitor'.entries = Rows(after, n + 1)
      BY <1>1, <1>3, <1>5, <1>6, <2>1
    <3>2. CASE monitor'.running
      <4>1. NrFiles > 0 => n + 1 <= NrFiles
        BY <1>1, <1>2, <1>3, <1>4, <3>2
      <4> QED
        BY <1>9, <3>1, <3>2, <4>1
    <3>3. CASE ~monitor'.running
      <4>1. NrFiles > 0 /\ ~(left > 0)
        BY <1>3, <1>4, <2>1, <3>3
      <4>2. n + 1 = NrFiles + 1
        BY <1>1, <1>2, <4>1
      <4> QED
        BY <1>9, <3>1, <3>3, <4>1, <4>2
    <3> QED
      BY <3>2, <3>3
  <2>2. CASE ~(Readable(m) \/ Short(m))
    <3>1. monitor'.entries = Rows(after, n) /\ ~monitor'.running
      BY <1>1, <1>3, <1>4, <1>5, <2>2
    <3> QED
      BY <1>9, <2>2, <3>1
  <2> QED
    BY <2>1, <2>2
<1>12. (monitor.running /\ NrFiles > 0 => monitor.left + Len(monitor.seen) = NrFiles)'
  <2> SUFFICES ASSUME monitor'.running, NrFiles > 0
               PROVE  monitor'.left + Len(monitor'.seen) = NrFiles
    OBVIOUS
  <2>1. left > 0
    BY <1>3, <1>4
  <2> QED
    BY <1>1, <1>2, <1>3, <1>5, <2>1
<1> QED
  BY <1>10, <1>11, <1>12 DEF MonitorInv

LEMMA MonitorMoves ==
  PublisherInv /\ [ZNext]_zvars
    => \/ UNCHANGED monitor
       \/ monitor.running /\ \E m \in Messages : monitor' = Monitored(m)
<1> SUFFICES ASSUME PublisherInv, [ZNext]_zvars
             PROVE  \/ UNCHANGED monitor
                    \/ monitor.running /\ \E m \in Messages : monitor' = Monitored(m)
  OBVIOUS
<1>1. ASSUME NEW c \in Consumers, SocketSends(c)
      PROVE  \/ UNCHANGED monitor
             \/ monitor.running /\ \E m \in Messages : monitor' = Monitored(m)
  <2>1. PICK frame \in Frames : Delivered([item |-> citem[c], frame |-> frame])
    BY <1>1 DEF SocketSends, Frames
  <2>2. [item |-> citem[c], frame |-> frame] \in Messages
    BY <1>1, AcceptedOnce DEF SocketSends, Messages
  <2> QED
    BY <2>1, <2>2 DEF Delivered
<1> QED
  BY <1>1 DEF ZNext, ZConsume, SocketRaises, Elsewhere, CloseSocket, ZStopRunning, ZStop,
              StartSubscriber, Receive, zvars

LEMMA KindsStay == [ZNext]_zvars => UNCHANGED kind
BY DEF ZNext, ZConsume, SocketSends, SocketRaises, Elsewhere, CloseSocket, ZStopRunning, ZStop,
       StartSubscriber, Receive, zvars

LEMMA MonitorStands == ASSUME MonitorInv, UNCHANGED <<monitor, kind>> PROVE MonitorInv'
BY DEF MonitorInv, MonitorTellsWhatItSaw, Rows, Readable

(* Whatever the monitor meets, it has booked every message it saw while it  *)
(* runs, those too short to be a file excepted, and it has ended at the     *)
(* first it could not read or at one more than it was asked for.            *)
THEOREM MonitorIsTrue == ZSpec => []MonitorTellsWhatItSaw
<1>1. ZInit => MonitorInv
  <2> SUFFICES ASSUME ZInit PROVE MonitorInv
    OBVIOUS
  <2>1. monitor = [running |-> TRUE, left |-> NrFiles, entries |-> {}, seen |-> <<>>]
    BY DEF ZInit
  <2>2. <<>> \in Seq(Messages) /\ Len(<<>>) = 0 /\ NrFiles \in Nat
    BY ZmqAssumption
  <2>3. Rows(<<>>, 0) = {}
    <3>1. 1..0 = {}
      OBVIOUS
    <3> QED
      BY <3>1 DEF Rows
  <2> QED
    BY <2>1, <2>2, <2>3 DEF MonitorInv, MonitorStates, MonitorTellsWhatItSaw
<1>2. PublisherInv /\ MonitorInv /\ [ZNext]_zvars => MonitorInv'
  <2> SUFFICES ASSUME PublisherInv, MonitorInv, [ZNext]_zvars PROVE MonitorInv'
    OBVIOUS
  <2>1. UNCHANGED kind
    BY KindsStay
  <2>2. \A m : Readable(m)' = Readable(m)
    BY <2>1 DEF Readable
  <2> QED
    BY <2>1, <2>2, MonitorMoves, MonitorStands, MonitoredKeeps
<1>3. MonitorInv => MonitorTellsWhatItSaw
  BY DEF MonitorInv
<1> QED
  BY <1>1, <1>2, <1>3, PublisherInvInvariance, PTL DEF ZSpec
=============================================================================
