-------------------------- MODULE StandardPublisher --------------------------
(***************************************************************************)
(* One standard_publisher of net/publishers.py from start() to the return  *)
(* of stop(): the threads of the backend that publish files, the queue,    *)
(* the consumer threads that hand queued files to the connections, and the *)
(* thread of the configuration monitor that stops the publisher.           *)
(*                                                                         *)
(* An item is one call of publish, with the temporary copy of the file it  *)
(* makes.  What decorators do to the copy is abstracted to whether the     *)
(* call goes on, discards the file or raises.                              *)
(***************************************************************************)
EXTENDS Naturals, Sequences, FiniteSets

CONSTANTS
  Callers,    (* the threads that run SimpleBackend.store_file                 *)
  Consumers,  (* the threads started by start()                                *)
  Items,      (* the calls of publish explored                                 *)
  NoItem,     (* what a thread with nothing in its hands holds                 *)
  NConn,      (* the connections of the publisher are 1..NConn                 *)
  QueueSize   (* the queue_size argument; 0 means no limit                     *)

ASSUME PublisherAssumption ==
  /\ NConn \in Nat
  /\ QueueSize \in Nat
  /\ NoItem \notin Items

Connections == 1..NConn

VARIABLES
  queue, shut, waiting,  (* self._queue, see ShutdownQueue                     *)
  running,    (* self._running                                                 *)
  caller,     (* caller[p]: the item thread p is in publish with               *)
  cpc,        (* cpc[c]: where consumer thread c is                            *)
  citem,      (* citem[c]: the item consumer c took from the queue             *)
  conn,       (* conn[c]: the connection consumer c is about to call           *)
  spc,        (* where the thread that calls stop() is                         *)
  stopped,    (* stop() was called on the first so many connections            *)
  statOk,     (* statOk[i]: increments of the statistics_ok plugin for i       *)
  statError,  (* statError[i]: increments of the statistics_error plugin       *)
  received,   (* received[k][i]: times connection k transmitted item i         *)
  fate        (* history: what became of each item                             *)

Q == INSTANCE ShutdownQueue

queueVars == <<queue, shut, waiting>>
callerVars == <<caller>>
consumerVars == <<cpc, citem, conn>>
stopVars == <<running, spc, stopped>>
stats == <<statOk, statError>>
vars == <<queue, shut, waiting, running, caller, cpc, citem, conn, spc, stopped,
          statOk, statError, received, fate>>

(* An item ends as one of: refused (publisher going down), discarded (by a *)
(* decorator), raised (out of publish), full, ignored (put after shutdown),*)
(* sent or failed; an item still queued at the end was abandoned.          *)
Fates == {"new", "held", "queued", "sending",
          "refused", "discarded", "raised", "full", "ignored", "sent", "failed"}

Init ==
  /\ Q!InitQueue
  /\ running = TRUE
  /\ caller = [p \in Callers |-> NoItem]
  /\ cpc = [c \in Consumers |-> "test"]
  /\ citem = [c \in Consumers |-> NoItem]
  /\ conn = [c \in Consumers |-> 1]
  /\ spc = "up"
  /\ stopped = 0
  /\ statOk = [i \in Items |-> 0]
  /\ statError = [i \in Items |-> 0]
  /\ received = [k \in Connections |-> [i \in Items |-> 0]]
  /\ fate = [i \in Items |-> "new"]

----------------------------------------------------------------------------
(* publish(self, file, meta), by thread p *)

Refuse(p, i) ==
  /\ caller[p] = NoItem /\ fate[i] = "new"
  /\ ~running
  /\ fate' = [fate EXCEPT ![i] = "refused"]
  /\ UNCHANGED <<queueVars, callerVars, consumerVars, stopVars, stats, received>>

(* The running test, and the copy of the file. *)
Begin(p, i) ==
  /\ caller[p] = NoItem /\ fate[i] = "new"
  /\ running
  /\ caller' = [caller EXCEPT ![p] = i]
  /\ fate' = [fate EXCEPT ![i] = "held"]
  /\ UNCHANGED <<queueVars, consumerVars, stopVars, stats, received>>

(* publish ends without the queue: a decorator with discard_on_none gave    *)
(* None, or the copy, a decorator or the new metadata raised.               *)
GiveUp(p) ==
  /\ caller[p] # NoItem
  /\ caller' = [caller EXCEPT ![p] = NoItem]
  /\ \E f \in {"discarded", "raised"} : fate' = [fate EXCEPT ![caller[p]] = f]
  /\ UNCHANGED <<queueVars, consumerVars, stopVars, stats, received>>

(* self._queue.put((tmpfile, meta)) and what follows Full. *)
Enqueue(p) ==
  /\ caller[p] # NoItem
  /\ caller' = [caller EXCEPT ![p] = NoItem]
  /\ \/ /\ Q!Put(caller[p])
        /\ fate' = [fate EXCEPT ![caller[p]] = "queued"]
        /\ UNCHANGED stats
     \/ /\ Q!PutFull
        /\ fate' = [fate EXCEPT ![caller[p]] = "full"]
        /\ statError' = [statError EXCEPT ![caller[p]] = @ + 1]
        /\ UNCHANGED statOk
     \/ /\ Q!PutIgnored
        /\ fate' = [fate EXCEPT ![caller[p]] = "ignored"]
        /\ UNCHANGED stats
  /\ UNCHANGED <<consumerVars, stopVars, received>>

----------------------------------------------------------------------------
(* consumer(self), by thread c *)

Test(c) ==
  /\ cpc[c] = "test"
  /\ cpc' = [cpc EXCEPT ![c] = IF running THEN "get" ELSE "done"]
  /\ UNCHANGED <<queueVars, callerVars, citem, conn, stopVars, stats, received, fate>>

Take(c) ==
  /\ cpc[c] = "get"
  /\ Q!Get(c)
  /\ cpc' = [cpc EXCEPT ![c] = "send"]
  /\ citem' = [citem EXCEPT ![c] = Head(queue)]
  /\ conn' = [conn EXCEPT ![c] = 1]
  /\ fate' = [fate EXCEPT ![Head(queue)] = "sending"]
  /\ UNCHANGED <<callerVars, stopVars, stats, received>>

Sleep(c) ==
  /\ cpc[c] = "get"
  /\ Q!Wait(c)
  /\ UNCHANGED <<callerVars, consumerVars, stopVars, stats, received, fate>>

WakeUp(c) ==
  /\ Q!WaitTimesOut(c)
  /\ UNCHANGED <<callerVars, consumerVars, stopVars, stats, received, fate>>

(* get raises; the except clause leaves the loop when not running. *)
Leave(c) ==
  /\ cpc[c] = "get"
  /\ Q!GetShutdown(c)
  /\ cpc' = [cpc EXCEPT ![c] = IF running THEN "test" ELSE "done"]
  /\ UNCHANGED <<callerVars, citem, conn, stopVars, stats, received, fate>>

Transmitted(c) ==
  received' = [received EXCEPT ![conn[c]][citem[c]] = @ + 1]

(* The file handling of c ends: back to the loop test. *)
Finish(c, f) ==
  /\ cpc' = [cpc EXCEPT ![c] = "test"]
  /\ citem' = [citem EXCEPT ![c] = NoItem]
  /\ conn' = [conn EXCEPT ![c] = 1]
  /\ fate' = [fate EXCEPT ![citem[c]] = f]

(* connection.publish(tmpfile.name, meta) returns. *)
SendWorks(c) ==
  /\ cpc[c] = "send"
  /\ conn[c] <= NConn
  /\ Transmitted(c)
  /\ conn' = [conn EXCEPT ![c] = @ + 1]
  /\ UNCHANGED <<queueVars, callerVars, cpc, citem, stopVars, stats, fate>>

(* Mutant: the exception of one connection is swallowed in do_publish. *)
SendFailsOn(c) ==
  /\ cpc[c] = "send"
  /\ conn[c] <= NConn
  /\ conn' = [conn EXCEPT ![c] = @ + 1]
  /\ UNCHANGED <<queueVars, callerVars, cpc, citem, stopVars, stats, received, fate>>

(* It raises, before or after the file was transmitted: the remaining       *)
(* connections are not called.                                              *)
SendFails(c) ==
  /\ cpc[c] = "send"
  /\ conn[c] <= NConn
  /\ Transmitted(c) \/ UNCHANGED received
  /\ statError' = [statError EXCEPT ![citem[c]] = @ + 1]
  /\ Finish(c, "failed")
  /\ UNCHANGED <<queueVars, callerVars, stopVars, statOk>>

(* All connections returned: the copy is closed, the file counts as sent. *)
SendDone(c) ==
  /\ cpc[c] = "send"
  /\ conn[c] > NConn
  /\ statOk' = [statOk EXCEPT ![citem[c]] = @ + 1]
  /\ Finish(c, "sent")
  /\ UNCHANGED <<queueVars, callerVars, stopVars, statError, received>>

----------------------------------------------------------------------------
(* stop(self), by the configuration monitor *)

StopRunning ==
  /\ spc = "up"
  /\ running' = FALSE
  /\ spc' = "shutdown"
  /\ UNCHANGED <<queueVars, callerVars, consumerVars, stopped, stats, received, fate>>

StopQueue ==
  /\ spc = "shutdown"
  /\ Q!Shutdown
  /\ spc' = "join"
  /\ UNCHANGED <<callerVars, consumerVars, running, stopped, stats, received, fate>>

(* Mutant: the threads are not joined. *)
SkipJoin ==
  /\ spc = "join"
  /\ spc' = "connections"
  /\ UNCHANGED <<queueVars, callerVars, consumerVars, running, stopped, stats, received, fate>>

StopJoin ==
  /\ spc = "join"
  /\ \A c \in Consumers : cpc[c] = "done"
  /\ spc' = "connections"
  /\ UNCHANGED <<queueVars, callerVars, consumerVars, running, stopped, stats, received, fate>>

(* c.stop() in the order of the list; an exception in it is swallowed. *)
StopConnection ==
  /\ spc = "connections"
  /\ stopped < NConn
  /\ stopped' = stopped + 1
  /\ UNCHANGED <<queueVars, callerVars, consumerVars, running, spc, stats, received, fate>>

StopReturns ==
  /\ spc = "connections"
  /\ stopped = NConn
  /\ spc' = "down"
  /\ UNCHANGED <<queueVars, callerVars, consumerVars, running, stopped, stats, received, fate>>

----------------------------------------------------------------------------
Publish(p) == GiveUp(p) \/ Enqueue(p) \/ \E i \in Items : Refuse(p, i) \/ Begin(p, i)

Consume(c) ==
  \/ Test(c) \/ Take(c) \/ Sleep(c) \/ Leave(c)
  \/ SendWorks(c) \/ SendFails(c) \/ SendDone(c)

Stop == StopQueue \/ StopJoin \/ StopConnection \/ StopReturns

Next ==
  \/ \E p \in Callers : Publish(p)
  \/ \E c \in Consumers : Consume(c) \/ WakeUp(c)
  \/ StopRunning
  \/ Stop

Spec == Init /\ [][Next]_vars

(* Threads are scheduled, a connection returns or raises in the end, and a *)
(* stop() that began goes on.  Nobody has to call stop(), and the timeout  *)
(* of the condition is not relied on.                                      *)
Fairness == WF_vars(Stop) /\ \A c \in Consumers : WF_vars(Consume(c))

FairSpec == Spec /\ Fairness

----------------------------------------------------------------------------
(* Properties *)

(* The types of the state. *)
TypeOK ==
  /\ queue \in Seq(Items)
  /\ shut \in BOOLEAN /\ running \in BOOLEAN
  /\ waiting \subseteq Consumers
  /\ caller \in [Callers -> Items \cup {NoItem}]
  /\ cpc \in [Consumers -> {"test", "get", "send", "done"}]
  /\ citem \in [Consumers -> Items \cup {NoItem}]
  /\ conn \in [Consumers -> 1..(NConn + 1)]
  /\ spc \in {"up", "shutdown", "join", "connections", "down"}
  /\ stopped \in 0..NConn
  /\ statOk \in [Items -> Nat] /\ statError \in [Items -> Nat]
  /\ received \in [Connections -> [Items -> Nat]]
  /\ fate \in [Items -> Fates]

InQueue(i) == \E a \in 1..Len(queue) : queue[a] = i

(* The place of item i, told by the history, is the one place where it is: *)
(* no item is in two hands, in the queue twice, in the queue and in a hand,*)
(* or nowhere (pubQueue.put, pubQueue.get and their callers).              *)
EveryItemInOnePlace ==
  /\ \A a, b \in 1..Len(queue) : queue[a] = queue[b] => a = b
  /\ \A p, q \in Callers : caller[p] = caller[q] /\ caller[p] # NoItem => p = q
  /\ \A c, d \in Consumers : citem[c] = citem[d] /\ citem[c] # NoItem => c = d
  /\ \A i \in Items :
       /\ fate[i] = "queued" <=> InQueue(i)
       /\ fate[i] = "held" <=> \E p \in Callers : caller[p] = i
       /\ fate[i] = "sending" <=> \E c \in Consumers : citem[c] = i

(* No consumer sleeps while an item waits or the queue is shut down: items *)
(* and stop() never wait for the ten seconds of the condition.             *)
NoLostWakeup == Q!NoLostWakeup

(* The statistics tell what the connections saw: an item counts as ok once, *)
(* when every connection transmitted it exactly once, and as an error once, *)
(* when it was dropped by a full queue or one connection raised; never both.*)
StatisticsTellTruth ==
  \A i \in Items :
    /\ statOk[i] + statError[i] <= 1
    /\ statOk[i] = 1 => \A k \in Connections : received[k][i] = 1
    /\ statError[i] = 1 => fate[i] \in {"full", "failed"}
    /\ fate[i] \in {"full", "failed", "sent"} => statOk[i] + statError[i] = 1

(* When stop() begins to stop the connections no consumer is or will be in *)
(* one of them: from then on nothing is transmitted, counted or queued.    *)
StopIsFinal ==
  [][(spc \in {"connections", "down"}) => UNCHANGED <<queue, received, stats, cpc>>]_vars

(* A stop() that began returns, whatever the queue holds and the callers of *)
(* publish do.                                                              *)
StopTerminates == spc # "up" ~> spc = "down"

(* The publisher implements the contract of the backend: bounded, oldest    *)
(* first, one attempt each, every queued file attempted unless stop() comes.*)
ContractState(i) ==
  CASE fate[i] \in {"new", "held"} -> "new"
    [] fate[i] \in {"refused", "discarded", "raised", "full", "ignored"} -> "rejected"
    [] fate[i] = "queued" -> "waiting"
    [] fate[i] = "sending" -> "busy"
    [] OTHER -> fate[i]

Contract == INSTANCE PublishContract WITH
  line <- queue, state <- [i \in Items |-> ContractState(i)], open <- ~shut

ImplementsContract == Contract!FairSpec
=============================================================================
