---------------------------- MODULE ShutdownQueue ----------------------------
(***************************************************************************)
(* The class pubQueue of net/publishers.py (and its copy util.jobQueue): a *)
(* queue.Queue with a non-blocking put, a get that sleeps on a condition,  *)
(* and a shutdown.  Each method runs inside "with self._condition", so it  *)
(* is one step, except that Condition.wait gives the lock back: a consumer *)
(* that found nothing is in waiting until put or shutdown notify it or its *)
(* wait times out, and then tests everything again.                        *)
(*                                                                         *)
(* This module is a component: the module of the owner of the queue        *)
(* conjoins these actions with what the calling thread does.               *)
(***************************************************************************)
EXTENDS Naturals, Sequences

CONSTANTS
  Consumers,  (* the threads that call get                                     *)
  QueueSize   (* the qs of the constructor; queue.Queue takes 0 as "no limit"  *)

VARIABLES
  queue,      (* self._queue: the items, oldest first                          *)
  shut,       (* self._shutdown                                                *)
  waiting     (* the consumers asleep in self._condition.wait                  *)

queueVars == <<queue, shut, waiting>>

InitQueue == queue = <<>> /\ shut = FALSE /\ waiting = {}

(* Queue.put(block=False) raises Full. *)
Full == QueueSize > 0 /\ Len(queue) >= QueueSize

(* Mutant: the condition is not notified. *)
NotifyNobody == waiting' = waiting

(* self._condition.notify_all() *)
NotifyAll == waiting' = {}

Put(x) ==
  /\ ~shut
  /\ ~Full
  /\ queue' = Append(queue, x)
  /\ NotifyAll
  /\ UNCHANGED shut

(* The finally clause notifies although nothing was added. *)
PutFull ==
  /\ ~shut
  /\ Full
  /\ NotifyAll
  /\ UNCHANGED <<queue, shut>>

(* After shutdown the item is ignored and the caller is not told. *)
PutIgnored ==
  /\ shut
  /\ NotifyAll
  /\ UNCHANGED <<queue, shut>>

(* Mutant: the item is read but not removed. *)
GetKeeps(c) ==
  /\ c \notin waiting
  /\ ~shut
  /\ queue # <<>>
  /\ UNCHANGED queueVars

(* Mutant: get returns items of a queue that was shut down. *)
GetAnyway(c) ==
  /\ c \notin waiting
  /\ queue # <<>>
  /\ queue' = Tail(queue)
  /\ UNCHANGED <<shut, waiting>>

Get(c) ==
  /\ c \notin waiting
  /\ ~shut
  /\ queue # <<>>
  /\ queue' = Tail(queue)
  /\ UNCHANGED <<shut, waiting>>

Wait(c) ==
  /\ c \notin waiting
  /\ ~shut
  /\ queue = <<>>
  /\ waiting' = waiting \cup {c}
  /\ UNCHANGED <<queue, shut>>

(* The wait of c reaches its timeout: c tests the queue again. *)
WaitTimesOut(c) ==
  /\ c \in waiting
  /\ waiting' = waiting \ {c}
  /\ UNCHANGED <<queue, shut>>

(* get raises pubQueueShutdown. *)
GetShutdown(c) ==
  /\ c \notin waiting
  /\ shut
  /\ UNCHANGED queueVars

Shutdown ==
  /\ shut' = TRUE
  /\ NotifyAll
  /\ UNCHANGED queue

----------------------------------------------------------------------------
(* No wakeup is lost: a consumer sleeps only while there is nothing to get  *)
(* and nothing to leave for, so that no item ever waits for a timeout.      *)
NoLostWakeup == waiting # {} => queue = <<>> /\ ~shut
=============================================================================
