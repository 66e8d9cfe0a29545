---------------------------- MODULE ParallelSender ----------------------------
(***************************************************************************)
(* One parallel_connection_sender of net/connections.py: the publisher's    *)
(* consumer threads call send, which copies the file and queues the copy;   *)
(* one thread of its own takes copies from the queue and gives them to the  *)
(* sender; the thread that stops the publisher stops it.                    *)
(*                                                                         *)
(* A parallel_connection calls send on each of these in turn and catches   *)
(* what it raises, and they share nothing: one of them stands for all.     *)
(* An item is one call of send.                                            *)
(***************************************************************************)
EXTENDS Naturals, Sequences

CONSTANTS
  Callers,    (* the consumer threads of the publisher                         *)
  Worker,     (* the thread started by start()                                 *)
  Items,      (* the calls of send explored                                    *)
  NoItem,     (* what a thread with nothing in its hands holds                 *)
  QueueSize   (* the queue_size argument of the connection                     *)

ASSUME ParallelSenderAssumption ==
  QueueSize \in Nat /\ NoItem \notin Items

VARIABLES
  queue, shut, waiting,  (* self._queue, see ShutdownQueue                     *)
  running,   (* self._running                                                  *)
  caller,    (* caller[p]: the item thread p is in send with                   *)
  wpc,       (* where the worker is                                            *)
  witem,     (* the item it took from the queue                                *)
  copies,    (* the items whose temporary copy is open                         *)
  lpc,       (* where the thread that calls stop() is                          *)
  fate       (* history: what became of each item                              *)

Q == INSTANCE ShutdownQueue WITH Consumers <- {Worker}

queueVars == <<queue, shut, waiting>>
workerVars == <<wpc, witem>>
stopVars == <<running, lpc>>
lineVars == <<queue, shut, waiting, running, caller, wpc, witem, copies, lpc, fate>>

LineInit ==
  /\ Q!InitQueue
  /\ running = TRUE
  /\ caller = [p \in Callers |-> NoItem]
  /\ wpc = "test"
  /\ witem = NoItem
  /\ copies = {}
  /\ lpc = "up"
  /\ fate = [i \in Items |-> "new"]

----------------------------------------------------------------------------
(* send(self, path, meta), by thread p *)

(* The copy is made; there is no test of _running. *)
CopyFile(p, i) ==
  /\ caller[p] = NoItem /\ fate[i] = "new"
  /\ caller' = [caller EXCEPT ![p] = i]
  /\ copies' = copies \cup {i}
  /\ fate' = [fate EXCEPT ![i] = "held"]
  /\ UNCHANGED <<queueVars, workerVars, stopVars>>

(* The file cannot be read or written: the copy goes with the exception. *)
CopyFails(p) ==
  /\ caller[p] # NoItem
  /\ caller' = [caller EXCEPT ![p] = NoItem]
  /\ copies' = copies \ {caller[p]}
  /\ fate' = [fate EXCEPT ![caller[p]] = "raised"]
  /\ UNCHANGED <<queueVars, workerVars, stopVars>>

(* Mutant: the copy of an item that found the queue full stays open. *)
EnqueueLeaks(p) ==
  /\ caller[p] # NoItem
  /\ caller' = [caller EXCEPT ![p] = NoItem]
  /\ Q!Put(caller[p]) \/ Q!PutFull \/ Q!PutIgnored
  /\ fate' = [fate EXCEPT ![caller[p]] =
               IF shut THEN "ignored" ELSE IF Q!Full THEN "full" ELSE "queued"]
  /\ UNCHANGED <<workerVars, stopVars, copies>>

(* self._queue.put((tmpfile, meta)).  The copy is closed when the queue is *)
(* full; that of an ignored item goes with its last reference.             *)
Enqueue(p) ==
  /\ caller[p] # NoItem
  /\ caller' = [caller EXCEPT ![p] = NoItem]
  /\ \/ /\ Q!Put(caller[p])
        /\ fate' = [fate EXCEPT ![caller[p]] = "queued"]
        /\ UNCHANGED copies
     \/ /\ Q!PutFull
        /\ fate' = [fate EXCEPT ![caller[p]] = "full"]
        /\ copies' = copies \ {caller[p]}
     \/ /\ Q!PutIgnored
        /\ fate' = [fate EXCEPT ![caller[p]] = "ignored"]
        /\ copies' = copies \ {caller[p]}
  /\ UNCHANGED <<workerVars, stopVars>>

----------------------------------------------------------------------------
(* consumer(self) *)

Test ==
  /\ wpc = "test"
  /\ wpc' = IF running THEN "get" ELSE "done"
  /\ UNCHANGED <<queueVars, caller, witem, copies, stopVars, fate>>

Take ==
  /\ wpc = "get"
  /\ Q!Get(Worker)
  /\ wpc' = "send"
  /\ witem' = Head(queue)
  /\ fate' = [fate EXCEPT ![Head(queue)] = "sending"]
  /\ UNCHANGED <<caller, copies, stopVars>>

Sleep ==
  /\ wpc = "get"
  /\ Q!Wait(Worker)
  /\ UNCHANGED <<caller, workerVars, copies, stopVars, fate>>

WakeUp ==
  /\ Q!WaitTimesOut(Worker)
  /\ UNCHANGED <<caller, workerVars, copies, stopVars, fate>>

LeaveQueue ==
  /\ wpc = "get"
  /\ Q!GetShutdown(Worker)
  /\ wpc' = IF running THEN "test" ELSE "done"
  /\ UNCHANGED <<caller, witem, copies, stopVars, fate>>

(* What a sender may do.  It is given the open file and not its name, over *)
(* which all of net/senders.py that open a path always fail.               *)
Outcomes == {"sent", "failed"}

(* Mutant: an exception ends the thread. *)
ForwardAndDie ==
  /\ wpc = "send"
  /\ \E f \in Outcomes :
       /\ fate' = [fate EXCEPT ![witem] = f]
       /\ wpc' = IF f = "sent" THEN "test" ELSE "done"
  /\ copies' = copies \ {witem}
  /\ witem' = NoItem
  /\ UNCHANGED <<queueVars, caller, stopVars>>

(* self._sender.send(tmpfile, meta), the except clause, and the finally    *)
(* clause that closes the copy.  After an exception the loop is left when  *)
(* the sender is being stopped; otherwise "while" tests that next.         *)
Forward ==
  /\ wpc = "send"
  /\ \E f \in Outcomes :
       /\ fate' = [fate EXCEPT ![witem] = f]
       /\ wpc' = IF f # "sent" /\ ~running THEN "done" ELSE "test"
  /\ copies' = copies \ {witem}
  /\ witem' = NoItem
  /\ UNCHANGED <<queueVars, caller, stopVars>>

----------------------------------------------------------------------------
(* stop(self) *)

StopRunning ==
  /\ lpc = "up"
  /\ running' = FALSE
  /\ lpc' = "shutdown"
  /\ UNCHANGED <<queueVars, caller, workerVars, copies, fate>>

StopQueue ==
  /\ lpc = "shutdown"
  /\ Q!Shutdown
  /\ lpc' = "join"
  /\ UNCHANGED <<caller, workerVars, copies, running, fate>>

LineJoin ==
  /\ lpc = "join"
  /\ wpc = "done"
  /\ lpc' = "down"
  /\ UNCHANGED <<queueVars, caller, workerVars, copies, running, fate>>

----------------------------------------------------------------------------
LineCall(p) == CopyFails(p) \/ Enqueue(p) \/ \E i \in Items : CopyFile(p, i)
Consumer == Test \/ Take \/ Sleep \/ LeaveQueue \/ Forward
Stop == StopQueue \/ LineJoin

LineNext ==
  \/ \E p \in Callers : LineCall(p)
  \/ Consumer \/ WakeUp
  \/ StopRunning \/ Stop

LineSpec == LineInit /\ [][LineNext]_lineVars

(* The worker is scheduled and its sender comes back; a stop() that began  *)
(* goes on.  The ten seconds of the condition are not relied on.           *)
LineFairSpec == LineSpec /\ WF_lineVars(Consumer) /\ WF_lineVars(Stop)

----------------------------------------------------------------------------
(* A temporary copy is open exactly while somebody still has use for it:   *)
(* no way out of send or consumer leaves a copy on the disk of the server, *)
(* and none closes a copy that waits or is being sent.                     *)
CopyOpenWhileNeeded ==
  \A i \in Items : i \in copies <=> fate[i] \in {"held", "queued", "sending"}

(* One slow or failing recipient keeps the promise of a publisher: its line *)
(* is bounded, oldest first, each copy is attempted once and attempted at   *)
(* last unless stop() comes (send, consumer and stop together).             *)
ContractState(i) ==
  CASE fate[i] \in {"new", "held"} -> "new"
    [] fate[i] \in {"raised", "full", "ignored"} -> "rejected"
    [] fate[i] = "queued" -> "waiting"
    [] fate[i] = "sending" -> "busy"
    [] OTHER -> fate[i]

Contract == INSTANCE PublishContract WITH
  line <- queue, state <- [i \in Items |-> ContractState(i)], open <- ~shut

ImplementsContract == Contract!FairSpec

=============================================================================
