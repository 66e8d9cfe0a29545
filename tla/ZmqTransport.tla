---------------------------- MODULE ZmqTransport ----------------------------
(***************************************************************************)
(* Files sent over ZeroMQ: the publisher of net/zmq/publisher.py, the      *)
(* subscriber of net/zmq/subscriber.py on another node and the monitor of  *)
(* net/zmq/zmqmonitor.py.                                                  *)
(*                                                                         *)
(* The publisher is a standard_publisher without connections: do_publish   *)
(* writes to one PUB socket instead, which all its consumer threads share, *)
(* and stop() closes the socket before it does what standard_publisher     *)
(* does.  The module takes StandardPublisher with the socket in the place  *)
(* of connection 1: received[1] is what it accepted, stopped = 1 that it   *)
(* is closed.                                                              *)
(*                                                                         *)
(* A PUB socket drops a message for a subscriber that is not connected or  *)
(* is too slow.  It is not made for several threads: of two sends that     *)
(* overlap, either message may come out garbled, or shorter than the 276   *)
(* bytes that precede the content.                                         *)
(***************************************************************************)
EXTENDS StandardPublisher

CONSTANTS
  Subscribers,    (* the subscriber threads that may be started, 1..n          *)
  FileKinds,      (* the ways to give every item a kind                        *)
  NrFiles         (* the nrfiles of the monitor; 0: no limit                   *)

(* What decides the way of a file: its name, whose 256 bytes are encoded   *)
(* as latin1 by one side and decoded as utf-8 by the other, and its size.  *)
Kinds == {"plain", "long name", "latin name", "foreign name", "large"}

ASSUME ZmqAssumption ==
  /\ NConn = 1
  /\ NrFiles \in Nat
  /\ Subscribers \subseteq Nat \ {0}
  /\ FileKinds \subseteq [Items -> Kinds]

VARIABLES
  kind,     (* the kind of each item                                           *)
  inbox,    (* inbox[s]: the messages subscriber thread s has yet to receive,  *)
            (* each [item, frame]                                              *)
  started,  (* the subscriber threads started so far; none ever ends           *)
  stored,   (* the messages the backend of the subscriber took                 *)
  jail,     (* those of which the folder jail has a copy                       *)
  monitor   (* the monitor: [running, left, entries, seen]: whether it runs    *)
            (* and its ctr; the rows of its table, each with the number of the *)
            (* message it is of; history: the messages it received             *)

subVars == <<inbox, started, stored, jail>>
zvars == <<vars, kind, subVars, monitor>>

ZInit ==
  /\ Init
  /\ kind \in FileKinds
  /\ inbox = [s \in Subscribers |-> <<>>]
  /\ started = {} /\ stored = {} /\ jail = {}
  /\ monitor = [running |-> TRUE, left |-> NrFiles, entries |-> {}, seen |-> <<>>]

(* Steps of standard_publisher that the socket does not take part in. *)
Elsewhere == UNCHANGED <<kind, subVars, monitor>>

SocketOpen == stopped = 0

Frames == {"whole", "garbled", "short"}
Short(m) == m.frame = "short"

----------------------------------------------------------------------------
(* The monitor: process returns when the message is short.  It raises when *)
(* the name cannot be decoded, and, since it uses values that were never   *)
(* assigned, when the hmac is wrong or the content unreadable; run does    *)
(* not catch that.                                                         *)
Readable(m) == m.frame = "whole" /\ kind[m.item] \in {"plain", "large"}

Row(m) == <<Len(monitor.seen) + 1, m.item>>

(* ctr is looked at before it is counted down. *)
Counted == IF NrFiles > 0 /\ monitor.left > 0 THEN monitor.left - 1 ELSE monitor.left
GoesOn(m) == (Readable(m) \/ Short(m)) /\ (NrFiles > 0 => monitor.left > 0)

(* Mutant: an entry is stored before the file is read. *)
MonitorBooksAll(m) ==
  [running |-> GoesOn(m), left |-> Counted,
   entries |-> monitor.entries \cup {Row(m)},
   seen |-> Append(monitor.seen, m)]

Monitored(m) ==
  [running |-> GoesOn(m), left |-> Counted,
   entries |-> monitor.entries \cup IF Readable(m) THEN {Row(m)} ELSE {},
   seen |-> Append(monitor.seen, m)]

----------------------------------------------------------------------------
(* do_publish of consumer c: the message [hmac, name, content] goes to     *)
(* whoever is listening and keeps up.                                      *)
Delivered(m) ==
  /\ \E reached \in SUBSET started :
       inbox' = [s \in Subscribers |->
                   IF s \in reached THEN Append(inbox[s], m) ELSE inbox[s]]
  /\ monitor' \in {monitor} \cup IF monitor.running THEN {Monitored(m)} ELSE {}

Overlapping(c) == \E d \in Consumers \ {c} : cpc[d] = "send"

SocketSends(c) ==
  /\ SocketOpen
  /\ SendWorks(c)
  /\ kind[citem[c]] # "foreign name"
  /\ \E frame \in IF Overlapping(c) THEN Frames ELSE {"whole"} :
       Delivered([item |-> citem[c], frame |-> frame])
  /\ UNCHANGED <<kind, started, stored, jail>>

(* Mutant: the exception ends the thread. *)
SocketKillsThread(c) ==
  /\ cpc[c] = "send" /\ conn[c] <= NConn
  /\ kind[citem[c]] = "foreign name"
  /\ cpc' = [cpc EXCEPT ![c] = "done"]
  /\ UNCHANGED <<queueVars, callerVars, citem, conn, stopVars, stats, received, fate>>
  /\ Elsewhere

(* send on a closed socket raises, so does the encoding of the name. *)
SocketRaises(c) ==
  /\ SendFails(c)
  /\ ~SocketOpen \/ kind[citem[c]] = "foreign name"
  /\ received' = received
  /\ Elsewhere

ZConsume(c) ==
  \/ (Test(c) \/ Take(c) \/ Sleep(c) \/ Leave(c) \/ SendDone(c)) /\ Elsewhere
  \/ SocketSends(c) \/ SocketRaises(c)

(* stop(): the socket first, the rest as in standard_publisher. *)
CloseSocket ==
  /\ spc = "up"
  /\ SocketOpen
  /\ stopped' = 1
  /\ UNCHANGED <<queueVars, callerVars, consumerVars, running, spc, stats,
                 received, fate>>
  /\ Elsewhere

ZStopRunning == ~SocketOpen /\ StopRunning /\ Elsewhere

ZStop ==
  /\ StopQueue \/ StopJoin \/ StopReturns
  /\ Elsewhere

----------------------------------------------------------------------------
(* A subscriber thread is started with the node, and one more each time    *)
(* the configuration file of the subscriber is written: the loop of the    *)
(* thread has no end.                                                      *)
StartSubscriber(s) ==
  /\ s = Cardinality(started) + 1
  /\ started' = started \cup {s}
  /\ UNCHANGED <<vars, kind, inbox, stored, jail, monitor>>

(* Mutant: the hmac is not compared. *)
Trusted(m) == kind[m.item] \notin {"latin name", "large"}

(* What process lets through: neither short nor longer, with its 276 bytes *)
(* of header, than max_content_length; a name in utf-8, the right hmac.    *)
Accepted(m) == m.frame = "whole" /\ kind[m.item] \notin {"latin name", "large"}

(* process: store_file takes the file or raises, because it is a duplicate *)
(* or not a file: 256 bytes of a longer name are cut off and the rest      *)
(* heads the content.  The jail then gets a copy.                          *)
Receive(s) ==
  /\ inbox[s] # <<>>
  /\ LET m == Head(inbox[s]) IN
       IF ~Accepted(m) THEN UNCHANGED <<stored, jail>>
       ELSE IF m \in stored \/ kind[m.item] = "long name"
         THEN jail' = jail \cup {m} /\ UNCHANGED stored
         ELSE stored' = stored \cup {m} /\ UNCHANGED jail
  /\ inbox' = [inbox EXCEPT ![s] = Tail(@)]
  /\ UNCHANGED <<vars, kind, started, monitor>>

ZNext ==
  \/ \E p \in Callers : Publish(p) /\ Elsewhere
  \/ \E c \in Consumers : ZConsume(c) \/ (WakeUp(c) /\ Elsewhere)
  \/ CloseSocket \/ ZStopRunning \/ ZStop
  \/ \E s \in Subscribers : StartSubscriber(s) \/ Receive(s)

(* As for standard_publisher; a subscriber receives what has come. *)
ZSpec ==
  /\ ZInit /\ [][ZNext]_zvars
  /\ WF_zvars(ZStopRunning) /\ WF_zvars(ZStop)
  /\ \A c \in Consumers : WF_zvars(ZConsume(c))
  /\ \A s \in Subscribers : WF_zvars(Receive(s))

----------------------------------------------------------------------------
(* What the subscribing node stores is what was published: the file went   *)
(* through the socket, and arrived whole and under its name.               *)
StoredIsWhatWasSent ==
  \A m \in stored :
    /\ m.frame = "whole"
    /\ received[1][m.item] = 1
    /\ kind[m.item] = "plain"

(* The rows that the first n messages should leave: one for each, but none *)
(* for those that are short.                                               *)
Rows(messages, n) == {<<k, messages[k].item>> : k \in {j \in 1..n : ~Short(messages[j])}}

(* A monitor that runs has a row for every message it received that was    *)
(* not short; one that ended received nrfiles + 1 messages, or the last    *)
(* one, of which it has no row, was one that it could not read.            *)
MonitorTellsWhatItSaw ==
  LET seen == monitor.seen
      n == Len(seen)
  IN
  IF monitor.running
    THEN monitor.entries = Rows(seen, n) /\ (NrFiles > 0 => n <= NrFiles)
    ELSE \/ /\ monitor.entries = Rows(seen, n - 1)
            /\ ~Readable(seen[n]) /\ ~Short(seen[n])
         \/ monitor.entries = Rows(seen, n) /\ NrFiles > 0 /\ n = NrFiles + 1

(* net/zmq/zmqmonitor.py:315 says of process that "on success an entry is  *)
(* stored in the database, otherwise nothing will happen", and line 347    *)
(* that the loop of run is infinite without a number of files.  The code   *)
(* ends the monitor at the first message it cannot read.                   *)
LoopIsInfinite == NrFiles = 0 => monitor.running
=============================================================================
