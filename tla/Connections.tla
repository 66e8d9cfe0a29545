----------------------------- MODULE Connections -----------------------------
(***************************************************************************)
(* One publish(path, meta) on a connection of net/connections.py.          *)
(*                                                                         *)
(* A connection is a sequence of parts: itself, or for combined_connection *)
(* the connections it was configured with.  Each part calls its senders in *)
(* the order of its list, one of three ways: simple and failover end with  *)
(* the first sender that returns, backup and distributed call them all.    *)
(* A sender is its kind and where it sends to; what a sender of each kind  *)
(* may end in is in Senders.  parallel_connection hands the file to        *)
(* threads instead, see ParallelSender.                                    *)
(*                                                                         *)
(* A call is a record: the part that is running and the position in its    *)
(* list of senders, the <<part, position>> tried, those that returned      *)
(* (worked), those whose recipient has the whole file (got), and how it    *)
(* ends.                                                                   *)
(***************************************************************************)
EXTENDS Naturals, Sequences, Senders

PartKinds == {"simple", "failover", "all"}

(* What the constructors accept. *)
IsConnection(g, Recipients) ==
  /\ g.combined \in BOOLEAN
  /\ g.parts \in Seq([kind : PartKinds, senders : Seq([kind : Kinds, to : Recipients])])
  /\ ~g.combined => Len(g.parts) = 1
  /\ \A n \in DOMAIN g.parts : g.parts[n].kind = "simple" => Len(g.parts[n].senders) = 1

Called(g, file) ==
  [conf |-> g, file |-> file, part |-> 1, pos |-> 1,
   tried |-> {}, worked |-> {}, got |-> {}, outcome |-> "busy"]

Running(call) == call.conf.parts[call.part]
InPart(call) == call.outcome = "busy" /\ call.part <= Len(call.conf.parts)
InSender(call) == InPart(call) /\ call.pos <= Len(Running(call).senders)
Sender(call) == Running(call).senders[call.pos]

(* The publish of the running part returns. *)
PartReturns(call) ==
  [call EXCEPT !.part = @ + 1, !.pos = 1,
               !.outcome = IF call.conf.combined THEN "busy" ELSE "returned"]

(* Mutant: the exception is swallowed. *)
PartSwallows(call) == PartReturns(call)

(* It raises.  combined_connection has an except clause for that, but the  *)
(* clause names a variable "sender" that does not exist: NameError leaves  *)
(* publish.                                                                *)
PartRaises(call) == [call EXCEPT !.outcome = "raised"]

NextSender(call) == [call EXCEPT !.pos = @ + 1]

SenderReturns(call) ==
  IF Running(call).kind = "all" THEN NextSender(call) ELSE PartReturns(call)

(* Mutant: backup_connection has no except clause. *)
SenderRaisesOut(call) ==
  IF Running(call).kind = "failover" THEN NextSender(call) ELSE PartRaises(call)

SenderRaises(call) ==
  IF Running(call).kind = "simple" THEN PartRaises(call) ELSE NextSender(call)

(* The sender that is called ends in the result r of Senders. *)
Ended(call, r) ==
  LET here == {<<call.part, call.pos>>}
      noted == [call EXCEPT !.tried = @ \cup here,
                            !.worked = IF r.returned THEN @ \cup here ELSE @,
                            !.got = IF r.there = "whole" THEN @ \cup here ELSE @]
  IN IF r.returned THEN SenderReturns(noted) ELSE SenderRaises(noted)

(* The loop over the senders is over: failover, which breaks at the first  *)
(* success, has none and raises.                                           *)
SendersExhausted(call) ==
  IF Running(call).kind = "failover" THEN PartRaises(call) ELSE PartReturns(call)

CombinedReturns(call) == [call EXCEPT !.outcome = "returned"]

(* What the publish of part n promised: every sender of a backup or        *)
(* distributed connection was called, whatever the others did, and one     *)
(* sender of a simple or failover connection returned, after all before it *)
(* in the list raised and with none called behind it.  Then its recipient  *)
(* has the whole file, but for the kinds of sender that may return without *)
(* having sent it.                                                         *)
KeptPart(call, n) ==
  LET senders == call.conf.parts[n].senders
      tried == {k \in DOMAIN senders : <<n, k>> \in call.tried}
      Delivered(k) == <<n, k>> \in call.got \/ senders[k].kind \in MayWithhold
  IN IF call.conf.parts[n].kind = "all"
       THEN tried = DOMAIN senders
       ELSE \E k \in tried :
              /\ tried = 1..k
              /\ Delivered(k)
              /\ {l \in tried : <<n, l>> \in call.worked} = {k}

(* A publish that returns kept its promise in every part.                  *)
KeptPromise(call) == \A n \in DOMAIN call.conf.parts : KeptPart(call, n)
=============================================================================
