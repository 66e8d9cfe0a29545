--------------------------- MODULE PublishContract ---------------------------
(***************************************************************************)
(* What a publisher promises the backend, whatever its threads do: a file  *)
(* handed to publish is rejected at once or joins a bounded line; files    *)
(* leave the line oldest first and each is attempted once; after the       *)
(* publisher closes no file joins or leaves the line, so that the files    *)
(* still in it are abandoned.                                              *)
(***************************************************************************)
EXTENDS Naturals, Sequences

CONSTANTS
  Items,     (* the files handed to the publisher                              *)
  QueueSize  (* the greatest length of the line; 0 means no limit              *)

VARIABLES
  line,      (* the files waiting, oldest first                                *)
  state,     (* state[i]: how far item i has come                              *)
  open       (* whether the publisher takes and attempts files                 *)

vars == <<line, state, open>>

States == {"new", "rejected", "waiting", "busy", "sent", "failed"}

Init ==
  /\ line = <<>>
  /\ state = [i \in Items |-> "new"]
  /\ open = TRUE

Reject(i) ==
  /\ state[i] = "new"
  /\ state' = [state EXCEPT ![i] = "rejected"]
  /\ UNCHANGED <<line, open>>

Accept(i) ==
  /\ open
  /\ state[i] = "new"
  /\ QueueSize > 0 => Len(line) < QueueSize
  /\ state' = [state EXCEPT ![i] = "waiting"]
  /\ line' = Append(line, i)
  /\ UNCHANGED open

Pick ==
  /\ open
  /\ line # <<>>
  /\ state' = [state EXCEPT ![Head(line)] = "busy"]
  /\ line' = Tail(line)
  /\ UNCHANGED open

Settle(i) ==
  /\ state[i] = "busy"
  /\ \E v \in {"sent", "failed"} : state' = [state EXCEPT ![i] = v]
  /\ UNCHANGED <<line, open>>

Close ==
  /\ open
  /\ open' = FALSE
  /\ UNCHANGED <<line, state>>

Next ==
  \/ \E i \in Items : Reject(i) \/ Accept(i) \/ Settle(i)
  \/ Pick
  \/ Close

Spec == Init /\ [][Next]_vars

(* While it is open every file of the line is attempted, and every attempt *)
(* comes to an end.                                                        *)
FairSpec == Spec /\ WF_vars(Pick) /\ \A i \in Items : WF_vars(Settle(i))
=============================================================================
