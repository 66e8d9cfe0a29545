--------------------------- MODULE DuplicateWindow ---------------------------
(***************************************************************************)
(* What the duplicate check of the exchange promises to its callers,       *)
(* whatever data structure it uses: a content hash is answered "duplicate" *)
(* exactly when it was accepted among the last Limit accepted hashes.      *)
(* Being answered "duplicate" does not renew a hash.                       *)
(*                                                                         *)
(* stamp[h] is the number of the acceptance that last let h through (0 if  *)
(* none did since the server started); count is the number of acceptances. *)
(***************************************************************************)
EXTENDS Naturals

CONSTANTS
  Threads,   (* the threads that call HandledFiles.add: WSGI workers, runners *)
  Hashes,    (* the metadata hashes of the incoming files                     *)
  NoHash,    (* the argument of a thread that is in no call                   *)
  Limit,     (* HandledFiles.limit: how many hashes are remembered            *)
  MaxAdds    (* bound: no call is made after so many acceptances              *)

VARIABLES
  arg,       (* arg[t]: the hash thread t is adding, NoHash outside a call    *)
  answer,    (* answer[t]: "none" until the call of t is decided              *)
  count,     (* acceptances since the server started                          *)
  stamp      (* stamp[h]: the number of the last acceptance of h, 0 if none   *)

vars == <<arg, answer, count, stamp>>

(* h is one of the last Limit hashes accepted. *)
Recent(h) == stamp[h] # 0 /\ count - stamp[h] < Limit

Init ==
  /\ arg = [t \in Threads |-> NoHash]
  /\ answer = [t \in Threads |-> "none"]
  /\ count = 0
  /\ stamp = [h \in Hashes |-> 0]

Call(t, h) ==
  /\ arg[t] = NoHash
  /\ count < MaxAdds
  /\ arg' = [arg EXCEPT ![t] = h]
  /\ UNCHANGED <<answer, count, stamp>>

(* The one atomic instant at which a call takes effect. *)
Decide(t) ==
  /\ arg[t] \in Hashes
  /\ answer[t] = "none"
  /\ \/ /\ Recent(arg[t])
        /\ answer' = [answer EXCEPT ![t] = "duplicate"]
        /\ UNCHANGED <<count, stamp>>
     \/ /\ ~Recent(arg[t])
        /\ answer' = [answer EXCEPT ![t] = "new"]
        /\ count' = count + 1
        /\ stamp' = [stamp EXCEPT ![arg[t]] = count + 1]
  /\ UNCHANGED arg

Return(t) ==
  /\ answer[t] # "none"
  /\ arg' = [arg EXCEPT ![t] = NoHash]
  /\ answer' = [answer EXCEPT ![t] = "none"]
  /\ UNCHANGED <<count, stamp>>

(* The window lives in memory: a new server process starts from nothing. *)
Restart ==
  /\ arg' = [t \in Threads |-> NoHash]
  /\ answer' = [t \in Threads |-> "none"]
  /\ count' = 0
  /\ stamp' = [h \in Hashes |-> 0]

Next ==
  \/ \E t \in Threads :
       \/ \E h \in Hashes : Call(t, h)
       \/ Decide(t)
       \/ Return(t)
  \/ Restart

Spec == Init /\ [][Next]_vars
=============================================================================
