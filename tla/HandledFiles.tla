---------------------------- MODULE HandledFiles ----------------------------
(***************************************************************************)
(* The class HandledFiles of server/backend.py as it is written: a list,   *)
(* newest hash first, guarded by a lock, searched, extended at the front   *)
(* and cut at the back by the threads that store files.  The lock is taken *)
(* and released and the three list operations are made in steps of their   *)
(* own, so that what the lock buys is checked and not assumed.             *)
(***************************************************************************)
EXTENDS Naturals, Sequences

CONSTANTS
  Threads, Hashes, NoHash, Limit, MaxAdds,  (* as in DuplicateWindow           *)
  NoThread                                  (* the holder of a free lock       *)

ASSUME HandledFilesAssumption ==
  /\ Limit \in Nat
  /\ MaxAdds \in Nat
  /\ NoHash \notin Hashes
  /\ NoThread \notin Threads

VARIABLES
  handled,   (* self._handled: the list, newest first                         *)
  lock,      (* self.lock: the thread that holds it, or NoThread              *)
  pc,        (* pc[t]: where thread t is in add                               *)
  arg,       (* arg[t]: bdbhash, the argument of the call of t                *)
  answer,    (* answer[t]: what the call of t will return                     *)
  count,     (* history: acceptances since the server started                 *)
  stamp      (* history: stamp[h] is the number of the last acceptance of h   *)

code == <<handled, lock, pc, arg, answer>>
history == <<count, stamp>>
vars == <<handled, lock, pc, arg, answer, count, stamp>>

Places == {"idle", "enter", "search", "insert", "trim", "leave"}

(* The steps made while the lock is held. *)
Locked == {"search", "insert", "trim", "leave"}

Elements(s) == {s[i] : i \in 1..Len(s)}

Init ==
  /\ handled = <<>>
  /\ lock = NoThread
  /\ pc = [t \in Threads |-> "idle"]
  /\ arg = [t \in Threads |-> NoHash]
  /\ answer = [t \in Threads |-> "none"]
  /\ count = 0
  /\ stamp = [h \in Hashes |-> 0]

----------------------------------------------------------------------------
(* add(self, bdbhash) *)

Call(t, h) ==
  /\ pc[t] = "idle"
  /\ count < MaxAdds
  /\ pc' = [pc EXCEPT ![t] = "enter"]
  /\ arg' = [arg EXCEPT ![t] = h]
  /\ UNCHANGED <<handled, lock, answer, history>>

(* Mutant: the block is entered without waiting for the lock. *)
AcquireUnlocked(t) ==
  /\ pc[t] = "enter"
  /\ lock' = t
  /\ pc' = [pc EXCEPT ![t] = "search"]
  /\ UNCHANGED <<handled, arg, answer, history>>

Acquire(t) ==
  /\ pc[t] = "enter"
  /\ lock = NoThread
  /\ lock' = t
  /\ pc' = [pc EXCEPT ![t] = "search"]
  /\ UNCHANGED <<handled, arg, answer, history>>

Found(t) ==
  /\ pc[t] = "search"
  /\ arg[t] \in Elements(handled)
  /\ answer' = [answer EXCEPT ![t] = "duplicate"]
  /\ pc' = [pc EXCEPT ![t] = "leave"]
  /\ UNCHANGED <<handled, lock, arg, history>>

NotFound(t) ==
  /\ pc[t] = "search"
  /\ arg[t] \notin Elements(handled)
  /\ pc' = [pc EXCEPT ![t] = "insert"]
  /\ UNCHANGED <<handled, lock, arg, answer, history>>

(* Mutant: list.append instead of list.insert(0, ...): the end that pop    *)
(* cuts is the newest one.                                                 *)
InsertAtBack(t) ==
  /\ pc[t] = "insert"
  /\ handled' = Append(handled, arg[t])
  /\ count' = count + 1
  /\ stamp' = [stamp EXCEPT ![arg[t]] = count + 1]
  /\ answer' = [answer EXCEPT ![t] = "new"]
  /\ pc' = [pc EXCEPT ![t] = "trim"]
  /\ UNCHANGED <<lock, arg>>

Insert(t) ==
  /\ pc[t] = "insert"
  /\ handled' = <<arg[t]>> \o handled
  /\ count' = count + 1
  /\ stamp' = [stamp EXCEPT ![arg[t]] = count + 1]
  /\ answer' = [answer EXCEPT ![t] = "new"]
  /\ pc' = [pc EXCEPT ![t] = "trim"]
  /\ UNCHANGED <<lock, arg>>

(* Mutant: >= instead of >, one hash too few is remembered. *)
TrimEarly(s) == IF Len(s) >= Limit THEN SubSeq(s, 1, Len(s) - 1) ELSE s

(* "if len(self._handled) > self.limit: self._handled.pop()" *)
Trimmed(s) == IF Len(s) > Limit THEN SubSeq(s, 1, Len(s) - 1) ELSE s

Trim(t) ==
  /\ pc[t] = "trim"
  /\ handled' = Trimmed(handled)
  /\ pc' = [pc EXCEPT ![t] = "leave"]
  /\ UNCHANGED <<lock, arg, answer, history>>

(* The with block releases the lock and add returns. *)
Release(t) ==
  /\ pc[t] = "leave"
  /\ lock' = NoThread
  /\ pc' = [pc EXCEPT ![t] = "idle"]
  /\ arg' = [arg EXCEPT ![t] = NoHash]
  /\ answer' = [answer EXCEPT ![t] = "none"]
  /\ UNCHANGED <<handled, history>>

(* A new process constructs a new, empty HandledFiles. *)
Restart ==
  /\ handled' = <<>>
  /\ lock' = NoThread
  /\ pc' = [t \in Threads |-> "idle"]
  /\ arg' = [t \in Threads |-> NoHash]
  /\ answer' = [t \in Threads |-> "none"]
  /\ count' = 0
  /\ stamp' = [h \in Hashes |-> 0]

Step(t) ==
  Acquire(t) \/ Found(t) \/ NotFound(t) \/ Insert(t) \/ Trim(t) \/ Release(t)

Next ==
  \/ \E t \in Threads : Step(t) \/ \E h \in Hashes : Call(t, h)
  \/ Restart

Spec == Init /\ [][Next]_vars

----------------------------------------------------------------------------
(* Properties *)

(* Types, and the length of the list: one over the limit only between      *)
(* insert and pop, which the lock hides from every other caller of add.    *)
TypeOK ==
  /\ handled \in Seq(Hashes)
  /\ lock \in Threads \cup {NoThread}
  /\ pc \in [Threads -> Places]
  /\ arg \in [Threads -> Hashes \cup {NoHash}]
  /\ answer \in [Threads -> {"none", "new", "duplicate"}]
  /\ count \in Nat
  /\ stamp \in [Hashes -> 0..count]
  /\ Len(handled) <= Limit + (IF \E t \in Threads : pc[t] = "trim" THEN 1 ELSE 0)

(* h is one of the last Limit hashes accepted. *)
Recent(h) == stamp[h] # 0 /\ count - stamp[h] < Limit

(* Whenever no thread is inside the lock the list holds exactly the hashes *)
(* of the last Limit acceptances, the newest first: nothing is remembered  *)
(* too long, forgotten too early, or remembered twice.                     *)
ListIsWindow ==
  lock = NoThread =>
    /\ \A i \in 1..Len(handled) : stamp[handled[i]] = count + 1 - i
    /\ \A h \in Hashes : h \in Elements(handled) <=> Recent(h)

(* HandledFiles.add implements the abstract window: among all interleavings *)
(* of the storing threads, a hash is let through twice only if Limit others *)
(* were accepted in between, and is refused only if fewer were.             *)
Window == INSTANCE DuplicateWindow
ImplementsWindow == Window!Spec
=============================================================================
