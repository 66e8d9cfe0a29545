------------------------------- MODULE Backend -------------------------------
(***************************************************************************)
(* SimpleBackend of server/backend.py: the threads that run store_file for *)
(* the files that arrive (WSGI workers, runners), and the one thread of    *)
(* the configuration monitor that adds, removes and replaces subscriptions *)
(* and publications while they do.                                         *)
(*                                                                         *)
(* The lists self.subscriptions and self.publications are shared without a *)
(* lock.  A Python "for" over a list keeps a position and reads the list   *)
(* as it is at each turn: pos and ppos are those positions.                *)
(*                                                                         *)
(* Abstracted: who sent the file and the filter of a subscription are one  *)
(* relation, Wants; storages, statistics plugins and processors are what   *)
(* HandOver and Process stand for; a publication is open until stop().     *)
(***************************************************************************)
EXTENDS Naturals, SequencesExt

CONSTANTS
  Threads,     (* the threads that call store_file                             *)
  Files,       (* the metadata hashes of the files that arrive                 *)
  NoHash,      (* no file                                                      *)
  TooLarge,    (* the files larger than max_content_length                     *)
  Limit,       (* the limit of HandledFiles                                    *)
  MaxAdds,     (* bound: no file arrives after so many accepted ones           *)
  SubConfs,    (* the configuration files of subscriptions                     *)
  PubConfs,    (* the configuration files of publications                      *)
  AllowsDups,  (* the subscriptions with allow_duplicates                      *)
  Wants,       (* <<s, x>>: allowed_ids and filter of s let file x pass        *)
  Raises,      (* <<s, x>>: evaluating the filter of s on x raises             *)
  Routes,      (* <<p, s, x>>: p publishes file x handled by subscription s    *)
  PubRaises,   (* <<p, s, x>>: p is asked about it, and its filter raises      *)
  StartSubs,   (* the subscriptions configured at start, in directory order    *)
  StartPubs,   (* the publications configured at start                         *)
  MaxEvents    (* bound: configuration files written or removed                *)

ASSUME BackendAssumption ==
  /\ IsFiniteSet(Threads)
  /\ Limit \in Nat /\ MaxAdds \in Nat /\ MaxEvents \in Nat
  /\ NoHash \notin Files
  /\ SubConfs \cap PubConfs = {}
  /\ TooLarge \subseteq Files
  /\ StartSubs \in Seq(SubConfs) /\ StartPubs \in Seq(PubConfs)
  /\ \A i, j \in 1..Len(StartSubs) : StartSubs[i] = StartSubs[j] => i = j
  /\ \A i, j \in 1..Len(StartPubs) : StartPubs[i] = StartPubs[j] => i = j

Confs == SubConfs \cup PubConfs

(* An object made from a configuration file; version tells the objects made *)
(* from successive contents of the same file apart.                         *)
Objects == [conf : Confs, version : 0..MaxEvents]
Strict == {o \in Objects : o.conf \in SubConfs \ AllowsDups}

VARIABLES
  subscriptions,    (* self.subscriptions                                      *)
  publications,     (* self.publications                                       *)
  current,          (* self._current_configuration_files: the object of a file *)
  stopped,          (* the publications on which stop() was called             *)
  job,              (* what the configuration monitor is in the middle of      *)
  events,           (* configuration events so far                             *)
  arg, answer, count, stamp,  (* self.handled_files, see DuplicateWindow       *)
  pc,               (* pc[t]: where thread t is in store_file                  *)
  file,             (* file[t]: the file it stores                             *)
  dup,              (* dup[t]: already_handled                                 *)
  tolerated,        (* tolerated[t]: a subscription with allow_duplicates seen *)
  pos,              (* pos[t]: position of the loop over the subscriptions     *)
  cur,              (* cur[t]: the subscription of the turn                    *)
  ppos,             (* ppos[t]: position of the loop in publish                *)
  start, done, disturbed,     (* history of the subscription loop of t         *)
  pstart, pdone, pdisturbed,  (* history of the publication loop of t          *)
  pskipped,         (* history: those its end by an exception left out         *)
  accepted,         (* history: accepted[x], how often x was answered "new"    *)
  handed            (* history: handed[x][o], how often x was handed to the    *)
                    (*   subscription o, if o does not allow duplicates        *)

lists == <<subscriptions, publications>>
monitor == <<current, stopped, job, events>>
window == <<arg, answer, count, stamp>>
call == <<pc, file, dup, tolerated, pos, cur, ppos>>
subHistory == <<start, done, disturbed>>
pubHistory == <<pstart, pdone, pdisturbed, pskipped>>
tally == <<accepted, handed>>
vars == <<subscriptions, publications, current, stopped, job, events,
          arg, answer, count, stamp,
          pc, file, dup, tolerated, pos, cur, ppos,
          start, done, disturbed, pstart, pdone, pdisturbed, pskipped, accepted, handed>>

HandledFiles == INSTANCE DuplicateWindow WITH Hashes <- Files

NoObject == [conf |-> "none", version |-> 0]
FirstOf(f) == [conf |-> f, version |-> 0]
Idle == [op |-> "none", conf |-> "none", object |-> NoObject, add |-> FALSE]

Init ==
  /\ subscriptions = [i \in 1..Len(StartSubs) |-> FirstOf(StartSubs[i])]
  /\ publications = [i \in 1..Len(StartPubs) |-> FirstOf(StartPubs[i])]
  /\ current = [f \in Confs |-> IF f \in ToSet(StartSubs) \cup ToSet(StartPubs)
                                THEN FirstOf(f) ELSE NoObject]
  /\ stopped = {}
  /\ job = Idle
  /\ events = 0
  /\ HandledFiles!Init
  /\ pc = [t \in Threads |-> "idle"]
  /\ file = [t \in Threads |-> NoHash]
  /\ dup = [t \in Threads |-> FALSE]
  /\ tolerated = [t \in Threads |-> FALSE]
  /\ pos = [t \in Threads |-> 1]
  /\ cur = [t \in Threads |-> NoObject]
  /\ ppos = [t \in Threads |-> 1]
  /\ start = [t \in Threads |-> {}]
  /\ done = [t \in Threads |-> {}]
  /\ disturbed = [t \in Threads |-> FALSE]
  /\ pstart = [t \in Threads |-> {}]
  /\ pdone = [t \in Threads |-> {}]
  /\ pdisturbed = [t \in Threads |-> FALSE]
  /\ pskipped = [t \in Threads |-> {}]
  /\ accepted = [x \in Files |-> 0]
  /\ handed = [x \in Files |-> [o \in Strict |-> 0]]

----------------------------------------------------------------------------
(* store_file(self, path, nid), by thread t *)

(* A file that is too large is answered like a stored one and forgotten. *)
TurnAway(t, x) ==
  /\ pc[t] = "idle"
  /\ x \in TooLarge
  /\ pc' = [pc EXCEPT ![t] = "return"]
  /\ file' = [file EXCEPT ![t] = x]
  /\ UNCHANGED <<lists, monitor, window, dup, tolerated, pos, cur, ppos, subHistory, pubHistory, tally>>

Arrive(t, x) ==
  /\ pc[t] = "idle"
  /\ x \notin TooLarge
  /\ HandledFiles!Call(t, x)
  /\ pc' = [pc EXCEPT ![t] = "handled"]
  /\ file' = [file EXCEPT ![t] = x]
  /\ UNCHANGED <<lists, monitor, dup, tolerated, pos, cur, ppos, subHistory, pubHistory, tally>>

(* self.handled_files.add(meta.bdb_metadata_hash) takes effect ... *)
AddHandled(t) ==
  /\ HandledFiles!Decide(t)
  /\ accepted' = [accepted EXCEPT ![file[t]] = @ + (count' - count)]
  /\ UNCHANGED <<lists, monitor, call, subHistory, pubHistory, handed>>

(* A "for" over self.subscriptions begins. *)
BeginLoop(t) ==
  /\ pos' = [pos EXCEPT ![t] = 1]
  /\ start' = [start EXCEPT ![t] = ToSet(subscriptions)]
  /\ done' = [done EXCEPT ![t] = {}]
  /\ disturbed' = [disturbed EXCEPT ![t] = FALSE]

(* ... and returns whether the file is new. *)
IsNew(t) ==
  /\ pc[t] = "handled"
  /\ answer[t] = "new"
  /\ HandledFiles!Return(t)
  /\ pc' = [pc EXCEPT ![t] = "loop"]
  /\ dup' = [dup EXCEPT ![t] = FALSE]
  /\ BeginLoop(t)
  /\ UNCHANGED <<lists, monitor, file, tolerated, cur, ppos, pubHistory, tally>>

IsDuplicate(t) ==
  /\ pc[t] = "handled"
  /\ answer[t] = "duplicate"
  /\ HandledFiles!Return(t)
  /\ pc' = [pc EXCEPT ![t] = "tolerate"]
  /\ dup' = [dup EXCEPT ![t] = TRUE]
  /\ tolerated' = [tolerated EXCEPT ![t] = FALSE]
  /\ BeginLoop(t)
  /\ UNCHANGED <<lists, monitor, file, cur, ppos, pubHistory, tally>>

(* Mutant: the last subscription decides alone. *)
LookAtLast(t) ==
  /\ pc[t] = "tolerate"
  /\ pos[t] <= Len(subscriptions)
  /\ pos' = [pos EXCEPT ![t] = @ + 1]
  /\ tolerated' = [tolerated EXCEPT ![t] = subscriptions[pos[t]].conf \in AllowsDups]
  /\ UNCHANGED <<lists, monitor, window, pc, file, dup, cur, ppos, subHistory, pubHistory, tally>>

(* One turn of the loop that looks for allow_duplicates. *)
LookForTolerance(t) ==
  /\ pc[t] = "tolerate"
  /\ pos[t] <= Len(subscriptions)
  /\ pos' = [pos EXCEPT ![t] = @ + 1]
  /\ tolerated' = [tolerated EXCEPT ![t] =
                     @ \/ subscriptions[pos[t]].conf \in AllowsDups]
  /\ UNCHANGED <<lists, monitor, window, pc, file, dup, cur, ppos, subHistory, pubHistory, tally>>

RaiseDuplicate(t) ==
  /\ pc[t] = "tolerate"
  /\ pos[t] > Len(subscriptions)
  /\ ~tolerated[t]
  /\ pc' = [pc EXCEPT ![t] = "refused"]
  /\ UNCHANGED <<lists, monitor, window, file, dup, tolerated, pos, cur, ppos,
                 subHistory, pubHistory, tally>>

TolerateDuplicate(t) ==
  /\ pc[t] = "tolerate"
  /\ pos[t] > Len(subscriptions)
  /\ tolerated[t]
  /\ pc' = [pc EXCEPT ![t] = "loop"]
  /\ BeginLoop(t)
  /\ UNCHANGED <<lists, monitor, window, file, dup, tolerated, cur, ppos, pubHistory, tally>>

(* Mutant: the loop ignores that the file is a duplicate. *)
EligibleAnyway(t, s) == <<s.conf, file[t]>> \in Wants

(* The tests a subscription must pass before it handles the file of t. *)
Eligible(t, s) ==
  /\ dup[t] => s.conf \in AllowsDups
  /\ <<s.conf, file[t]>> \in Wants

(* The filter of the turn is reached and raises: store_file ends. *)
FilterRaises(t, s) ==
  /\ dup[t] => s.conf \in AllowsDups
  /\ <<s.conf, file[t]>> \in Raises

(* Mutant: a subscription that does not want the file ends the call. *)
ReturnOnMismatch(t) ==
  /\ pc[t] = "loop"
  /\ pos[t] <= Len(subscriptions)
  /\ LET s == subscriptions[pos[t]] IN
       /\ pos' = [pos EXCEPT ![t] = @ + 1]
       /\ cur' = [cur EXCEPT ![t] = s]
       /\ pc' = [pc EXCEPT ![t] = IF FilterRaises(t, s) THEN "failed"
                                  ELSE IF Eligible(t, s) THEN "store" ELSE "return"]
  /\ UNCHANGED <<lists, monitor, window, file, dup, tolerated, ppos, subHistory, pubHistory, tally>>

(* One turn of the loop over the subscriptions, up to the storages. *)
NextSubscription(t) ==
  /\ pc[t] = "loop"
  /\ pos[t] <= Len(subscriptions)
  /\ LET s == subscriptions[pos[t]] IN
       /\ pos' = [pos EXCEPT ![t] = @ + 1]
       /\ cur' = [cur EXCEPT ![t] = s]
       /\ pc' = [pc EXCEPT ![t] = IF FilterRaises(t, s) THEN "failed"
                                  ELSE IF Eligible(t, s) THEN "store" ELSE "loop"]
  /\ UNCHANGED <<lists, monitor, window, file, dup, tolerated, ppos, subHistory, pubHistory, tally>>

(* The storages and statistics plugins of the subscription; then publish   *)
(* begins its loop.                                                        *)
HandOver(t) ==
  /\ pc[t] = "store"
  /\ pc' = [pc EXCEPT ![t] = "publish"]
  /\ done' = [done EXCEPT ![t] = @ \cup {cur[t]}]
  /\ handed' = [handed EXCEPT ![file[t]] =
                  [o \in Strict |-> IF o = cur[t] THEN @[o] + 1 ELSE @[o]]]
  /\ ppos' = [ppos EXCEPT ![t] = 1]
  /\ pstart' = [pstart EXCEPT ![t] = ToSet(publications)]
  /\ pdone' = [pdone EXCEPT ![t] = {}]
  /\ pdisturbed' = [pdisturbed EXCEPT ![t] = FALSE]
  /\ pskipped' = [pskipped EXCEPT ![t] = {}]
  /\ UNCHANGED <<lists, monitor, window, file, dup, tolerated, pos, cur, start, disturbed, accepted>>

Routed(t, p) == <<p.conf, cur[t].conf, file[t]>> \in Routes
PublicationRaises(t, p) == <<p.conf, cur[t].conf, file[t]>> \in PubRaises

(* Mutant: the first publication that takes the file ends the loop. *)
PublishFirst(t) ==
  /\ pc[t] = "publish"
  /\ ppos[t] <= Len(publications)
  /\ LET p == publications[ppos[t]] IN
       /\ ~PublicationRaises(t, p)
       /\ ppos' = [ppos EXCEPT ![t] = IF Routed(t, p) THEN Len(publications) + 1 ELSE @ + 1]
       /\ pdone' = [pdone EXCEPT ![t] =
                      IF Routed(t, p) /\ p \notin stopped THEN @ \cup {p} ELSE @]
  /\ UNCHANGED <<lists, monitor, window, pc, file, dup, tolerated, pos, cur, subHistory,
                 pstart, pdisturbed, pskipped, tally>>

(* One turn of publish: a publication that was stopped refuses the file. *)
PublishNext(t) ==
  /\ pc[t] = "publish"
  /\ ppos[t] <= Len(publications)
  /\ LET p == publications[ppos[t]] IN
       /\ ~PublicationRaises(t, p)
       /\ ppos' = [ppos EXCEPT ![t] = @ + 1]
       /\ pdone' = [pdone EXCEPT ![t] =
                      IF Routed(t, p) /\ p \notin stopped THEN @ \cup {p} ELSE @]
  /\ UNCHANGED <<lists, monitor, window, pc, file, dup, tolerated, pos, cur, subHistory,
                 pstart, pdisturbed, pskipped, tally>>

(* The filter of a publication raises outside the try around the publishing, *)
(* so publish ends there; store_file logs it and goes on.                    *)
PublishRaises(t) ==
  /\ pc[t] = "publish"
  /\ ppos[t] <= Len(publications)
  /\ PublicationRaises(t, publications[ppos[t]])
  /\ pskipped' = [pskipped EXCEPT ![t] =
                     {publications[i] : i \in ppos[t]..Len(publications)}]
  /\ pc' = [pc EXCEPT ![t] = "process"]
  /\ UNCHANGED <<lists, monitor, window, file, dup, tolerated, pos, cur, ppos,
                 subHistory, pstart, pdone, pdisturbed, tally>>

PublishEnds(t) ==
  /\ pc[t] = "publish"
  /\ ppos[t] > Len(publications)
  /\ pc' = [pc EXCEPT ![t] = "process"]
  /\ UNCHANGED <<lists, monitor, window, file, dup, tolerated, pos, cur, ppos,
                 subHistory, pubHistory, tally>>

(* self.processor_manager.process(path, meta), and the next turn. *)
Process(t) ==
  /\ pc[t] = "process"
  /\ pc' = [pc EXCEPT ![t] = "loop"]
  /\ UNCHANGED <<lists, monitor, window, file, dup, tolerated, pos, cur, ppos,
                 subHistory, pubHistory, tally>>

EndLoop(t) ==
  /\ pc[t] = "loop"
  /\ pos[t] > Len(subscriptions)
  /\ pc' = [pc EXCEPT ![t] = "return"]
  /\ UNCHANGED <<lists, monitor, window, file, dup, tolerated, pos, cur, ppos,
                 subHistory, pubHistory, tally>>

(* The caller of store_file has its answer; the thread is free again. *)
Answer(t) ==
  /\ pc[t] \in {"return", "refused", "failed"}
  /\ pc' = [pc EXCEPT ![t] = "idle"]
  /\ file' = [file EXCEPT ![t] = NoHash]
  /\ dup' = [dup EXCEPT ![t] = FALSE]
  /\ tolerated' = [tolerated EXCEPT ![t] = FALSE]
  /\ pos' = [pos EXCEPT ![t] = 1]
  /\ cur' = [cur EXCEPT ![t] = NoObject]
  /\ ppos' = [ppos EXCEPT ![t] = 1]
  /\ start' = [start EXCEPT ![t] = {}]
  /\ done' = [done EXCEPT ![t] = {}]
  /\ disturbed' = [disturbed EXCEPT ![t] = FALSE]
  /\ pstart' = [pstart EXCEPT ![t] = {}]
  /\ pdone' = [pdone EXCEPT ![t] = {}]
  /\ pdisturbed' = [pdisturbed EXCEPT ![t] = FALSE]
  /\ pskipped' = [pskipped EXCEPT ![t] = {}]
  /\ UNCHANGED <<lists, monitor, window, tally>>

----------------------------------------------------------------------------
(* The configuration monitor: one thread, one event at a time.             *)

(* A loop that is running skips an element when one before it disappears. *)
RunningLoopsDisturbed ==
  disturbed' = [t \in Threads |-> disturbed[t] \/ pc[t] # "idle"]

(* subscription_removed(fname, o) *)
RemoveSubscription(f, add) ==
  /\ f \in SubConfs
  /\ current[f] # NoObject
  /\ current' = [current EXCEPT ![f] = NoObject]
  /\ subscriptions' = RemoveFirst(subscriptions, current[f])
  /\ RunningLoopsDisturbed
  /\ job' = IF add THEN [op |-> "add", conf |-> f, object |-> NoObject, add |-> FALSE] ELSE Idle
  /\ UNCHANGED <<publications, stopped, start, done, pubHistory>>

(* publication_removed(fname, o), up to the call of o.stop() ... *)
RemovePublication(f, add) ==
  /\ f \in PubConfs
  /\ current[f] # NoObject
  /\ current' = [current EXCEPT ![f] = NoObject]
  /\ job' = [op |-> "stop", conf |-> f, object |-> current[f], add |-> add]
  /\ UNCHANGED <<lists, stopped, subHistory, pubHistory>>

(* conf_file_written(filename): a registered file is removed, then added. *)
Written(f) ==
  /\ job = Idle
  /\ events < MaxEvents
  /\ events' = events + 1
  /\ \/ RemoveSubscription(f, TRUE)
     \/ RemovePublication(f, TRUE)
     \/ /\ current[f] = NoObject
        /\ job' = [op |-> "add", conf |-> f, object |-> NoObject, add |-> FALSE]
        /\ UNCHANGED <<lists, current, stopped, subHistory, pubHistory>>
  /\ UNCHANGED <<window, call, tally>>

(* conf_file_removed(filename): nothing happens if it is not registered. *)
Deleted(f) ==
  /\ job = Idle
  /\ events < MaxEvents
  /\ events' = events + 1
  /\ RemoveSubscription(f, FALSE) \/ RemovePublication(f, FALSE)
  /\ UNCHANGED <<window, call, tally>>

(* ... o.stop(), whose own failures are caught ... *)
StopPublication ==
  /\ job.op = "stop"
  /\ stopped' = stopped \cup {job.object}
  /\ job' = [job EXCEPT !.op = "drop"]
  /\ UNCHANGED <<lists, current, events, window, call, subHistory, pubHistory, tally>>

(* ... and self.publications.remove(o). *)
DropPublication ==
  /\ job.op = "drop"
  /\ publications' = RemoveFirst(publications, job.object)
  /\ pdisturbed' = [t \in Threads |-> pdisturbed[t] \/ pc[t] = "publish"]
  /\ job' = IF job.add THEN [job EXCEPT !.op = "add", !.object = NoObject, !.add = FALSE]
            ELSE Idle
  /\ UNCHANGED <<subscriptions, current, stopped, events, window, call, subHistory,
                 pstart, pdone, pskipped, tally>>

(* Mutant: a new object goes to the front of its list. *)
AddInFront ==
  /\ job.op = "add"
  /\ LET o == [conf |-> job.conf, version |-> events] IN
       /\ subscriptions' = IF job.conf \in SubConfs THEN <<o>> \o subscriptions
                                                     ELSE subscriptions
       /\ publications' = IF job.conf \in PubConfs THEN <<o>> \o publications
                                                    ELSE publications
       /\ current' = [current EXCEPT ![job.conf] = o]
  /\ job' = Idle
  /\ UNCHANGED <<stopped, events, window, call, subHistory, pubHistory, tally>>

(* add_configuration_file(f, True), for a file of the two kinds. *)
AddConfiguration ==
  /\ job.op = "add"
  /\ LET o == [conf |-> job.conf, version |-> events] IN
       /\ subscriptions' = IF job.conf \in SubConfs THEN Append(subscriptions, o)
                                                     ELSE subscriptions
       /\ publications' = IF job.conf \in PubConfs THEN Append(publications, o)
                                                    ELSE publications
       /\ current' = [current EXCEPT ![job.conf] = o]
  /\ job' = Idle
  /\ UNCHANGED <<stopped, events, window, call, subHistory, pubHistory, tally>>

(* The new content is not JSON, or from_conf refuses it: the exception is  *)
(* logged by the monitor, and what the file configured before stays away.  *)
AddFails ==
  /\ job.op = "add"
  /\ job' = Idle
  /\ UNCHANGED <<lists, current, stopped, events, window, call, subHistory, pubHistory, tally>>

StoreFile(t) ==
  \/ \E x \in Files : TurnAway(t, x) \/ Arrive(t, x)
  \/ AddHandled(t) \/ IsNew(t) \/ IsDuplicate(t)
  \/ LookForTolerance(t) \/ RaiseDuplicate(t) \/ TolerateDuplicate(t)
  \/ NextSubscription(t) \/ HandOver(t) \/ Process(t) \/ EndLoop(t)
  \/ PublishNext(t) \/ PublishRaises(t) \/ PublishEnds(t)
  \/ Answer(t)

ConfMonitor ==
  \/ \E f \in Confs : Written(f) \/ Deleted(f)
  \/ StopPublication \/ DropPublication
  \/ AddConfiguration \/ AddFails

Next == (\E t \in Threads : StoreFile(t)) \/ ConfMonitor

Spec == Init /\ [][Next]_vars

----------------------------------------------------------------------------
(* One call hands its file at most once to each subscription object,       *)
(* although the list is read as it is at each turn and the configuration   *)
(* changes between the turns.                                              *)
HandedOverOnce ==
  \A t \in Threads : pc[t] = "store" => cur[t] \notin done[t]

(* The subscriptions that were configured when the loop of t began, still  *)
(* are, may handle the file of t, and did not.                             *)
Missed(t) ==
  {s \in start[t] \cap ToSet(subscriptions) : Eligible(t, s)} \ done[t]

(* A call that ends normally while no subscription was removed has handed  *)
(* the file to every subscription that lets it pass, however many were     *)
(* added meanwhile.                                                        *)
AllHandleUnlessDisturbed ==
  \A t \in Threads : pc[t] = "return" /\ ~disturbed[t] => Missed(t) = {}

(* A file is refused as a duplicate only if no subscription that was       *)
(* configured when the check began and stayed so tolerates duplicates,     *)
(* unless one was removed meanwhile.                                       *)
RefusalJustified ==
  \A t \in Threads :
    pc[t] = "refused" /\ ~disturbed[t] =>
      \A s \in start[t] : s.conf \notin AllowsDups

(* publish gives the file to every publication that was configured when it *)
(* began, takes it and is still open, unless one was removed meanwhile or  *)
(* the filter of a publication raised: then it, and those behind it in the *)
(* list at that moment, are all that may be left out.                      *)
AllPublishUnlessDisturbed ==
  \A t \in Threads :
    pc[t] = "process" /\ ~pdisturbed[t] =>
      \A p \in pstart[t] \ stopped : Routed(t, p) => p \in pdone[t] \cup pskipped[t]

(* A subscription that does not allow duplicates handles a hash at most as *)
(* often as the hash was answered "new", whatever threads store it at the  *)
(* same time and however the list of subscriptions moves under them.       *)
AtMostOncePerAcceptance ==
  \A x \in Files, o \in Strict : handed[x][o] <= accepted[x]

=============================================================================
