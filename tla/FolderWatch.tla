----------------------------- MODULE FolderWatch -----------------------------
(***************************************************************************)
(* An inotify_runner (runner/runners.py) over a FileWatcher                *)
(* (file_watcher.py): start() lists the files that already lie in the      *)
(* folder, may start a thread that handles these, and only then sets up    *)
(* the watch; the watch delivers events, one at a time and in order, to a  *)
(* thread that handles the files they name.  Other programs write files    *)
(* into the folder, or move them there, at any time.                       *)
(***************************************************************************)
EXTENDS Naturals, Sequences, FiniteSets, SequencesExt

CONSTANTS
  Files,          (* the names of files, each of which lands at most once      *)
  NoFile,
  Matching,       (* the files whose names match the pattern                   *)
  IgnorePattern,  (* the argument ignore-pattern                               *)
  ProcessPending  (* the argument process-pending-files                        *)

ASSUME WatchAssumption ==
  /\ IsFiniteSet(Files) /\ NoFile \notin Files /\ Matching \subseteq Files
  /\ {IgnorePattern, ProcessPending} \subseteq BOOLEAN

VARIABLES
  watchdog,  (* whether the package watchdog is installed, or only pyinotify   *)
  disk,      (* disk[f]: not there, still open for writing, or whole           *)
  spc,       (* where start() and stop() of the runner are                     *)
  events,    (* what happened to files since, and was not yet delivered        *)
  pending,   (* pending_filenames, what is left of it                          *)
  hand,      (* hand[w]: the file that thread w has given to store_file        *)
  alive,     (* the thread of pending_run runs                                 *)
  listed,    (* history: the files start() found                               *)
  landed,    (* history: landed[f], when f became whole                        *)
  stored     (* history: stored[f], the calls of store_file that found f: what *)
             (* it was at that time                                            *)

workers == <<pending, hand, alive>>
watchVars == <<watchdog, disk, spc, events, pending, hand, alive, listed, landed, stored>>

Workers == {"watch", "pending"}

WatchInit ==
  /\ watchdog \in BOOLEAN
  /\ disk = [f \in Files |-> "none"]
  /\ spc = "new"
  /\ events = <<>>
  /\ pending = <<>>
  /\ hand = [w \in Workers |-> NoFile]
  /\ alive = FALSE
  /\ listed = {}
  /\ landed = [f \in Files |-> "not"]
  /\ stored = [f \in Files |-> <<>>]

----------------------------------------------------------------------------
(* Other programs *)

(* The watch is set up. *)
Watching == spc = "up"

Moment ==
  IF Watching THEN "watched" ELSE IF spc = "listed" THEN "gap" ELSE "unwatched"

Notify(kind, f) == events' = IF Watching THEN Append(events, <<kind, f>>) ELSE events

(* Mutant: the creation of a file is passed on as well. *)
CreateNotifies(f) ==
  /\ disk[f] = "none" /\ landed[f] = "not"
  /\ disk' = [disk EXCEPT ![f] = "open"]
  /\ landed' = [landed EXCEPT ![f] = "writing"]
  /\ Notify("closed", f)
  /\ UNCHANGED <<watchdog, spc, workers, listed, stored>>

Create(f) ==
  /\ disk[f] = "none" /\ landed[f] = "not"
  /\ disk' = [disk EXCEPT ![f] = "open"]
  /\ landed' = [landed EXCEPT ![f] = "writing"]
  /\ UNCHANGED <<watchdog, spc, events, workers, listed, stored>>

(* The writer closes the file, which may have been unlinked meanwhile. *)
Close(f) ==
  /\ landed[f] = "writing"
  /\ disk' = [disk EXCEPT ![f] = IF @ = "open" THEN "whole" ELSE @]
  /\ landed' = [landed EXCEPT ![f] = Moment]
  /\ Notify("closed", f)
  /\ UNCHANGED <<watchdog, spc, workers, listed, stored>>

MoveIn(f) ==
  /\ disk[f] = "none" /\ landed[f] = "not"
  /\ disk' = [disk EXCEPT ![f] = "whole"]
  /\ landed' = [landed EXCEPT ![f] = IF Watching THEN "moved" ELSE Moment]
  /\ Notify("moved", f)
  /\ UNCHANGED <<watchdog, spc, workers, listed, stored>>

----------------------------------------------------------------------------
(* is_ignored(self, filename) *)

IsIgnored(f) == ~IgnorePattern /\ f \in Matching

----------------------------------------------------------------------------
(* start(self), stop(self) *)

(* get_pending_files, and the thread of pending_run.  The order of listdir *)
(* is arbitrary.                                                           *)
List ==
  /\ spc = "new"
  /\ spc' = "listed"
  /\ listed' = {f \in Files : disk[f] # "none" /\ ~IsIgnored(f)}
  /\ alive' = (listed' # {} /\ ProcessPending)
  /\ pending' \in IF alive' THEN SetToSeqs(listed') ELSE {<<>>}
  /\ UNCHANGED <<watchdog, disk, events, hand, landed, stored>>

Watch ==
  /\ spc = "listed"
  /\ spc' = "up"
  /\ UNCHANGED <<watchdog, disk, events, workers, listed, landed, stored>>

StopWatch ==
  /\ spc = "up"
  /\ spc' = "stopping"
  /\ UNCHANGED <<watchdog, disk, events, workers, listed, landed, stored>>

(* The thread that delivers events is joined: it ends after the event it   *)
(* is at and drops the others.  The thread of pending_run goes on.         *)
StopJoin ==
  /\ spc = "stopping"
  /\ hand["watch"] = NoFile
  /\ spc' = "down"
  /\ events' = <<>>
  /\ UNCHANGED <<watchdog, disk, workers, listed, landed, stored>>

----------------------------------------------------------------------------
(* handle_file(self, filename) *)

(* store_file reads the file at some moment, if it still is there. *)
StoreFile(f) ==
  stored' = [stored EXCEPT ![f] = IF disk[f] = "none" THEN @ ELSE Append(@, disk[f])]

(* Which events the wrapper of the package passes on. *)
Forwards(kind) == IF watchdog THEN kind = "closed" ELSE kind \in {"closed", "moved"}

Skip ==
  /\ spc \in {"up", "stopping"}
  /\ hand["watch"] = NoFile
  /\ events # <<>>
  /\ ~Forwards(Head(events)[1]) \/ IsIgnored(Head(events)[2])
  /\ events' = Tail(events)
  /\ UNCHANGED <<watchdog, disk, spc, workers, listed, landed, stored>>

Deliver ==
  /\ spc \in {"up", "stopping"}
  /\ hand["watch"] = NoFile
  /\ events # <<>>
  /\ Forwards(Head(events)[1]) /\ ~IsIgnored(Head(events)[2])
  /\ events' = Tail(events)
  /\ hand' = [hand EXCEPT !["watch"] = Head(events)[2]]
  /\ StoreFile(Head(events)[2])
  /\ UNCHANGED <<watchdog, disk, spc, pending, alive, listed, landed>>

TakePending ==
  /\ alive /\ hand["pending"] = NoFile
  /\ pending # <<>>
  /\ hand' = [hand EXCEPT !["pending"] = Head(pending)]
  /\ pending' = Tail(pending)
  /\ StoreFile(Head(pending))
  /\ UNCHANGED <<watchdog, disk, spc, events, alive, listed, landed>>

(* The thread of pending_run ends after its last file, or when one raised. *)
Alive(w, raised) == IF w = "pending" THEN pending # <<>> /\ ~raised ELSE alive

(* Mutant: a file whose store_file raised is not unlinked. *)
UnlinkOnSuccess(w) ==
  /\ hand[w] # NoFile
  /\ \E raised \in BOOLEAN :
       /\ alive' = Alive(w, raised)
       /\ disk' = IF raised THEN disk ELSE [disk EXCEPT ![hand[w]] = "none"]
  /\ hand' = [hand EXCEPT ![w] = NoFile]
  /\ UNCHANGED <<watchdog, spc, events, pending, listed, landed, stored>>

(* The finally clause unlinks the file, if it still is there.  What        *)
(* store_file raised (it may be for a duplicate) is logged by the watch.   *)
Unlink(w) ==
  /\ hand[w] # NoFile
  /\ \E raised \in BOOLEAN : alive' = Alive(w, raised)
  /\ disk' = [disk EXCEPT ![hand[w]] = "none"]
  /\ hand' = [hand EXCEPT ![w] = NoFile]
  /\ UNCHANGED <<watchdog, spc, events, pending, listed, landed, stored>>

----------------------------------------------------------------------------
Handle == Skip \/ Deliver \/ Unlink("watch")
PendingRun == TakePending \/ Unlink("pending")

WatchNext ==
  \/ \E f \in Files : Create(f) \/ Close(f) \/ MoveIn(f)
  \/ List \/ Watch \/ StopWatch \/ StopJoin
  \/ Handle \/ PendingRun

WatchSpec == WatchInit /\ [][WatchNext]_watchVars

(* The thread of the watch is scheduled and store_file comes back. *)
FairSpec == WatchSpec /\ WF_watchVars(Handle)

----------------------------------------------------------------------------
(* The runner has nothing left to do. *)
Quiet ==
  /\ spc = "up" /\ events = <<>>
  /\ \A w \in Workers : hand[w] = NoFile
  /\ ~alive

(* A whole file that still lies in the folder of a runner with nothing to  *)
(* do is one it is to ignore, one that was there before start() and is not *)
(* asked for or was behind a file that raised, one that became whole       *)
(* between the listing and the watch, or one that was moved there while    *)
(* watchdog watched: files get lost in no other way.                       *)
LeftoversExplained ==
  Quiet =>
    \A f \in Files : disk[f] = "whole" =>
      \/ f \in Matching
      \/ landed[f] = "gap"
      \/ landed[f] = "moved" /\ watchdog
      \/ f \in listed /\ (~ProcessPending \/ f \in ToSet(pending))

(* A file is given to store_file before its writer closed it only if       *)
(* start() found it in the folder, and twice only if start() found it and  *)
(* the watch saw it too: the watch alone hands over each file once, whole. *)
WatchHandsOverOnceAndWhole ==
  \A f \in Files :
    /\ "open" \in ToSet(stored[f]) => f \in listed
    /\ Len(stored[f]) <= 2
    /\ Len(stored[f]) = 2 => f \in listed /\ landed[f] = "watched"

(* The queue of events drains: what is closed in the watched folder is gone*)
(* from it at last, unless the runner is stopped.                          *)
WatchedFilesLeave ==
  \A f \in Files \ Matching :
    landed[f] = "watched" ~> disk[f] = "none" \/ spc # "up"
=============================================================================
