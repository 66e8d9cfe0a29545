------------------------------- MODULE Registry -------------------------------
(***************************************************************************)
(* How SimpleBackend (server/backend.py) turns configuration files into    *)
(* storages, processors and runners: at start-up it reads the directory,   *)
(* starts the runners and then the monitor, which calls conf_file_written  *)
(* and conf_file_removed, one event at a time, and reads the file as it is *)
(* by then.  Of a file that is moved or renamed into place it is told by   *)
(* pyinotify, not by watchdog (file_watcher.py).  Storages and processors  *)
(* are kept by name, publications, subscriptions and runners in lists;     *)
(* _current_configuration_files remembers the object of each file.  What   *)
(* the lists mean to the files that are being stored meanwhile is in       *)
(* module Backend.                                                         *)
(*                                                                         *)
(* An object is the content it was made of and a serial number.  A content *)
(* is a record: kind, name, active, and whether creating (makes), starting *)
(* (starts) and stopping (stops) such an object works.                     *)
(***************************************************************************)
EXTENDS Naturals, Sequences, FiniteSets, SequencesExt

CONSTANTS
  Files,       (* the configuration files                                      *)
  Contents,    (* what they may hold                                           *)
  None,        (* no content, no object                                        *)
  MaxChanges   (* bound: changes of files after the directory was laid out     *)

Objects == [content : Contents, serial : Nat]

ASSUME RegistryAssumption ==
  /\ MaxChanges \in Nat
  /\ None \notin Contents \cup Files \cup Objects
  /\ \A c \in Contents :
       /\ c.kind \in {"publication", "subscription", "storage", "processor", "runner"}
       /\ {c.active, c.makes, c.starts, c.stops} \subseteq BOOLEAN
       /\ c.kind = "storage" => c.active

VARIABLES
  watchdog,   (* whether the package watchdog is installed, or only pyinotify  *)
  disk,       (* disk[f]: the content of the file                              *)
  phase,      (* of the server: reading, starting, running; or failed          *)
  todo,       (* the files that process_conf_dir has still to read             *)
  events,     (* what happened to files since the monitor runs                 *)
  job,        (* the file whose rewriting the monitor has half done            *)
  registry,   (* self._current_configuration_files                             *)
  publications, subscriptions, (* the lists of the backend, as sets             *)
  storages,   (* self.storage_manager.storage, the set of its values           *)
  processors, (* self.processor_manager.processors, the set of its values      *)
  runners,    (* self.runner_manager._runners                                  *)
  alive,      (* what was started and not stopped                              *)
  made,       (* objects made so far                                           *)
  changes,    (* changes made to files                                         *)
  missed,     (* history: files of whose last change the monitor was not told  *)
  aborted,    (* history: files whose rewriting ended early                    *)
  collided    (* history: an object got the name of another file's object      *)

managers == <<publications, subscriptions, storages, processors, runners, alive>>
users == <<watchdog, disk, changes>>
history == <<missed, aborted, collided>>
vars == <<watchdog, disk, phase, todo, events, job, registry, publications,
          subscriptions, storages, processors, runners, alive, made, changes,
          missed, aborted, collided>>

(* Two contents of one kind of object that is kept by name. *)
SameName(c, d) ==
  c.kind \in {"storage", "processor"} /\ c.kind = d.kind /\ c.name = d.name

Init ==
  /\ watchdog \in BOOLEAN
  /\ disk \in [Files -> Contents \cup {None}]
  /\ phase = "reading"
  /\ todo = {f \in Files : disk[f] # None}
  /\ events = <<>>
  /\ job = None
  /\ registry = [f \in Files |-> None]
  /\ publications = {} /\ subscriptions = {}
  /\ storages = {} /\ processors = {} /\ runners = {} /\ alive = {}
  /\ made = 0 /\ changes = 0
  /\ missed = {} /\ aborted = {}
  /\ collided = FALSE

----------------------------------------------------------------------------
(* Somebody changes the files. *)

Changing ==
  /\ phase # "failed" /\ changes < MaxChanges
  /\ changes' = changes + 1
  /\ UNCHANGED <<watchdog, phase, todo, job, registry, managers, made, aborted, collided>>

Told(queue, files) == events' = queue /\ missed' = missed \ files
Untold(files) == events' = events /\ missed' = missed \cup files

(* on_closed: both libraries forward the end of a writing. *)
Write(f, c) ==
  /\ Changing
  /\ disk' = [disk EXCEPT ![f] = c]
  /\ IF phase = "running" THEN Told(Append(events, <<"written", f>>), {f}) ELSE Untold({f})

(* on_deleted: the file is deleted, or moved out of the directory. *)
Delete(f) ==
  /\ Changing
  /\ disk[f] # None
  /\ disk' = [disk EXCEPT ![f] = None]
  /\ IF phase = "running" THEN Told(Append(events, <<"removed", f>>), {f}) ELSE Untold({f})

(* on_created, which only pyinotify's IN_MOVED_TO calls: the wrapper of    *)
(* watchdog forwards nothing but on_closed and on_deleted.                 *)
MoveIn(f, c) ==
  /\ Changing
  /\ disk' = [disk EXCEPT ![f] = c]
  /\ IF phase = "running" /\ ~watchdog
     THEN Told(Append(events, <<"written", f>>), {f}) ELSE Untold({f})

(* A renaming within the directory: IN_MOVED_FROM and IN_MOVED_TO; for     *)
(* watchdog one event of its own, which is not forwarded either.           *)
Rename(f, g) ==
  /\ Changing
  /\ f # g /\ disk[f] # None
  /\ disk' = [disk EXCEPT ![f] = None, ![g] = disk[f]]
  /\ IF phase = "running" /\ ~watchdog
     THEN Told(Append(Append(events, <<"removed", f>>), <<"written", g>>), {f, g})
     ELSE Untold({f, g})

Change ==
  \E f \in Files :
    \/ Delete(f)
    \/ \E c \in Contents : Write(f, c) \/ MoveIn(f, c)
    \/ \E g \in Files : Rename(f, g)

----------------------------------------------------------------------------
(* add_configuration_file(self, f, runtime) *)

(* The file is there and an object comes out of it. *)
Makes(f) == disk[f] # None /\ disk[f].makes

(* What is to be read from f has the name of another file's object. *)
Collides(f) ==
  \E g \in Files \ {f} : registry[g] # None /\ SameName(registry[g].content, disk[f])

With(objects, kind, o) == IF o.content.kind = kind THEN objects \cup {o} ELSE objects

(* A storage or processor takes the place of one with the same name, which *)
(* nobody stops.  Publications and processors are started when they are    *)
(* made, a runner when it is added at runtime; if that raises, it has      *)
(* already been added.                                                     *)
AddObject(f, runtime) ==
  LET c == disk[f]
      o == [content |-> c, serial |-> made]
  IN
  /\ made' = made + 1
  /\ registry' = [registry EXCEPT ![f] = o]
  /\ publications' = With(publications, "publication", o)
  /\ subscriptions' = With(subscriptions, "subscription", o)
  /\ storages' = With({s \in storages : ~SameName(c, s.content)}, "storage", o)
  /\ processors' = With({p \in processors : ~SameName(c, p.content)}, "processor", o)
  /\ runners' = With(runners, "runner", o)
  /\ alive' = IF c.kind \in {"publication", "processor"} \/ (c.kind = "runner" /\ runtime /\ c.starts)
              THEN alive \cup {o} ELSE alive
  /\ collided' = (collided \/ Collides(f))

(* The file is gone or unreadable, names a class that cannot be made, or   *)
(* is not active.                                                          *)
AddConfiguration(f, runtime) ==
  IF Makes(f) /\ disk[f].active THEN AddObject(f, runtime)
  ELSE UNCHANGED <<registry, managers, made, collided>>

----------------------------------------------------------------------------
(* Start-up: initialize_configuration, then the monitor *)

ReadFile(f) ==
  /\ phase = "reading" /\ f \in todo
  /\ todo' = todo \ {f}
  /\ AddConfiguration(f, FALSE)
  /\ phase' = IF Makes(f) THEN phase ELSE "failed"
  /\ UNCHANGED <<users, events, job, missed, aborted>>

(* runner_manager.start: a runner that cannot start ends the server. *)
StartRunners ==
  /\ phase = "reading" /\ todo = {}
  /\ alive' = alive \cup {r \in runners : r.content.starts}
  /\ phase' = IF \A r \in runners : r.content.starts THEN "starting" ELSE "failed"
  /\ UNCHANGED <<users, todo, events, job, registry, publications, subscriptions,
                 storages, processors, runners, made, history>>

StartMonitor ==
  /\ phase = "starting"
  /\ phase' = "running"
  /\ UNCHANGED <<users, todo, events, job, registry, managers, made, history>>

----------------------------------------------------------------------------
(* The monitor *)

(* What goes when the file of o does: o, or what has its name by now. *)
Gone(o) ==
  IF o.content.kind \in {"storage", "processor"}
  THEN {p \in storages \cup processors : SameName(o.content, p.content)}
  ELSE {o}

(* publication_removed and its likes, remove_storage, remove_processor and *)
(* runner_manager.remove: storages and processors by name, so that what    *)
(* goes may be the object of another file.  What raises when it is stopped *)
(* leaves all the same, though it may go on running.                       *)
Forget(o) ==
  /\ publications' = publications \ {o}
  /\ subscriptions' = subscriptions \ {o}
  /\ storages' = storages \ Gone(o)
  /\ processors' = processors \ Gone(o)
  /\ runners' = runners \ {o}
  /\ alive' = alive \ {p \in Gone(o) : p.content.stops}

(* What the stop of a runner raises goes through the handler, the others   *)
(* are logged.                                                             *)
Raises(o) == o.content.kind = "runner" /\ ~o.content.stops

(* Mutant: a file that is registered is added once more. *)
NewFileAlways(f) ==
  /\ phase = "running" /\ job = None
  /\ events # <<>> /\ Head(events) = <<"written", f>>
  /\ events' = Tail(events)
  /\ AddConfiguration(f, TRUE)
  /\ aborted' = aborted \ {f}
  /\ UNCHANGED <<users, phase, todo, job, missed>>

(* conf_file_written for a file that is not registered *)
NewFile(f) ==
  /\ phase = "running" /\ job = None
  /\ events # <<>> /\ Head(events) = <<"written", f>>
  /\ registry[f] = None
  /\ events' = Tail(events)
  /\ AddConfiguration(f, TRUE)
  /\ aborted' = aborted \ {f}
  /\ UNCHANGED <<users, phase, todo, job, missed>>

(* Mutant: a file that was written is removed and not added again. *)
RemoveOnly(f) ==
  /\ phase = "running" /\ job = None
  /\ events # <<>> /\ Head(events)[2] = f
  /\ registry[f] # None
  /\ events' = Tail(events)
  /\ registry' = [registry EXCEPT ![f] = None]
  /\ Forget(registry[f])
  /\ job' = None
  /\ UNCHANGED <<users, phase, todo, made, history>>

(* conf_file_written for a registered file, the first half of *_modified,  *)
(* or conf_file_removed                                                    *)
RemoveObject(f) ==
  /\ phase = "running" /\ job = None
  /\ events # <<>> /\ Head(events)[2] = f
  /\ registry[f] # None
  /\ events' = Tail(events)
  /\ registry' = [registry EXCEPT ![f] = None]
  /\ Forget(registry[f])
  /\ IF Head(events)[1] = "written" /\ ~Raises(registry[f])
     THEN job' = f /\ UNCHANGED aborted
     ELSE /\ job' = None
          /\ aborted' = IF Head(events)[1] = "written" THEN aborted \cup {f} ELSE aborted
  /\ UNCHANGED <<users, phase, todo, made, missed, collided>>

(* the second half: add_configuration_file(fname, True) *)
AddAgain(f) ==
  /\ job = f
  /\ job' = None
  /\ AddConfiguration(f, TRUE)
  /\ aborted' = aborted \ {f}
  /\ UNCHANGED <<users, phase, todo, events, missed>>

(* conf_file_removed for a file that is not registered: a warning *)
NotRegistered(f) ==
  /\ phase = "running" /\ job = None
  /\ events # <<>> /\ Head(events) = <<"removed", f>>
  /\ registry[f] = None
  /\ events' = Tail(events)
  /\ aborted' = aborted \ {f}
  /\ UNCHANGED <<users, phase, todo, job, registry, managers, made, missed, collided>>

StartUp == StartRunners \/ StartMonitor \/ \E f \in Files : ReadFile(f)

Monitor ==
  \E f \in Files : NewFile(f) \/ RemoveObject(f) \/ AddAgain(f) \/ NotRegistered(f)

Next ==
  \/ Change
  \/ StartUp
  \/ Monitor

Spec == Init /\ [][Next]_vars

----------------------------------------------------------------------------
Registered(kind) == {o \in ToSet([f \in Files |-> registry[f]]) \ {None} : o.content.kind = kind}

(* As long as no object took the name of another file's, the lists and     *)
(* managers hold exactly the objects of the registered files, whatever     *)
(* failed to be made, to start or to stop: nothing is left over that no    *)
(* file can remove, and nothing is missing.                                *)
ManagersMatchRegistry ==
  ~collided =>
    /\ publications = Registered("publication")
    /\ subscriptions = Registered("subscription")
    /\ storages = Registered("storage")
    /\ processors = Registered("processor")
    /\ runners = Registered("runner")

Settled == phase = "running" /\ events = <<>> /\ job = None

(* When the monitor has caught up, each file's object is the one its       *)
(* content asks for, except for files whose last change the monitor was    *)
(* not told of -- it came before the monitor ran or, with watchdog, was a  *)
(* move or a renaming -- and files whose old runner could not be stopped.  *)
(* An event that is handled late finds what a move has put there since.    *)
RegistryFollowsFiles ==
  Settled =>
    \A f \in Files \ (missed \cup aborted) :
      IF Makes(f) /\ disk[f].active
      THEN registry[f] # None /\ registry[f].content = disk[f]
      ELSE registry[f] = None
=============================================================================
