--------------------------- MODULE RotatingStorage ---------------------------
(***************************************************************************)
(* simple_rotating_file_storage of storage/storages.py: threads that store *)
(* files copy them into one folder, each under a name made of the metadata,*)
(* and then trim the folder.  Only the trimming is under the lock, and it  *)
(* works on a listing: names that are free, files that are still written   *)
(* and the age of a file may all change between looking and acting.  Every *)
(* step that touches the disk may fail: store then raises, and whatever it *)
(* has put into the folder stays there untrimmed.                          *)
(*                                                                         *)
(* A path is the name of an item or, when that name is taken, the name     *)
(* with a random suffix, which the item itself stands for.                 *)
(***************************************************************************)
EXTENDS Integers, Sequences, FiniteSets, SequencesExt

CONSTANTS
  Threads,         (* the threads that store                                   *)
  Items,           (* the calls of store explored                              *)
  NoItem,          (* what an idle thread stores                               *)
  Names,           (* the names that files can get                             *)
  NameOf(_),       (* the name of an item: source, object, date and time       *)
  NumberOfFiles,   (* the configured number_of_files                           *)
  MostAllowed,     (* 500 in the code                                          *)
  Default          (* 100 in the code                                          *)

ASSUME RotatingAssumption ==
  /\ NumberOfFiles \in Int /\ MostAllowed \in Nat /\ Default \in Nat
  /\ IsFiniteSet(Threads)
  /\ NoItem \notin Items \cup Names /\ Names \cap Items = {}
  /\ \A i \in Items : NameOf(i) \in Names

VARIABLES
  folder,    (* the paths in the folder                                        *)
  inode,     (* inode[p]: the item whose copy created the file at p            *)
  mtime,     (* mtime[p]: when the file at p was last written                  *)
  clock,     (* the time: every write to a file is later than those before     *)
  lock,      (* self.lock: the threads inside the with block                   *)
  pc,        (* pc[t]: where thread t is in store                              *)
  item,      (* item[t]: what it stores                                        *)
  path,      (* path[t]: oname                                                 *)
  file,      (* file[t]: the inode it writes to, which may have lost its path  *)
  paths,     (* paths[t]: the listing it trims                                 *)
  left,      (* the items not yet stored                                       *)
  stored,    (* history: the items of which a file was made, whole or in part, *)
             (*   in that order                                                *)
  debris,    (* history: the paths left by calls that raised and not yet       *)
             (*   looked at by a trimming that ended well                      *)
  overlap    (* history: whether two calls of store ever overlapped            *)

disk == <<folder, inode, mtime, clock>>
call == <<item, path, file>>
vars == <<folder, inode, mtime, clock, lock, pc, item, path, file, paths,
          left, stored, debris, overlap>>

Paths == Names \cup Items

(* self._number_of_files *)
Limit == IF NumberOfFiles <= MostAllowed THEN NumberOfFiles ELSE Default

Init ==
  /\ folder = {}
  /\ inode = [p \in Paths |-> NoItem]
  /\ mtime = [p \in Paths |-> 0]
  /\ clock = 0
  /\ lock = {}
  /\ pc = [t \in Threads |-> "idle"]
  /\ item = [t \in Threads |-> NoItem]
  /\ path = [t \in Threads |-> NoItem]
  /\ file = [t \in Threads |-> NoItem]
  /\ paths = [t \in Threads |-> <<>>]
  /\ left = Items
  /\ stored = <<>>
  /\ debris = {}
  /\ overlap = FALSE

Busy(t) == pc[t] # "idle"

(* The file at p is written to, now. *)
Touch(p) ==
  /\ clock' = clock + 1
  /\ mtime' = [mtime EXCEPT ![p] = clock + 1]

GoTo(t, place) == pc' = [pc EXCEPT ![t] = place]

Reset(t) ==
  /\ item' = [item EXCEPT ![t] = NoItem]
  /\ path' = [path EXCEPT ![t] = NoItem]
  /\ file' = [file EXCEPT ![t] = NoItem]

----------------------------------------------------------------------------
(* file_store.store, called by store *)

Call(t, i) ==
  /\ ~Busy(t) /\ i \in left
  /\ GoTo(t, "name")
  /\ item' = [item EXCEPT ![t] = i]
  /\ left' = left \ {i}
  /\ overlap' = (overlap \/ \E u \in Threads : Busy(u))
  /\ UNCHANGED <<disk, lock, path, file, paths, stored, debris>>

(* A placeholder of the name has no value (StorageError), or one of the    *)
(* files cannot be opened: nothing is stored and nothing is trimmed.       *)
NothingStored(t) ==
  /\ pc[t] \in {"name", "open"}
  /\ GoTo(t, "idle")
  /\ Reset(t)
  /\ UNCHANGED <<disk, lock, paths, stored, left, debris, overlap>>

(* Mutant: keep_same_name is forgotten. *)
NameAsIs(i) == NameOf(i)

(* The name, or the name with a suffix of its own when a file has it. *)
Name(i) == IF NameOf(i) \in folder THEN i ELSE NameOf(i)

ChooseName(t) ==
  /\ pc[t] = "name"
  /\ GoTo(t, "open")
  /\ path' = [path EXCEPT ![t] = Name(item[t])]
  /\ UNCHANGED <<disk, lock, item, file, paths, stored, left, debris, overlap>>

(* shutil.copy opens the path for writing: it creates the file, or empties *)
(* the one that another thread created under this name in the meantime.    *)
Open(t) ==
  /\ pc[t] = "open"
  /\ GoTo(t, "copy")
  /\ folder' = folder \cup {path[t]}
  /\ inode' = IF path[t] \in folder THEN inode
              ELSE [inode EXCEPT ![path[t]] = item[t]]
  /\ file' = [file EXCEPT ![t] = inode'[path[t]]]
  /\ Touch(path[t])
  /\ UNCHANGED <<lock, item, path, paths, stored, left, debris, overlap>>

(* Whether the path still leads to the file that t writes. *)
Reachable(t) == path[t] \in folder /\ inode[path[t]] = file[t]

(* The data is written; the permissions are set on whatever has the path.  *)
Copy(t) ==
  /\ pc[t] = "copy"
  /\ path[t] \in folder
  /\ GoTo(t, "wait")
  /\ IF Reachable(t)
     THEN Touch(path[t]) /\ stored' = Append(stored, item[t])
     ELSE UNCHANGED <<clock, mtime, stored>>
  /\ UNCHANGED <<folder, inode, lock, call, paths, left, debris, overlap>>

(* The call raises: what it put into the folder stays. *)
Leave(t) ==
  /\ GoTo(t, "idle")
  /\ Reset(t)
  /\ debris' = debris \cup ({path[t]} \cap folder)

(* Reading or writing fails midway, or the permissions cannot be set, as   *)
(* when another thread trimmed the path away: the file is there, perhaps   *)
(* in part, and this thread does not trim.                                 *)
CopyFails(t) ==
  /\ pc[t] = "copy"
  /\ Leave(t)
  /\ IF Reachable(t)
     THEN /\ Touch(path[t]) \/ UNCHANGED <<clock, mtime>>
          /\ stored' = Append(stored, item[t])
     ELSE UNCHANGED <<clock, mtime, stored>>
  /\ UNCHANGED <<folder, inode, lock, paths, left, overlap>>

----------------------------------------------------------------------------
(* trim_folder(self, path) *)

(* Mutant: the lock is not taken. *)
AcquireUnlocked(t) ==
  /\ pc[t] = "wait"
  /\ GoTo(t, "list")
  /\ lock' = lock \cup {t}
  /\ UNCHANGED <<disk, call, paths, stored, left, debris, overlap>>

Acquire(t) ==
  /\ pc[t] = "wait"
  /\ lock = {}
  /\ GoTo(t, "list")
  /\ lock' = {t}
  /\ UNCHANGED <<disk, call, paths, stored, left, debris, overlap>>

(* sorted(Path(path).iterdir(), key=os.path.getmtime) *)
OldestFirst(s) == \A j, k \in DOMAIN s : j < k => mtime[s[j]] <= mtime[s[k]]

List(t) ==
  /\ pc[t] = "list"
  /\ GoTo(t, "trim")
  /\ \E s \in SetToSeqs(folder) :
       OldestFirst(s) /\ paths' = [paths EXCEPT ![t] = s]
  /\ UNCHANGED <<disk, lock, call, stored, left, debris, overlap>>

(* Mutant: > instead of >=. *)
TooLong(s) == Len(s) > Limit

(* The condition of the while loop. *)
TooMany(s) == Len(s) >= Limit /\ Len(s) > 0

Unlink(t) ==
  /\ pc[t] = "trim"
  /\ TooMany(paths[t])
  /\ folder' = folder \ {Head(paths[t])}
  /\ debris' = debris \ {Head(paths[t])}
  /\ paths' = [paths EXCEPT ![t] = Tail(@)]
  /\ UNCHANGED <<inode, mtime, clock, lock, pc, call, stored, left, overlap>>

(* iterdir, getmtime or unlink raises; the with block gives the lock back. *)
TrimFails(t) ==
  /\ pc[t] = "list" \/ (pc[t] = "trim" /\ TooMany(paths[t]))
  /\ Leave(t)
  /\ lock' = lock \ {t}
  /\ paths' = [paths EXCEPT ![t] = <<>>]
  /\ UNCHANGED <<disk, stored, left, overlap>>

Release(t) ==
  /\ pc[t] = "trim"
  /\ ~TooMany(paths[t])
  /\ GoTo(t, "idle")
  /\ lock' = lock \ {t}
  /\ paths' = [paths EXCEPT ![t] = <<>>]
  /\ debris' = debris \ ToSet(paths[t])
  /\ Reset(t)
  /\ UNCHANGED <<disk, stored, left, overlap>>

----------------------------------------------------------------------------
Trim(t) == Acquire(t) \/ List(t) \/ Unlink(t) \/ TrimFails(t) \/ Release(t)

Store(t) ==
  \/ NothingStored(t) \/ ChooseName(t)
  \/ Open(t) \/ Copy(t) \/ CopyFails(t)
  \/ Trim(t)

Next == \E t \in Threads : Store(t) \/ \E i \in Items : Call(t, i)

Spec == Init /\ [][Next]_vars

----------------------------------------------------------------------------
Room == IF Limit <= 0 THEN 0 ELSE Limit - 1

(* Threads that have put a file into the folder and not yet trimmed. *)
Storing == {t \in Threads : pc[t] \in {"copy", "wait", "list", "trim"}}

(* The folder holds fewer than number_of_files files, one for each thread  *)
(* that is storing, and those that calls which raised have left since the  *)
(* last trimming: trimming from a listing that is out of date lets nothing *)
(* else pile up, and one call that ends well clears all the debris before  *)
(* it.  For a thread that trims finds every file of its listing when it    *)
(* comes to unlink it, whatever the others do.                             *)
FolderIsBounded ==
  /\ Cardinality(folder) <= Room + Cardinality(Storing) + Cardinality(debris)
  /\ \A t \in Threads : ToSet(paths[t]) \subseteq folder

Quiet == \A t \in Threads : ~Busy(t)

(* The last n items of which a file was made. *)
Newest(n) ==
  {stored[k] : k \in {k \in DOMAIN stored : k + n > Len(stored)}}

(* When calls of store come one after the other the folder holds exactly   *)
(* the newest files, each under a path of its own although their names may *)
(* be the same (keep_same_name): as many as there is room for, and more    *)
(* only while the last calls raised.  What a failing copy leaves counts as *)
(* a file like any other and in time evicts a whole one.                   *)
NewestAreKeptUnlessOverlap ==
  Quiet /\ ~overlap =>
    \E n \in Room..(Room + Cardinality(debris)) :
      {inode[p] : p \in folder} = Newest(n)
=============================================================================
