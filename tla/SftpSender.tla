----------------------------- MODULE SftpSender -----------------------------
(***************************************************************************)
(* One sftp_sender of net/senders.py, its client of net/sftpclient.py and  *)
(* the server they talk to.                                                *)
(*                                                                         *)
(* The consumer threads of a publisher call send() on the same sender: the *)
(* client, its session, the current directory of the session, the home     *)
(* directory and the counter of transfers are shared, and nothing locks    *)
(* them.  Every request to the server is a step, and between two of them   *)
(* the server may drop the session.                                        *)
(***************************************************************************)
EXTENDS Naturals, Sequences, FiniteSets

CONSTANTS
  Configurations,  (* the senders explored, see SenderAssumption               *)
  Files,           (* the files to send; each has a basename of its own        *)
  Home,            (* the directory a session starts in, a sequence of names   *)
  Nested,          (* directories that exist besides it                        *)
  MaxDrops         (* bound: how often the server drops a session              *)

ASSUME SenderAssumption ==
  /\ MaxDrops \in Nat
  /\ Home \in Seq(STRING) /\ Nested \subseteq Seq(STRING)
  /\ \A g \in Configurations :
       /\ g.threads \in Nat \ {0}
       /\ g.max \in Nat                 \* max_transfers_per_connection, 0: None
       /\ g.tmp \in BOOLEAN             \* tmppattern
       /\ g.create \in BOOLEAN          \* create_missing_directories
       /\ g.home \in BOOLEAN            \* the server tells its home directory
       /\ g.dir \in [Files -> [abs : BOOLEAN, path : Seq(STRING)]]

VARIABLES
  conf,      (* the configuration of the sender                                *)
  session,   (* _client._sftp: [id, alive, cwd], id 0 when there is none       *)
  homedir,   (* _homedir is known                                              *)
  transfers, (* _nr_connection_transfers                                       *)
  dirs,      (* the directories of the server                                  *)
  remote,    (* its files: [dir, file, temp, whole]                            *)
  thread,    (* per consumer thread [pc, file, dir, id], see Idle              *)
  result,    (* per file: "none", "sending", "returned" or "raised"            *)
  shared,    (* history: the files whose send met another one                  *)
  troubled,  (* history: the files that met a failure of the server            *)
  moved,     (* history: the transfers completed on the session                *)
  drops      (* history: the sessions dropped by the server                    *)

server == <<dirs, remote>>
history == <<shared, moved, drops>>
vars == <<conf, session, homedir, transfers, server, thread, result, troubled,
          history>>

Root == <<>>
NoFile == "no file"
Idle == [pc |-> "idle", file |-> NoFile, dir |-> [abs |-> FALSE, path |-> <<>>],
         id |-> 0]
NoSession == [id |-> 0, alive |-> FALSE, cwd |-> Home]
Threads == DOMAIN thread
Sending == {u \in Threads : thread[u].pc # "idle"}

Init ==
  /\ conf \in Configurations
  /\ session = NoSession /\ homedir = FALSE /\ transfers = 0
  /\ dirs = Nested \cup {Home, Root} /\ remote = {}
  /\ thread = [u \in 1..conf.threads |-> Idle]
  /\ result = [f \in Files |-> "none"]
  /\ shared = {} /\ troubled = {} /\ moved = 0 /\ drops = 0

----------------------------------------------------------------------------
(* The paths of the server. *)

Resolve(d) == IF d.abs THEN d.path ELSE session.cwd \o d.path
Prefixes(p) == {SubSeq(p, 1, n) : n \in 1..Len(p)}
FileAt(d, f, temp) == {r \in remote : r.dir = d /\ r.file = f /\ r.temp = temp}

(* Where the publication wants the file. *)
Destination(f) ==
  IF conf.dir[f].abs THEN conf.dir[f].path ELSE Home \o conf.dir[f].path

At(u, pc) == u \in Threads /\ thread[u].pc = pc
Goto(u, pc) == thread' = [thread EXCEPT ![u].pc = pc]

(* A request on the session raises: in the client when another thread took *)
(* the session away, or when the server lost it.                           *)
Dead == session.id = 0 \/ ~session.alive

(* A session like no other that a thread may still hold. *)
NewId == CHOOSE n \in 1..(Cardinality(Threads) + 2) :
           n # session.id /\ \A u \in Threads : n # thread[u].id

Blames(u) == troubled' = troubled \cup {thread[u].file}
Drop == session' = NoSession /\ moved' = 0

----------------------------------------------------------------------------
(* send() begins in an idle consumer thread; the name is made of the meta. *)
Begin(u, f) ==
  /\ At(u, "idle")
  /\ result[f] = "none"
  /\ thread' = [thread EXCEPT ![u] =
       [pc |-> "check", file |-> f, dir |-> conf.dir[f], id |-> 0]]
  /\ result' = [result EXCEPT ![f] = "sending"]
  /\ shared' = IF Sending = {} THEN shared
               ELSE shared \cup {f} \cup {thread[v].file : v \in Sending}
  /\ UNCHANGED <<conf, session, homedir, transfers, server, troubled, moved, drops>>

(* isconnected asks the server for its current directory. *)
CheckConnected(u) ==
  /\ At(u, "check")
  /\ Goto(u, IF Dead THEN "connect" ELSE "dirs")
  /\ UNCHANGED <<conf, session, homedir, transfers, server, result, troubled,
                 history>>

(* connect disconnects first.  It raises when the server refuses. *)
Connect(u) ==
  /\ At(u, "connect")
  /\ \/ /\ session' = [id |-> NewId, alive |-> TRUE, cwd |-> Home]
        /\ Goto(u, "home")
        /\ UNCHANGED troubled
     \/ /\ session' = NoSession
        /\ Goto(u, "except")
        /\ Blames(u)
  /\ moved' = 0
  /\ UNCHANGED <<conf, homedir, transfers, server, result, shared, drops>>

GetHome(u) ==
  /\ At(u, "home")
  /\ homedir' = (conf.home /\ ~Dead)
  /\ Goto(u, "dirs")
  /\ UNCHANGED <<conf, session, transfers, server, result, troubled, history>>

(* On a session that is kept a relative directory is made absolute, when   *)
(* the home directory is known.                                            *)
Directory(u) ==
  LET d == conf.dir[thread[u].file] IN
    IF d.path # <<>> /\ ~d.abs /\ homedir /\ conf.max > 0
      THEN [abs |-> TRUE, path |-> Home \o d.path] ELSE d

(* makedirs first looks for the directory; a relative one that is to be    *)
(* made on a session that is kept raises SenderError.  isdir answers no    *)
(* when the request fails.                                                 *)
Lookup(d) ==
  IF d.path = <<>> \/ ~conf.create THEN "chdir"
  ELSE IF ~d.abs /\ conf.max > 0 THEN "except"
  ELSE IF ~Dead /\ Resolve(d) \in dirs THEN "chdir" ELSE "mkdir"

PrepareDirectory(u) ==
  /\ At(u, "dirs")
  /\ LET d == Directory(u) IN
       thread' = [thread EXCEPT ![u].dir = d, ![u].pc = Lookup(d)]
  /\ UNCHANGED <<conf, session, homedir, transfers, server, result, troubled,
                 history>>

(* It then makes what is missing; the directory of another thread may have *)
(* appeared, which raises.                                                 *)
MakeDirectory(u) ==
  /\ At(u, "mkdir")
  /\ LET p == Resolve(thread[u].dir) IN
       IF Dead \/ p \in dirs
         THEN Goto(u, "except") /\ UNCHANGED dirs
         ELSE Goto(u, "chdir") /\ dirs' = dirs \cup Prefixes(p)
  /\ UNCHANGED <<conf, session, homedir, transfers, remote, result, troubled,
                 history>>

(* Mutant: the directory is changed once per connection. *)
ChangeDirectoryOnce(u) ==
  /\ At(u, "chdir")
  /\ LET p == Resolve(thread[u].dir) IN
       IF Dead \/ p \notin dirs
         THEN Goto(u, "except") /\ UNCHANGED session
         ELSE /\ Goto(u, "put")
              /\ session' = IF moved > 0 THEN session
                            ELSE [session EXCEPT !.cwd = p]
  /\ UNCHANGED <<conf, homedir, transfers, server, result, troubled, history>>

ChangeDirectory(u) ==
  /\ At(u, "chdir")
  /\ LET p == Resolve(thread[u].dir) IN
       IF Dead \/ p \notin dirs
         THEN Goto(u, "except") /\ UNCHANGED session
         ELSE Goto(u, "put") /\ session' = [session EXCEPT !.cwd = p]
  /\ UNCHANGED <<conf, homedir, transfers, server, result, troubled, history>>

(* Mutant: the temporary name is forgotten. *)
StartUnderFinalName(u) ==
  /\ At(u, "put")
  /\ IF Dead THEN Goto(u, "except") /\ UNCHANGED remote
     ELSE /\ thread' = [thread EXCEPT ![u].pc = "transfer",
                ![u].id = session.id, ![u].dir.path = session.cwd]
          /\ remote' = remote \cup {[dir |-> session.cwd, file |-> thread[u].file,
                                     temp |-> FALSE, whole |-> FALSE]}
  /\ UNCHANGED <<conf, session, homedir, transfers, dirs, result, troubled,
                 history>>

(* put opens the remote file in the current directory of the session ...   *)
StartTransfer(u) ==
  /\ At(u, "put")
  /\ IF Dead THEN Goto(u, "except") /\ UNCHANGED remote
     ELSE /\ thread' = [thread EXCEPT ![u].pc = "transfer",
                ![u].id = session.id, ![u].dir.path = session.cwd]
          /\ remote' = remote \cup {[dir |-> session.cwd, file |-> thread[u].file,
                                     temp |-> conf.tmp, whole |-> FALSE]}
  /\ UNCHANGED <<conf, session, homedir, transfers, dirs, result, troubled,
                 history>>

(* ... and writes it there, as long as that session lives.  The write may  *)
(* fail of itself, a full disk for example.                                *)
EndTransfer(u) ==
  /\ At(u, "transfer")
  /\ \/ /\ ~Dead /\ session.id = thread[u].id
        /\ thread' = [thread EXCEPT ![u].id = 0,
                        ![u].pc = IF conf.tmp THEN "rename" ELSE "count"]
        /\ LET old == FileAt(thread[u].dir.path, thread[u].file, conf.tmp) IN
             remote' = (remote \ old) \cup {[r EXCEPT !.whole = TRUE] : r \in old}
        /\ UNCHANGED troubled
     \/ /\ thread' = [thread EXCEPT ![u].id = 0, ![u].pc = "except"]
        /\ troubled' = IF session.id = thread[u].id
                       THEN troubled \cup {thread[u].file} ELSE troubled
        /\ UNCHANGED remote
  /\ UNCHANGED <<conf, session, homedir, transfers, dirs, result, history>>

(* rename looks for both names in what is now the current directory. *)
Rename(u) ==
  /\ At(u, "rename")
  /\ LET old == FileAt(session.cwd, thread[u].file, TRUE) IN
       IF Dead \/ old = {}
         THEN Goto(u, "except") /\ UNCHANGED remote
         ELSE /\ Goto(u, "count")
              /\ remote' = (remote \ old) \cup {[r EXCEPT !.temp = FALSE] : r \in old}
  /\ UNCHANGED <<conf, session, homedir, transfers, dirs, result, troubled,
                 history>>

CountTransfer(u) ==
  /\ At(u, "count")
  /\ transfers' = transfers + 1
  /\ moved' = moved + 1
  /\ Goto(u, "finally")
  /\ UNCHANGED <<conf, session, homedir, server, result, troubled, shared, drops>>

(* The except clause: disconnect, then forget the transfers. *)
Disconnect(u) ==
  /\ At(u, "except")
  /\ Drop
  /\ Goto(u, "reset")
  /\ UNCHANGED <<conf, homedir, transfers, server, result, troubled, shared, drops>>

ForgetTransfers(u) ==
  /\ At(u, "reset")
  /\ transfers' = 0
  /\ Goto(u, "raise")
  /\ UNCHANGED <<conf, session, homedir, server, result, troubled, history>>

Leave(u) ==
  /\ thread' = [thread EXCEPT ![u] = Idle]
  /\ result' = [result EXCEPT ![thread[u].file] =
                  IF thread[u].pc = "raise" THEN "raised" ELSE "returned"]

(* Mutant: one transfer too many before the connection is closed. *)
FinallyLater(u) ==
  /\ At(u, "finally") \/ At(u, "raise")
  /\ IF conf.max = 0 \/ transfers > conf.max
       THEN Drop /\ transfers' = 0
       ELSE UNCHANGED <<session, moved, transfers>>
  /\ Leave(u)
  /\ UNCHANGED <<conf, homedir, server, troubled, shared, drops>>

(* The finally clause: the connection is closed unless it may be used for  *)
(* more transfers.                                                         *)
Finally(u) ==
  /\ At(u, "finally") \/ At(u, "raise")
  /\ IF conf.max = 0 \/ transfers >= conf.max
       THEN Drop /\ transfers' = 0
       ELSE UNCHANGED <<session, moved, transfers>>
  /\ Leave(u)
  /\ UNCHANGED <<conf, homedir, server, troubled, shared, drops>>

(* The server or the network ends the session. *)
ServerDrops ==
  /\ drops < MaxDrops
  /\ ~Dead
  /\ drops' = drops + 1
  /\ session' = [session EXCEPT !.alive = FALSE]
  /\ troubled' = troubled \cup {thread[u].file : u \in Sending}
  /\ UNCHANGED <<conf, homedir, transfers, server, thread, result, shared, moved>>

Send(u) ==
  \/ \E f \in Files : Begin(u, f)
  \/ CheckConnected(u) \/ Connect(u) \/ GetHome(u)
  \/ PrepareDirectory(u) \/ MakeDirectory(u) \/ ChangeDirectory(u)
  \/ StartTransfer(u) \/ EndTransfer(u) \/ Rename(u) \/ CountTransfer(u)
  \/ Disconnect(u) \/ ForgetTransfers(u) \/ Finally(u)

Next == (\E u \in Threads : Send(u)) \/ ServerDrops

Spec == Init /\ [][Next]_vars

----------------------------------------------------------------------------
Arrived(f) == {r \in remote : r.file = f /\ ~r.temp /\ r.whole}
Homeless == ~conf.home /\ conf.max > 0

(* A name without a directory part, on a session that has been elsewhere.  *)
Bare(f) == ~conf.dir[f].abs /\ conf.dir[f].path = <<>>
Adrift(f) == conf.max > 0 /\ Bare(f) /\ \E g \in Files : ~Bare(g)

(* What has its final name is whole, when a temporary name is used, and a  *)
(* send that returned has left such a file, however many threads share the *)
(* session and whenever it is lost.                                        *)
ReturnedMeansArrived ==
  /\ \A f \in Files : result[f] = "returned" => Arrived(f) # {}
  /\ conf.tmp => \A r \in remote : ~r.temp => r.whole

(* A send that did not share the session with another one tells the truth. *)
(* One that returned has put the file into the directory of the            *)
(* publication; one that raised met a failure of the server or lacked a    *)
(* directory that it may not make.  What the send before it left, the      *)
(* current directory of a kept session above all, is no reason for either. *)
(* There are two exceptions, both of a session that is kept: when the      *)
(* server did not tell the home directory a directory is looked for from   *)
(* wherever the last file went, and a file whose name has no directory     *)
(* part is left there.                                                     *)
UnsharedSendIsTrue ==
  \A f \in Files \ shared :
    /\ result[f] = "returned" /\ ~Homeless /\ ~Adrift(f)
         => \E r \in Arrived(f) : r.dir = Destination(f)
    /\ result[f] = "raised" /\ f \notin troubled => ~conf.create \/ Homeless

(* Between sends, when no two of them met: no session without              *)
(* max_transfers_per_connection, otherwise one that has carried no more    *)
(* files than the counter says and may carry another.  (It may have        *)
(* carried fewer: reconnecting does not reset the counter.)                *)
SessionWithinLimit ==
  Sending = {} /\ shared = {} /\ session.id # 0
  => moved <= transfers /\ transfers < conf.max
=============================================================================
