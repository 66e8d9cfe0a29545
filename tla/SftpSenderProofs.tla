-------------------------- MODULE SftpSenderProofs --------------------------
(***************************************************************************)
(* The way of a copy to one recipient.  One sftp_sender for any number of  *)
(* threads and files and any options: what holds of the files on the       *)
(* server although the threads share the session, what holds of a send     *)
(* that was alone, and what a session that is kept may still carry.  And   *)
(* one parallel_connection_sender, the line in front of such a sender, for *)
(* any number of callers and items and every queue_size.                   *)
(***************************************************************************)
EXTENDS SftpSender, ParallelSender, FiniteSetTheorems, SequenceTheorems, TLAPS

Places == {"idle", "check", "connect", "home", "dirs", "mkdir", "chdir", "put",
           "transfer", "rename", "count", "finally", "except", "reset", "raise"}
Paths == Seq(STRING)
Entries == [dir : Paths, file : Files, temp : BOOLEAN, whole : BOOLEAN]
Sessions == [id : Nat, alive : BOOLEAN, cwd : Paths]

SessionTypes ==
  /\ conf \in Configurations
  /\ session \in Sessions
  /\ homedir \in BOOLEAN
  /\ transfers \in Nat /\ moved \in Nat

ServerTypes ==
  /\ dirs \subseteq Paths
  /\ remote \subseteq Entries

ThreadTypes ==
  /\ thread \in [1..conf.threads ->
                   [pc : Places, file : Files \cup {NoFile},
                    dir : [abs : BOOLEAN, path : Paths], id : Nat]]
  /\ \A u \in Threads : thread[u].pc # "idle" => thread[u].file \in Files

ResultTypes ==
  /\ result \in [Files -> {"none", "sending", "returned", "raised"}]
  /\ shared \subseteq Files
  /\ troubled \subseteq Files

TypeInv == SessionTypes /\ ServerTypes /\ ThreadTypes /\ ResultTypes

(* A file is sent once, by one thread. *)
OwnInv ==
  /\ \A u \in Sending : result[thread[u].file] = "sending"
  /\ \A u, v \in Sending : thread[u].file = thread[v].file => u = v
  /\ \A r \in remote : result[r.file] # "none"

(* What has been made of the file of thread u on the server. *)
Mine(u) == {r \in remote : r.file = thread[u].file}
NewEntry(d, f, temp, whole) == [dir |-> d, file |-> f, temp |-> temp, whole |-> whole]
Entry(u, temp, whole) == NewEntry(thread[u].dir.path, thread[u].file, temp, whole)

Before == {"check", "connect", "home", "dirs", "mkdir", "chdir", "put"}

Uploads(u) ==
  /\ thread[u].pc \in Before => Mine(u) = {}
  /\ thread[u].pc = "transfer" => Mine(u) = {Entry(u, conf.tmp, FALSE)}
  /\ thread[u].pc = "rename" => conf.tmp /\ Mine(u) = {Entry(u, TRUE, TRUE)}
  /\ thread[u].pc \in {"count", "finally"} => Arrived(thread[u].file) # {}

UploadInv == \A u \in Threads : Uploads(u)

(* The session as it is between sends, and while others use it. *)
SessionInv ==
  /\ {Root, Home, session.cwd} \subseteq dirs
  /\ ~Dead => homedir = conf.home \/ \E u \in Threads : thread[u].pc = "home"
  /\ Sending = {} /\ session.id # 0 => transfers < conf.max
  /\ (\A f \in Files : Bare(f)) => session.cwd = Home

Prepared == {"mkdir", "chdir"}

(* The directory of a send is that of the publication, or made absolute.   *)
DirectoryInv ==
  \A u \in Threads : LET d == conf.dir[thread[u].file] IN
    /\ thread[u].pc \in Prepared =>
         \/ thread[u].dir = d
         \/ /\ conf.max > 0 /\ ~d.abs /\ d.path # <<>>
            /\ thread[u].dir = [abs |-> TRUE, path |-> Home \o d.path]
    /\ thread[u].pc = "mkdir" => thread[u].dir.path # <<>>

(* A send that has met no other one so far. *)
Alone(u) == thread[u].pc # "idle" /\ thread[u].file \notin shared

AloneInv == \A u \in Threads : Alone(u) => Sending = {u}

(* As long as it is alone the session stays as the steps before left it,   *)
(* unless the server drops it.                                             *)
Guided(f) == ~Homeless /\ ~Adrift(f)
Excused(f) == f \in troubled \/ ~conf.create \/ Homeless
Connected == {"home", "dirs", "mkdir", "chdir", "put", "transfer", "rename"}

Lives(u) ==
  /\ thread[u].pc \in Connected /\ Dead => thread[u].file \in troubled
  /\ thread[u].pc = "transfer" => session.id = thread[u].id
  /\ thread[u].pc \in {"transfer", "rename"} => session.cwd = thread[u].dir.path
  /\ conf.max = 0 => /\ thread[u].pc = "check" => Dead
                     /\ thread[u].pc \in {"home", "dirs"} \cup Prepared => session.cwd = Home

LiveInv == \A u \in Threads : Alone(u) => Lives(u)

(* Where the send has got, and why it failed.                              *)
Reaches(u, f) ==
  /\ thread[u].pc \in Prepared /\ ~Dead => Resolve(thread[u].dir) = Destination(f)
  /\ thread[u].pc = "put" /\ ~Dead => session.cwd = Destination(f)
  /\ thread[u].pc \in {"transfer", "rename"} => thread[u].dir.path = Destination(f)
  /\ thread[u].pc \in {"count", "finally"} => \E r \in Arrived(f) : r.dir = Destination(f)

Goes(u, f) ==
  /\ thread[u].pc = "mkdir" /\ ~Dead => Resolve(thread[u].dir) \notin dirs
  /\ thread[u].pc = "chdir" /\ ~Dead /\ conf.create => Resolve(thread[u].dir) \in dirs
  /\ thread[u].pc \in {"except", "reset", "raise"} => Excused(f)
  /\ Guided(f) => Reaches(u, f)

PlaceInv == \A u \in Threads : Alone(u) => Goes(u, thread[u].file)

(* Without sharing nothing is counted on a session that has gone. *)
CountInv ==
  shared = {} => /\ moved <= transfers
                 /\ \A u \in Threads : thread[u].pc = "reset" => moved = 0

----------------------------------------------------------------------------
(* Types *)

LEMMA PathFacts ==
  /\ Home \in Paths /\ Root \in Paths /\ Nested \subseteq Paths
  /\ \A p, q \in Paths : p \o q \in Paths
<1>1. Home \in Paths /\ Nested \subseteq Paths
  BY SenderAssumption DEF Paths
<1>2. Root \in Paths
  BY EmptySeq DEF Paths, Root
<1>3. \A p, q \in Paths : p \o q \in Paths
  BY ConcatProperties DEF Paths
<1> QED
  BY <1>1, <1>2, <1>3

LEMMA ConfFacts ==
  ASSUME TypeInv
  PROVE  /\ conf.threads \in Nat \ {0} /\ conf.max \in Nat
         /\ conf.tmp \in BOOLEAN /\ conf.create \in BOOLEAN /\ conf.home \in BOOLEAN
         /\ \A f \in Files : /\ conf.dir[f] \in [abs : BOOLEAN, path : Paths]
                             /\ Destination(f) \in Paths
<1>1. conf \in Configurations
  BY DEF TypeInv, SessionTypes
<1>2. /\ conf.threads \in Nat \ {0} /\ conf.max \in Nat
      /\ conf.tmp \in BOOLEAN /\ conf.create \in BOOLEAN /\ conf.home \in BOOLEAN
      /\ conf.dir \in [Files -> [abs : BOOLEAN, path : Paths]]
  BY <1>1, SenderAssumption DEF Paths
<1> QED
  BY <1>2, PathFacts DEF Destination

(* There are fewer ids in use than NewId chooses from. *)
LEMMA NewIdIsNew ==
  ASSUME TypeInv
  PROVE  /\ NewId \in Nat \ {0} /\ NewId # session.id
         /\ \A u \in Threads : NewId # thread[u].id
<1> DEFINE N == Cardinality(Threads)
           Ids == {thread[u].id : u \in Threads}
           g == [u \in Threads |-> thread[u].id]
<1>1. IsFiniteSet(Threads) /\ N \in Nat
  <2>1. conf.threads \in Nat /\ Threads = 1..conf.threads
    BY ConfFacts DEF TypeInv, ThreadTypes, Threads
  <2>2. IsFiniteSet(1..conf.threads)
    BY <2>1, FS_Interval
  <2> QED
    BY <2>1, <2>2, FS_CardinalityType
<1>2. g \in Surjection(Threads, Ids)
  BY DEF Surjection
<1>3. IsFiniteSet(Ids) /\ Cardinality(Ids) <= N /\ Cardinality(Ids) \in Nat
  BY <1>1, <1>2, FS_Surjection, FS_CardinalityType
<1> DEFINE Used == Ids \cup {session.id}
<1> HIDE DEF N, Ids, g
<1>4. IsFiniteSet(Used) /\ Cardinality(Used) <= N + 1 /\ Cardinality(Used) \in Nat
  <2>1. /\ IsFiniteSet(Ids \cup {session.id})
        /\ Cardinality(Ids \cup {session.id}) =
             IF session.id \in Ids THEN Cardinality(Ids) ELSE Cardinality(Ids) + 1
    BY <1>3, FS_AddElement
  <2> QED
    BY <1>1, <1>3, <2>1
<1>5. ~(1..(N + 2) \subseteq Used)
  <2> HIDE DEF Used
  <2>1. ASSUME 1..(N + 2) \subseteq Used PROVE FALSE
    <3>1. Cardinality(1..(N + 2)) = N + 2
      BY <1>1, FS_Interval
    <3>2. Cardinality(1..(N + 2)) <= Cardinality(Used)
      BY <1>4, <2>1, FS_Subset
    <3> QED
      BY <1>1, <1>4, <3>1, <3>2
  <2> QED
    BY <2>1
<1>6. PICK n \in 1..(N + 2) : n \notin Used
  BY <1>5
<1>7. n # session.id /\ \A u \in Threads : n # thread[u].id
  BY <1>6 DEF Ids
<1>8. /\ NewId \in 1..(N + 2) /\ NewId # session.id
      /\ \A u \in Threads : NewId # thread[u].id
  BY <1>7 DEF NewId, N
<1> QED
  BY <1>1, <1>8

LEMMA AtHomeIsSession ==
  \A n \in Nat, a \in BOOLEAN : [id |-> n, alive |-> a, cwd |-> Home] \in Sessions
BY PathFacts DEF Sessions

LEMMA ResolveType ==
  ASSUME TypeInv, NEW u \in Threads
  PROVE  Resolve(thread[u].dir) \in Paths
<1>1. thread[u].dir.path \in Paths /\ session.cwd \in Paths
  BY DEF TypeInv, ThreadTypes, Threads, SessionTypes, Sessions
<1> QED
  BY <1>1, PathFacts DEF Resolve

LEMMA PrefixesType == \A p \in Paths : Prefixes(p) \subseteq Paths
<1> SUFFICES ASSUME NEW p \in Paths, NEW n \in 1..Len(p) PROVE SubSeq(p, 1, n) \in Paths
  BY DEF Prefixes
<1> QED
  BY SubSeqProperties DEF Paths

LEMMA InitTypeInv == Init => TypeInv
<1> SUFFICES ASSUME Init PROVE TypeInv
  OBVIOUS
<1> USE PathFacts DEF Init
<1>1. SessionTypes
  BY AtHomeIsSession DEF SessionTypes, NoSession
<1>2. ServerTypes
  BY DEF ServerTypes
<1>3. ThreadTypes
  BY DEF ThreadTypes, Idle, Threads, Places, Root
<1>4. ResultTypes
  BY DEF ResultTypes
<1> QED
  BY <1>1, <1>2, <1>3, <1>4 DEF TypeInv

(* What every step of a send leaves alone. *)
LEMMA SendFrame ==
  ASSUME TypeInv, NEW u \in Threads, Send(u)
  PROVE  /\ conf' = conf /\ Threads' = Threads
         /\ \A v \in Threads : v # u => thread'[v] = thread[v]
         /\ shared \subseteq shared' /\ troubled \subseteq troubled' /\ dirs \subseteq dirs'
<1> USE DEF Threads, server, history, Goto, Blames, Leave
<1>1. CASE \E f \in Files : Begin(u, f)
  BY <1>1 DEF Begin
<1>2. CASE CheckConnected(u) \/ Connect(u) \/ GetHome(u)
  BY <1>2 DEF CheckConnected, Connect, GetHome
<1>3. CASE PrepareDirectory(u) \/ MakeDirectory(u) \/ ChangeDirectory(u)
  BY <1>3 DEF PrepareDirectory, MakeDirectory, ChangeDirectory
<1>4. CASE StartTransfer(u) \/ EndTransfer(u) \/ Rename(u) \/ CountTransfer(u)
  BY <1>4 DEF StartTransfer, EndTransfer, Rename, CountTransfer
<1>5. CASE Disconnect(u) \/ ForgetTransfers(u) \/ Finally(u)
  BY <1>5 DEF Disconnect, ForgetTransfers, Finally
<1> QED
  BY <1>1, <1>2, <1>3, <1>4, <1>5 DEF Send

LEMMA NextSessionTypes == TypeInv /\ [Next]_vars => SessionTypes'
<1> SUFFICES ASSUME TypeInv, [Next]_vars PROVE SessionTypes'
  OBVIOUS
<1> USE DEF TypeInv, SessionTypes
<1>1. ASSUME NEW u \in Threads, Connect(u) PROVE SessionTypes'
  <2>1. NewId \in Nat
    BY NewIdIsNew
  <2>2. session' = [id |-> NewId, alive |-> TRUE, cwd |-> Home] \/ session' = NoSession
    BY <1>1 DEF Connect
  <2>3. session' \in Sessions
    BY <2>1, <2>2, AtHomeIsSession DEF NoSession
  <2> QED
    BY <1>1, <2>3 DEF Connect
<1>2. ASSUME NEW u \in Threads, GetHome(u) PROVE SessionTypes'
  <2>1. homedir' \in BOOLEAN
    BY <1>2 DEF GetHome
  <2> QED
    BY <1>2, <2>1 DEF GetHome, history
<1>3. ASSUME NEW u \in Threads, ChangeDirectory(u) PROVE SessionTypes'
  <2>1. session' = session \/ \E p \in Paths : session' = [session EXCEPT !.cwd = p]
    BY <1>3 DEF ChangeDirectory, ServerTypes
  <2>2. session' \in Sessions
    BY <2>1 DEF Sessions
  <2> QED
    BY <1>3, <2>2 DEF ChangeDirectory, history
<1>4. ASSUME NEW u \in Threads, CountTransfer(u) \/ ForgetTransfers(u) PROVE SessionTypes'
  BY <1>4 DEF CountTransfer, ForgetTransfers, history
<1>5. ASSUME NEW u \in Threads, Disconnect(u) \/ Finally(u) PROVE SessionTypes'
  <2>1. NoSession \in Sessions
    BY AtHomeIsSession DEF NoSession
  <2> QED
    BY <1>5, <2>1 DEF Disconnect, Finally, Drop
<1>6. CASE ServerDrops
  BY <1>6 DEF ServerDrops, Sessions
<1>7. ASSUME UNCHANGED <<conf, session, homedir, transfers, moved>> PROVE SessionTypes'
  BY <1>7
<1>8. ASSUME NEW u \in Threads,
             \/ \E f \in Files : Begin(u, f)
             \/ CheckConnected(u) \/ PrepareDirectory(u) \/ MakeDirectory(u)
             \/ StartTransfer(u) \/ EndTransfer(u) \/ Rename(u)
      PROVE UNCHANGED <<conf, session, homedir, transfers, moved>>
  BY <1>8 DEF Begin, CheckConnected, PrepareDirectory, MakeDirectory, StartTransfer,
              EndTransfer, Rename, history
<1> QED
  BY <1>1, <1>2, <1>3, <1>4, <1>5, <1>6, <1>7, <1>8 DEF Next, Send, vars, history

LEMMA NextServerTypes == TypeInv /\ [Next]_vars => ServerTypes'
<1> SUFFICES ASSUME TypeInv, [Next]_vars PROVE ServerTypes'
  OBVIOUS
<1> USE DEF TypeInv, ServerTypes
<1>1. ASSUME NEW u \in Threads, MakeDirectory(u) PROVE ServerTypes'
  <2>1. Resolve(thread[u].dir) \in Paths
    BY ResolveType, <1>1
  <2>2. Prefixes(Resolve(thread[u].dir)) \subseteq Paths
    BY <2>1, PrefixesType
  <2> QED
    BY <1>1, <2>2 DEF MakeDirectory
<1>2. ASSUME NEW u \in Threads, StartTransfer(u) PROVE ServerTypes'
  <2>1. CASE UNCHANGED remote
    BY <1>2, <2>1 DEF StartTransfer
  <2>2. CASE ~Dead
    <3>1. thread[u].file \in Files
      BY <1>2 DEF StartTransfer, At, ThreadTypes
    <3>2. [dir |-> session.cwd, file |-> thread[u].file, temp |-> conf.tmp, whole |-> FALSE]
            \in Entries
      BY <3>1, ConfFacts DEF Entries, SessionTypes, Sessions
    <3> QED
      BY <1>2, <2>2, <3>2 DEF StartTransfer
  <2> QED
    BY <1>2, <2>1, <2>2 DEF StartTransfer
<1>3. ASSUME NEW u \in Threads, EndTransfer(u) \/ Rename(u) PROVE ServerTypes'
  <2>1. \A r \in remote : /\ [r EXCEPT !.whole = TRUE] \in Entries
                           /\ [r EXCEPT !.temp = FALSE] \in Entries
    BY DEF Entries
  <2>2. \A r \in remote' : \E q \in remote :
          r \in {q, [q EXCEPT !.whole = TRUE], [q EXCEPT !.temp = FALSE]}
    <3>1. CASE EndTransfer(u)
      BY <3>1 DEF EndTransfer, FileAt
    <3>2. CASE Rename(u)
      BY <3>2 DEF Rename, FileAt
    <3> QED
      BY <1>3, <3>1, <3>2
  <2>3. UNCHANGED dirs
    BY <1>3 DEF EndTransfer, Rename
  <2> QED
    BY <2>1, <2>2, <2>3
<1>4. ASSUME UNCHANGED server PROVE ServerTypes'
  BY <1>4 DEF server
<1>5. ASSUME NEW u \in Threads,
             \/ \E f \in Files : Begin(u, f)
             \/ CheckConnected(u) \/ Connect(u) \/ GetHome(u) \/ PrepareDirectory(u)
             \/ ChangeDirectory(u) \/ CountTransfer(u) \/ Disconnect(u)
             \/ ForgetTransfers(u) \/ Finally(u)
      PROVE UNCHANGED server
  BY <1>5 DEF Begin, CheckConnected, Connect, GetHome, PrepareDirectory, ChangeDirectory,
              CountTransfer, Disconnect, ForgetTransfers, Finally
<1>6. CASE ServerDrops \/ UNCHANGED vars
  BY <1>6, <1>4 DEF ServerDrops, vars
<1> QED
  BY <1>1, <1>2, <1>3, <1>4, <1>5, <1>6 DEF Next, Send

(* The one row of thread that a step of u writes. *)
ThreadRows == [pc : Places, file : Files \cup {NoFile},
               dir : [abs : BOOLEAN, path : Paths], id : Nat]

LEMMA NextThreadTypes == TypeInv /\ [Next]_vars => ThreadTypes'
<1> SUFFICES ASSUME TypeInv, [Next]_vars PROVE ThreadTypes'
  OBVIOUS
<1> USE DEF Places
<1>1. thread \in [Threads -> ThreadRows] /\ Threads = 1..conf.threads
  BY DEF TypeInv, ThreadTypes, ThreadRows, Threads
<1>2. ASSUME NEW u \in Threads, NEW row \in ThreadRows, thread' = [thread EXCEPT ![u] = row],
             row.pc # "idle" => row.file \in Files, UNCHANGED conf
      PROVE ThreadTypes'
  BY <1>1, <1>2 DEF TypeInv, ThreadTypes, ThreadRows, Threads
<1>3. ASSUME NEW u \in Threads, NEW p \in Places \ {"idle"}, thread[u].pc # "idle", Goto(u, p),
             UNCHANGED conf
      PROVE ThreadTypes'
  <2>1. thread' = [thread EXCEPT ![u] = [thread[u] EXCEPT !.pc = p]]
    BY <1>3 DEF Goto
  <2>2. [thread[u] EXCEPT !.pc = p] \in ThreadRows
    BY <1>1 DEF ThreadRows
  <2>3. [thread[u] EXCEPT !.pc = p].file \in Files
    BY <1>1, <1>3 DEF ThreadRows, TypeInv, ThreadTypes
  <2> QED
    BY <1>2, <1>3, <2>1, <2>2, <2>3
<1>4. ASSUME NEW u \in Threads, NEW f \in Files, Begin(u, f) PROVE ThreadTypes'
  <2> DEFINE row == [pc |-> "check", file |-> f, dir |-> conf.dir[f], id |-> 0]
  <2>1. row \in ThreadRows
    BY ConfFacts DEF ThreadRows
  <2> QED
    BY <1>2, <1>4, <2>1 DEF Begin
<1>5. ASSUME NEW u \in Threads, PrepareDirectory(u) PROVE ThreadTypes'
  <2> DEFINE d == Directory(u)
             p == Lookup(d)
  <2>1. d \in [abs : BOOLEAN, path : Paths]
    BY <1>5, ConfFacts, PathFacts DEF Directory, PrepareDirectory, At, TypeInv, ThreadTypes
  <2>2. p \in Places \ {"idle"} /\ thread' = [thread EXCEPT ![u].dir = d, ![u].pc = p]
    BY <1>5 DEF PrepareDirectory, Lookup
  <2> HIDE DEF d, p
  <2>3. thread' = [thread EXCEPT ![u] = [thread[u] EXCEPT !.dir = d, !.pc = p]]
    BY <1>1, <2>2
  <2>4. [thread[u] EXCEPT !.dir = d, !.pc = p] \in ThreadRows
    BY ZenonT(40), <1>1, <2>1, <2>2 DEF ThreadRows
  <2>5. thread[u].file \in Files
    BY <1>5 DEF PrepareDirectory, At, TypeInv, ThreadTypes
  <2>6. [thread[u] EXCEPT !.dir = d, !.pc = p].file \in Files
    BY <1>1, <2>5 DEF ThreadRows
  <2> QED
    BY <1>2, <1>5, <2>3, <2>4, <2>6 DEF PrepareDirectory
<1>6. ASSUME NEW u \in Threads, StartTransfer(u), ~Dead PROVE ThreadTypes'
  <2> DEFINE row == [thread[u] EXCEPT !.pc = "transfer", !.id = session.id,
                                      !.dir.path = session.cwd]
  <2>1. session.id \in Nat /\ session.cwd \in Paths
    BY DEF TypeInv, SessionTypes, Sessions
  <2>2. row \in ThreadRows
    BY ZenonT(40), <1>1, <2>1 DEF ThreadRows
  <2>3. thread' = [thread EXCEPT ![u] = row]
    BY <1>1, <1>6 DEF StartTransfer
  <2>4. row.file \in Files
    BY <1>1, <1>6 DEF StartTransfer, At, TypeInv, ThreadTypes, ThreadRows
  <2> QED
    BY <1>2, <1>6, <2>2, <2>3, <2>4 DEF StartTransfer
<1>7. ASSUME NEW u \in Threads, EndTransfer(u) PROVE ThreadTypes'
  <2>1. PICK p \in Places \ {"idle"} : thread' = [thread EXCEPT ![u].id = 0, ![u].pc = p]
    BY <1>7 DEF EndTransfer
  <2> DEFINE row == [thread[u] EXCEPT !.id = 0, !.pc = p]
  <2>2. row \in ThreadRows
    BY <1>1 DEF ThreadRows
  <2>3. thread' = [thread EXCEPT ![u] = row]
    BY <1>1, <2>1
  <2>4. row.file \in Files
    BY <1>1, <1>7 DEF EndTransfer, At, TypeInv, ThreadTypes, ThreadRows
  <2> QED
    BY <1>2, <1>7, <2>2, <2>3, <2>4 DEF EndTransfer
<1>8. ASSUME NEW u \in Threads, Finally(u) PROVE ThreadTypes'
  <2>1. Idle \in ThreadRows /\ Idle.pc = "idle"
    BY PathFacts DEF Idle, ThreadRows, Root
  <2> QED
    BY <1>2, <1>8, <2>1 DEF Finally, Leave
<1>9. ASSUME NEW u \in Threads,
             \/ CheckConnected(u) \/ Connect(u) \/ GetHome(u) \/ MakeDirectory(u)
             \/ ChangeDirectory(u) \/ (StartTransfer(u) /\ Dead) \/ Rename(u)
             \/ CountTransfer(u) \/ Disconnect(u) \/ ForgetTransfers(u)
      PROVE ThreadTypes'
  <2>1. /\ UNCHANGED conf /\ thread[u].pc # "idle"
        /\ \E p \in Places \ {"idle"} : Goto(u, p)
    BY <1>9 DEF CheckConnected, Connect, GetHome, MakeDirectory, ChangeDirectory, StartTransfer,
                Rename, CountTransfer, Disconnect, ForgetTransfers, At
  <2> QED
    BY <1>3, <2>1
<1>10. CASE ServerDrops \/ UNCHANGED vars
  BY <1>10 DEF ServerDrops, vars, TypeInv, ThreadTypes, Threads
<1>11. ASSUME NEW u \in Threads, Send(u) PROVE ThreadTypes'
  BY <1>4, <1>5, <1>6, <1>7, <1>8, <1>9, <1>11 DEF Send
<1> QED
  BY <1>10, <1>11 DEF Next

LEMMA NextResultTypes == TypeInv /\ [Next]_vars => ResultTypes'
<1> SUFFICES ASSUME TypeInv, [Next]_vars PROVE ResultTypes'
  OBVIOUS
<1> USE DEF TypeInv, ResultTypes
<1>1. \A u \in Sending : thread[u].file \in Files
  BY DEF ThreadTypes, Sending
<1>2. ASSUME NEW u \in Threads, NEW f \in Files, Begin(u, f) PROVE ResultTypes'
  BY <1>1, <1>2 DEF Begin
<1>3. ASSUME NEW u \in Threads, Finally(u) PROVE ResultTypes'
  BY <1>3 DEF Finally, Leave
<1>4. ASSUME NEW u \in Threads, Connect(u) \/ EndTransfer(u) PROVE ResultTypes'
  <2>1. u \in Sending
    BY <1>4 DEF Connect, EndTransfer, At, Sending
  <2> QED
    BY <1>1, <1>4, <2>1 DEF Connect, EndTransfer, Blames, history
<1>5. CASE ServerDrops
  BY <1>1, <1>5 DEF ServerDrops
<1>6. ASSUME UNCHANGED <<result, shared, troubled>> PROVE ResultTypes'
  BY <1>6
<1>7. ASSUME NEW u \in Threads,
             \/ CheckConnected(u) \/ GetHome(u) \/ PrepareDirectory(u) \/ MakeDirectory(u)
             \/ ChangeDirectory(u) \/ StartTransfer(u) \/ Rename(u) \/ CountTransfer(u)
             \/ Disconnect(u) \/ ForgetTransfers(u)
      PROVE UNCHANGED <<result, shared, troubled>>
  BY <1>7 DEF CheckConnected, GetHome, PrepareDirectory, MakeDirectory, ChangeDirectory,
              StartTransfer, Rename, CountTransfer, Disconnect, ForgetTransfers, history
<1> QED
  BY <1>2, <1>3, <1>4, <1>5, <1>6, <1>7 DEF Next, Send, vars, history

LEMMA NextTypeInv == TypeInv /\ [Next]_vars => TypeInv'
BY NextSessionTypes, NextServerTypes, NextThreadTypes, NextResultTypes DEF TypeInv

----------------------------------------------------------------------------
(* What a step does to the rows of the threads and to the remote files *)

LEMMA SendingRows ==
  ASSUME TypeInv
  PROVE  /\ Threads = 1..conf.threads /\ thread \in [Threads -> ThreadRows]
         /\ Sending \subseteq Threads
         /\ \A u \in Threads : u \in Sending <=> thread[u].pc # "idle"
         /\ \A u \in Sending : thread[u].file \in Files
BY DEF TypeInv, ThreadTypes, ThreadRows, Threads, Sending

LEMMA GotoRow ==
  ASSUME TypeInv, NEW u \in Threads, NEW p, Goto(u, p)
  PROVE  /\ thread'[u].pc = p /\ thread'[u].file = thread[u].file
         /\ thread'[u].dir = thread[u].dir /\ thread'[u].id = thread[u].id
BY SendingRows DEF Goto, ThreadRows

(* Marking an entry changes the one field.                                 *)
LEMMA EntryRenamed ==
  \A d, f : \A t, w, x \in BOOLEAN :
    [NewEntry(d, f, t, w) EXCEPT !.temp = x] = NewEntry(d, f, x, w)
BY DEF NewEntry

LEMMA EntryWritten ==
  \A d, f : \A t, w, x \in BOOLEAN :
    [NewEntry(d, f, t, w) EXCEPT !.whole = x] = NewEntry(d, f, t, x)
BY DEF NewEntry

(* The steps of a send between its first and its last. *)
Inner(u) ==
  \/ CheckConnected(u) \/ Connect(u) \/ GetHome(u)
  \/ PrepareDirectory(u) \/ MakeDirectory(u) \/ ChangeDirectory(u)
  \/ StartTransfer(u) \/ EndTransfer(u) \/ Rename(u) \/ CountTransfer(u)
  \/ Disconnect(u) \/ ForgetTransfers(u)

LEMMA InnerStands ==
  ASSUME TypeInv, NEW u \in Threads, Inner(u)
  PROVE  /\ u \in Sending /\ Sending' = Sending /\ UNCHANGED <<result, shared, drops>>
         /\ \A v \in Threads : thread'[v].file = thread[v].file
<1> DEFINE Stands == /\ u \in Sending /\ Sending' = Sending
                     /\ \A v \in Threads : thread'[v].file = thread[v].file
<1>1. UNCHANGED <<result, shared, drops>>
  BY DEF Inner, CheckConnected, Connect, GetHome, PrepareDirectory, MakeDirectory,
         ChangeDirectory, StartTransfer, EndTransfer, Rename, CountTransfer, Disconnect,
         ForgetTransfers, history
<1>2. ASSUME NEW row, thread' = [thread EXCEPT ![u] = row], row.file = thread[u].file,
             row.pc # "idle", thread[u].pc # "idle"
      PROVE Stands
  BY <1>2, SendingRows DEF Sending, Threads
<1>3. ASSUME NEW p, p # "idle", thread[u].pc # "idle", Goto(u, p) PROVE Stands
  <2>1. thread' = [thread EXCEPT ![u] = [thread[u] EXCEPT !.pc = p]]
    BY <1>3 DEF Goto
  <2>2. /\ [thread[u] EXCEPT !.pc = p].file = thread[u].file
        /\ [thread[u] EXCEPT !.pc = p].pc = p
    BY SendingRows DEF ThreadRows
  <2> QED
    BY <1>2, <1>3, <2>1, <2>2
<1>4. CASE PrepareDirectory(u)
  <2> DEFINE d == Directory(u)
             p == Lookup(d)
             row == [thread[u] EXCEPT !.dir = d, !.pc = p]
  <2>1. p # "idle"
    BY DEF Lookup
  <2>2. thread' = [thread EXCEPT ![u].dir = d, ![u].pc = p] /\ thread[u].pc # "idle"
    BY <1>4 DEF PrepareDirectory, At
  <2> HIDE DEF p, d
  <2>3. thread' = [thread EXCEPT ![u] = row]
    BY <2>2, SendingRows
  <2>4. row.file = thread[u].file /\ row.pc = p
    BY SendingRows DEF ThreadRows
  <2> QED
    BY <1>1, <1>2, <2>1, <2>2, <2>3, <2>4
<1>5. CASE StartTransfer(u) /\ ~Dead
  <2> DEFINE row == [thread[u] EXCEPT !.pc = "transfer", !.id = session.id,
                                      !.dir.path = session.cwd]
  <2>1. thread' = [thread EXCEPT ![u] = row] /\ thread[u].pc # "idle"
    BY <1>5, SendingRows DEF StartTransfer, At
  <2>2. row.file = thread[u].file /\ row.pc = "transfer"
    BY SendingRows DEF ThreadRows
  <2> QED
    BY <1>1, <1>2, <2>1, <2>2
<1>6. CASE EndTransfer(u)
  <2>1. PICK p : p # "idle" /\ thread' = [thread EXCEPT ![u].id = 0, ![u].pc = p]
    BY <1>6 DEF EndTransfer
  <2> DEFINE row == [thread[u] EXCEPT !.id = 0, !.pc = p]
  <2>2. thread' = [thread EXCEPT ![u] = row] /\ thread[u].pc # "idle"
    BY <1>6, <2>1, SendingRows DEF EndTransfer, At
  <2>3. row.file = thread[u].file /\ row.pc = p
    BY SendingRows DEF ThreadRows
  <2> QED
    BY <1>1, <1>2, <2>1, <2>2, <2>3
<1>7. ASSUME \/ CheckConnected(u) \/ Connect(u) \/ GetHome(u) \/ MakeDirectory(u)
             \/ ChangeDirectory(u) \/ (StartTransfer(u) /\ Dead) \/ Rename(u)
             \/ CountTransfer(u) \/ Disconnect(u) \/ ForgetTransfers(u)
      PROVE Stands
  <2>1. thread[u].pc # "idle" /\ \E p : p # "idle" /\ Goto(u, p)
    BY <1>7 DEF CheckConnected, Connect, GetHome, MakeDirectory, ChangeDirectory, StartTransfer,
                Rename, CountTransfer, Disconnect, ForgetTransfers, At
  <2> QED
    BY <1>3, <2>1
<1> QED
  BY <1>1, <1>4, <1>5, <1>6, <1>7 DEF Inner

(* Only the files of thread u change on the server. *)
LEMMA RemoteMoves ==
  ASSUME TypeInv, NEW u \in Threads, Inner(u)
  PROVE  /\ \A r \in remote' : r \in remote \/ r.file = thread[u].file
         /\ \A r \in remote : r \in remote' \/ r.file = thread[u].file
<1>1. CASE StartTransfer(u)
  BY <1>1 DEF StartTransfer
<1>2. ASSUME NEW f, NEW d, NEW temp, NEW new, f = thread[u].file,
             remote' = (remote \ FileAt(d, f, temp)) \cup new,
             \A r \in new : r.file = f
      PROVE /\ \A r \in remote' : r \in remote \/ r.file = thread[u].file
            /\ \A r \in remote : r \in remote' \/ r.file = thread[u].file
  BY <1>2 DEF FileAt
<1>3. \A r \in remote : [r EXCEPT !.whole = TRUE].file = r.file /\ [r EXCEPT !.temp = FALSE].file = r.file
  BY DEF TypeInv, ServerTypes, Entries
<1>4. CASE EndTransfer(u)
  <2> DEFINE old == FileAt(thread[u].dir.path, thread[u].file, conf.tmp)
  <2>1. CASE UNCHANGED remote
    BY <2>1
  <2>2. CASE remote' = (remote \ old) \cup {[r EXCEPT !.whole = TRUE] : r \in old}
    <3>1. \A r \in {[q EXCEPT !.whole = TRUE] : q \in old} : r.file = thread[u].file
      BY ZenonT(40), <1>3 DEF FileAt
    <3> QED
      BY <1>2, <2>2, <3>1
  <2> QED
    BY <1>4, <2>1, <2>2 DEF EndTransfer
<1>5. CASE Rename(u)
  <2> DEFINE old == FileAt(session.cwd, thread[u].file, TRUE)
  <2>1. CASE UNCHANGED remote
    BY <2>1
  <2>2. CASE remote' = (remote \ old) \cup {[r EXCEPT !.temp = FALSE] : r \in old}
    <3>1. \A r \in {[q EXCEPT !.temp = FALSE] : q \in old} : r.file = thread[u].file
      BY ZenonT(40), <1>3 DEF FileAt
    <3> QED
      BY <1>2, <2>2, <3>1
  <2> QED
    BY <1>5, <2>1, <2>2 DEF Rename
<1>6. CASE UNCHANGED remote
  BY <1>6
<1>7. ASSUME \/ CheckConnected(u) \/ Connect(u) \/ GetHome(u) \/ PrepareDirectory(u)
             \/ MakeDirectory(u) \/ ChangeDirectory(u) \/ CountTransfer(u)
             \/ Disconnect(u) \/ ForgetTransfers(u)
      PROVE UNCHANGED remote
  BY <1>7 DEF CheckConnected, Connect, GetHome, PrepareDirectory, MakeDirectory,
              ChangeDirectory, CountTransfer, Disconnect, ForgetTransfers, server
<1> QED
  BY <1>1, <1>4, <1>5, <1>6, <1>7 DEF Inner

LEMMA NextCases ==
  ASSUME [Next]_vars
  PROVE  \/ \E u \in Threads, f \in Files : Begin(u, f)
         \/ \E u \in Threads : Inner(u) \/ Finally(u)
         \/ ServerDrops \/ UNCHANGED vars
BY DEF Next, Send, Inner

(* Neither a lost session nor time moves a send or a file. *)
LEMMA DropFrame ==
  ASSUME ServerDrops \/ UNCHANGED vars
  PROVE  /\ UNCHANGED <<conf, homedir, transfers, dirs, remote, thread, result, shared, moved>>
         /\ Threads' = Threads /\ Sending' = Sending
         /\ session' = session \/ session' = [session EXCEPT !.alive = FALSE]
BY DEF ServerDrops, vars, server, history, Sending, Threads

LEMMA NextOwnInv == TypeInv /\ OwnInv /\ [Next]_vars => OwnInv'
<1> SUFFICES ASSUME TypeInv, OwnInv, [Next]_vars PROVE OwnInv'
  OBVIOUS
<1> USE DEF OwnInv
<1>1. ASSUME NEW u \in Threads, NEW f \in Files, Begin(u, f) PROVE OwnInv'
  <2>1. /\ Sending' = Sending \cup {u} /\ u \notin Sending
        /\ thread'[u].file = f /\ \A v \in Sending : thread'[v].file = thread[v].file
    BY <1>1, SendingRows DEF Begin, At, Sending, Threads
  <2>2. /\ result[f] = "none" /\ result' = [result EXCEPT ![f] = "sending"]
        /\ UNCHANGED remote /\ result \in [Files -> {"none", "sending", "returned", "raised"}]
    BY <1>1 DEF Begin, TypeInv, ResultTypes, server
  <2>3. \A v \in Sending : thread[v].file # f
    BY <2>2
  <2> QED
    BY <2>1, <2>2, <2>3, SendingRows DEF TypeInv, ServerTypes, Entries
<1>2. ASSUME NEW u \in Threads, Inner(u) PROVE OwnInv'
  BY <1>2, InnerStands, RemoteMoves, SendingRows
<1>3. ASSUME NEW u \in Threads, Finally(u) PROVE OwnInv'
  <2>1. /\ Sending' = Sending \ {u} /\ u \in Sending
        /\ \A v \in Sending' : thread'[v].file = thread[v].file
    BY <1>3, SendingRows DEF Finally, At, Leave, Idle, Sending, Threads
  <2>2. /\ UNCHANGED remote /\ result \in [Files -> {"none", "sending", "returned", "raised"}]
        /\ \E x \in {"raised", "returned"} : result' = [result EXCEPT ![thread[u].file] = x]
    BY <1>3 DEF Finally, Leave, TypeInv, ResultTypes, server
  <2> QED
    BY <2>1, <2>2, SendingRows DEF TypeInv, ServerTypes, Entries
<1>4. CASE ServerDrops \/ UNCHANGED vars
  BY <1>4, DropFrame
<1> QED
  BY <1>1, <1>2, <1>3, <1>4, NextCases

----------------------------------------------------------------------------
(* What arrives *)

LEMMA SameUploads ==
  ASSUME NEW v, UNCHANGED conf, thread'[v] = thread[v], Mine(v)' = Mine(v),
         Arrived(thread[v].file)' = Arrived(thread[v].file), Uploads(v)
  PROVE  Uploads(v)'
BY DEF Uploads, Entry

LEMMA OthersUploads ==
  ASSUME TypeInv, OwnInv, NEW u \in Threads, Inner(u), NEW v \in Threads \ {u}, Uploads(v)
  PROVE  Uploads(v)'
<1>1. thread'[v] = thread[v] /\ conf' = conf
  BY SendFrame DEF Inner, Send
<1>2. CASE thread[v].pc = "idle"
  BY <1>1, <1>2 DEF Uploads, Before
<1>3. CASE thread[v].pc # "idle"
  <2>1. thread[v].file # thread[u].file
    BY <1>3, InnerStands, SendingRows DEF OwnInv
  <2>2. Mine(v)' = Mine(v) /\ Arrived(thread[v].file)' = Arrived(thread[v].file)
    BY <1>1, <2>1, RemoteMoves DEF Mine, Arrived
  <2> QED
    BY <1>1, <2>2 DEF Uploads, Entry
<1> QED
  BY <1>2, <1>3

LEMMA StartUploads ==
  ASSUME TypeInv, NEW u \in Threads, Uploads(u), StartTransfer(u), ~Dead
  PROVE  /\ thread'[u].pc = "transfer"
         /\ Mine(u)' = {Entry(u, conf.tmp, FALSE)'}
         /\ thread'[u].dir.path = session.cwd /\ thread'[u].id = session.id
<1>1. /\ thread'[u].pc = "transfer" /\ thread'[u].file = thread[u].file
      /\ thread'[u].dir.path = session.cwd /\ thread'[u].id = session.id
  BY SendingRows DEF StartTransfer, ThreadRows
<1>2. Entry(u, conf.tmp, FALSE)' = NewEntry(session.cwd, thread[u].file, conf.tmp, FALSE)
  BY <1>1 DEF StartTransfer, Entry
<1>3. Mine(u) = {} /\ remote' = remote \cup {Entry(u, conf.tmp, FALSE)'}
  BY <1>2 DEF StartTransfer, At, Uploads, Before, NewEntry
<1>4. Entry(u, conf.tmp, FALSE)'.file = thread[u].file
  <2>1. NewEntry(session.cwd, thread[u].file, conf.tmp, FALSE).file = thread[u].file
    BY ConfFacts DEF NewEntry
  <2> QED
    BY <1>2, <2>1, Zenon
<1> QED
  BY <1>1, <1>3, <1>4 DEF Mine

LEMMA EndUploads ==
  ASSUME TypeInv, NEW u \in Threads, Uploads(u), EndTransfer(u), thread'[u].pc # "except"
  PROVE  /\ thread'[u].pc = IF conf.tmp THEN "rename" ELSE "count"
         /\ Mine(u)' = {Entry(u, conf.tmp, TRUE)} /\ thread'[u].dir = thread[u].dir
<1> DEFINE old == FileAt(thread[u].dir.path, thread[u].file, conf.tmp)
           e == Entry(u, conf.tmp, FALSE)
<1>1. /\ thread'[u].pc = IF conf.tmp THEN "rename" ELSE "count"
      /\ thread'[u].file = thread[u].file /\ thread'[u].dir = thread[u].dir
      /\ remote' = (remote \ old) \cup {[r EXCEPT !.whole = TRUE] : r \in old}
  <2> DEFINE p == IF conf.tmp THEN "rename" ELSE "count"
  <2>1. CASE /\ thread' = [thread EXCEPT ![u].id = 0, ![u].pc = p]
             /\ remote' = (remote \ old) \cup {[r EXCEPT !.whole = TRUE] : r \in old}
    <3> HIDE DEF p, old
    <3>1. /\ thread'[u].pc = p /\ thread'[u].file = thread[u].file
          /\ thread'[u].dir = thread[u].dir
      BY <2>1, SendingRows DEF ThreadRows
    <3> QED
      BY <2>1, <3>1 DEF p
  <2>2. CASE thread' = [thread EXCEPT ![u].id = 0, ![u].pc = "except"]
    BY <2>2, SendingRows DEF ThreadRows
  <2> QED
    BY <2>1, <2>2 DEF EndTransfer
<1>2. Mine(u) = {e}
  BY DEF EndTransfer, At, Uploads
<1>3. /\ e.dir = thread[u].dir.path /\ e.file = thread[u].file /\ e.temp = conf.tmp
      /\ [e EXCEPT !.whole = TRUE] = Entry(u, conf.tmp, TRUE)
      /\ Entry(u, conf.tmp, TRUE).file = thread[u].file
  <2>1. e.dir = thread[u].dir.path /\ e.file = thread[u].file /\ e.temp = conf.tmp
    BY ConfFacts DEF Entry, NewEntry
  <2>2. [e EXCEPT !.whole = TRUE] = Entry(u, conf.tmp, TRUE)
    <3>1. conf.tmp \in BOOLEAN /\ TRUE \in BOOLEAN /\ FALSE \in BOOLEAN
      BY ConfFacts
    <3> QED
      BY <3>1, EntryWritten, Zenon DEF Entry
  <2>3. Entry(u, conf.tmp, TRUE).file = thread[u].file
    BY ConfFacts DEF Entry, NewEntry
  <2> QED
    BY <2>1, <2>2, <2>3
<1> HIDE DEF e
<1>4. old = {e}
  BY <1>2, <1>3 DEF Mine, FileAt
<1> HIDE DEF old
<1>5. remote' = (remote \ {e}) \cup {Entry(u, conf.tmp, TRUE)}
  BY <1>1, <1>3, <1>4
<1> QED
  BY <1>1, <1>2, <1>3, <1>5 DEF Mine

LEMMA RenameUploads ==
  ASSUME TypeInv, NEW u \in Threads, Uploads(u), Rename(u), thread'[u].pc # "except"
  PROVE  /\ thread'[u].pc = "count" /\ thread'[u].file = thread[u].file
         /\ Mine(u)' = {Entry(u, FALSE, TRUE)}
<1> DEFINE old == FileAt(session.cwd, thread[u].file, TRUE)
           e == Entry(u, TRUE, TRUE)
<1>1. /\ thread'[u].pc = "count" /\ thread'[u].file = thread[u].file
      /\ old # {} /\ remote' = (remote \ old) \cup {[r EXCEPT !.temp = FALSE] : r \in old}
  BY SendingRows DEF Rename, Goto, ThreadRows
<1>2. Mine(u) = {e}
  BY DEF Rename, At, Uploads
<1>3. /\ [e EXCEPT !.temp = FALSE] = Entry(u, FALSE, TRUE)
      /\ Entry(u, FALSE, TRUE).file = thread[u].file
  <2>1. [e EXCEPT !.temp = FALSE] = Entry(u, FALSE, TRUE)
    BY EntryRenamed DEF Entry
  <2>2. Entry(u, FALSE, TRUE).file = thread[u].file
    BY DEF Entry, NewEntry
  <2> QED
    BY <2>1, <2>2
<1> HIDE DEF e
<1>4. old = {e}
  BY <1>1, <1>2 DEF Mine, FileAt
<1> HIDE DEF old
<1>5. remote' = (remote \ {e}) \cup {Entry(u, FALSE, TRUE)}
  BY <1>1, <1>3, <1>4
<1> QED
  BY <1>1, <1>2, <1>3, <1>5 DEF Mine

LEMMA FailedUploads ==
  ASSUME TypeInv, NEW u \in Threads, EndTransfer(u) \/ Rename(u), thread'[u].pc = "except"
  PROVE  UNCHANGED remote
<1>1. CASE EndTransfer(u)
  <2> DEFINE p == IF conf.tmp THEN "rename" ELSE "count"
  <2>1. p # "except"
    OBVIOUS
  <2>2. ASSUME thread' = [thread EXCEPT ![u].id = 0, ![u].pc = p] PROVE FALSE
    <3> HIDE DEF p
    <3>1. thread'[u].pc = p
      BY <2>2, SendingRows DEF ThreadRows
    <3> QED
      BY <2>1, <3>1
  <2> QED
    BY <1>1, <2>2 DEF EndTransfer
<1>2. CASE Rename(u)
  BY <1>2, SendingRows DEF Rename, Goto, ThreadRows
<1> QED
  BY <1>1, <1>2

(* Which way each of the other steps goes. *)
LEMMA OtherStepsGo ==
  ASSUME TypeInv, NEW u \in Threads
  PROVE  /\ CheckConnected(u) \/ Connect(u) \/ GetHome(u) \/ PrepareDirectory(u) \/ MakeDirectory(u)
              \/ ChangeDirectory(u) \/ (StartTransfer(u) /\ Dead)
            => /\ thread[u].pc \in Before /\ thread'[u].pc \in Before \cup {"except"}
               /\ UNCHANGED remote
         /\ CountTransfer(u) => /\ thread[u].pc = "count" /\ thread'[u].pc = "finally"
                                /\ UNCHANGED remote
         /\ Disconnect(u) \/ ForgetTransfers(u)
            => /\ thread[u].pc \in {"except", "reset"} /\ thread'[u].pc \in {"reset", "raise"}
               /\ UNCHANGED remote
<1>1. ASSUME \/ CheckConnected(u) \/ Connect(u) \/ GetHome(u) \/ MakeDirectory(u)
             \/ ChangeDirectory(u) \/ (StartTransfer(u) /\ Dead)
      PROVE  /\ thread[u].pc \in Before /\ thread'[u].pc \in Before \cup {"except"}
             /\ UNCHANGED remote
  <2>1. /\ thread[u].pc \in Before /\ UNCHANGED remote
        /\ \E p \in Before \cup {"except"} : Goto(u, p)
    BY <1>1 DEF CheckConnected, Connect, GetHome, MakeDirectory, ChangeDirectory,
                StartTransfer, At, Before, server
  <2> QED
    BY <2>1, GotoRow
<1>2. ASSUME PrepareDirectory(u)
      PROVE  thread[u].pc \in Before /\ thread'[u].pc \in Before \cup {"except"} /\ UNCHANGED remote
  <2> DEFINE d == Directory(u)
             p == Lookup(d)
  <2>1. p \in {"chdir", "except", "mkdir"}
    BY DEF Lookup
  <2>2. /\ thread' = [thread EXCEPT ![u].dir = d, ![u].pc = p] /\ thread[u].pc = "dirs"
        /\ UNCHANGED remote
    BY <1>2 DEF PrepareDirectory, At, server
  <2> HIDE DEF p, d
  <2> QED
    BY <2>1, <2>2, SendingRows DEF ThreadRows, Before
<1>3. CountTransfer(u) => thread[u].pc = "count" /\ thread'[u].pc = "finally" /\ UNCHANGED remote
  BY GotoRow DEF CountTransfer, At, server
<1>4. Disconnect(u) \/ ForgetTransfers(u) =>
        /\ thread[u].pc \in {"except", "reset"} /\ thread'[u].pc \in {"reset", "raise"}
        /\ UNCHANGED remote
  BY GotoRow DEF Disconnect, ForgetTransfers, At, server
<1> QED
  BY <1>1, <1>2, <1>3, <1>4

LEMMA NextUploadInv == TypeInv /\ OwnInv /\ UploadInv /\ [Next]_vars => UploadInv'
<1> SUFFICES ASSUME TypeInv, OwnInv, UploadInv, [Next]_vars PROVE UploadInv'
  OBVIOUS
<1> USE DEF UploadInv
<1>1. ASSUME NEW u \in Threads, NEW f \in Files, Begin(u, f) PROVE UploadInv'
  <2>1. /\ thread'[u].pc = "check" /\ thread'[u].file = f /\ Threads' = Threads
        /\ \A v \in Threads : v # u => thread'[v] = thread[v]
        /\ result[f] = "none" /\ UNCHANGED <<conf, remote>>
    BY <1>1, SendingRows DEF Begin, server, Threads
  <2>2. Uploads(u)'
    BY <2>1 DEF OwnInv, Uploads, Mine, Before
  <2>3. ASSUME NEW v \in Threads \ {u} PROVE Uploads(v)'
    BY <2>1, <2>3, SameUploads DEF Mine, Arrived
  <2> QED
    BY <2>1, <2>2, <2>3
<1>2. ASSUME NEW u \in Threads, Inner(u) PROVE UploadInv'
  <2>1. conf' = conf /\ Threads' = Threads
    BY <1>2, SendFrame DEF Inner, Send
  <2>2. ASSUME NEW v \in Threads \ {u} PROVE Uploads(v)'
    BY <1>2, <2>2, OthersUploads
  <2>3. CASE StartTransfer(u) /\ ~Dead
    <3>1. Uploads(u)'
      BY <2>1, <2>3, StartUploads DEF Uploads, Before
    <3> QED
      BY <2>1, <2>2, <3>1
  <2>4. CASE EndTransfer(u)
    <3>1. CASE thread'[u].pc = "except"
      BY <2>1, <2>2, <3>1 DEF Uploads, Before
    <3>2. CASE thread'[u].pc # "except"
      <4>1. /\ thread'[u].pc = IF conf.tmp THEN "rename" ELSE "count"
            /\ Mine(u)' = {Entry(u, conf.tmp, TRUE)} /\ thread'[u].dir = thread[u].dir
            /\ thread'[u].file = thread[u].file
        BY <2>4, <3>2, EndUploads, InnerStands DEF Inner
      <4>2. CASE conf.tmp
        <5>1. Entry(u, TRUE, TRUE)' = Entry(u, TRUE, TRUE)
          BY <4>1 DEF Entry
        <5>2. Entry(u, conf.tmp, TRUE) = Entry(u, TRUE, TRUE)
          BY <4>2, ConfFacts
        <5>3. Uploads(u)'
          BY <2>1, <4>1, <4>2, <5>1, <5>2 DEF Uploads, Before
        <5> QED
          BY <2>1, <2>2, <5>3
      <4>3. CASE ~conf.tmp
        <5>1. Entry(u, conf.tmp, TRUE).whole /\ ~Entry(u, conf.tmp, TRUE).temp
          BY <4>3, ConfFacts DEF Entry, NewEntry
        <5>2. Entry(u, conf.tmp, TRUE) \in Mine(u)'
          BY <4>1
        <5>3. Arrived(thread[u].file)' # {}
          BY <4>1, <5>1, <5>2 DEF Mine, Arrived
        <5>4. Uploads(u)'
          BY <4>1, <4>3, <5>3 DEF Uploads, Before
        <5> QED
          BY <2>1, <2>2, <5>4
      <4> QED
        BY <4>2, <4>3
    <3> QED
      BY <3>1, <3>2
  <2>5. CASE Rename(u)
    <3>1. CASE thread'[u].pc = "except"
      BY <2>1, <2>2, <3>1 DEF Uploads, Before
    <3>2. CASE thread'[u].pc # "except"
      <4>1. /\ thread'[u].pc = "count" /\ thread'[u].file = thread[u].file
            /\ Entry(u, FALSE, TRUE) \in Mine(u)'
        BY <2>5, <3>2, RenameUploads
      <4>2. Entry(u, FALSE, TRUE).whole /\ ~Entry(u, FALSE, TRUE).temp
        BY ConfFacts DEF Entry, NewEntry
      <4>3. Uploads(u)'
        BY <4>1, <4>2 DEF Uploads, Before, Mine, Arrived
      <4> QED
        BY <2>1, <2>2, <4>3
    <3> QED
      BY <3>1, <3>2
  <2>6. CASE \/ CheckConnected(u) \/ Connect(u) \/ GetHome(u) \/ PrepareDirectory(u)
             \/ MakeDirectory(u) \/ ChangeDirectory(u) \/ (StartTransfer(u) /\ Dead)
    <3>1. /\ thread[u].pc \in Before /\ thread'[u].pc \in Before \cup {"except"}
          /\ UNCHANGED remote /\ thread'[u].file = thread[u].file
      BY <1>2, <2>6, OtherStepsGo, InnerStands
    <3>2. Uploads(u)'
      BY <3>1 DEF Uploads, Mine, Before
    <3> QED
      BY <2>1, <2>2, <3>2
  <2>7. CASE CountTransfer(u) \/ Disconnect(u) \/ ForgetTransfers(u)
    <3>1. /\ thread'[u].pc \in {"finally", "reset", "raise"} /\ UNCHANGED remote
          /\ thread'[u].pc = "finally" => thread[u].pc = "count"
          /\ thread'[u].file = thread[u].file
      BY <1>2, <2>7, OtherStepsGo, InnerStands
    <3>2. Uploads(u)'
      BY <3>1 DEF Uploads, Mine, Before, Arrived
    <3> QED
      BY <2>1, <2>2, <3>2
  <2> QED
    BY <1>2, <2>3, <2>4, <2>5, <2>6, <2>7 DEF Inner
<1>3. ASSUME NEW u \in Threads, Finally(u) PROVE UploadInv'
  <2>1. /\ thread'[u].pc = "idle" /\ Threads' = Threads /\ UNCHANGED <<conf, remote>>
        /\ \A v \in Threads : v # u => thread'[v] = thread[v]
    BY <1>3, SendingRows DEF Finally, Leave, Idle, server, Threads
  <2>2. Uploads(u)'
    BY <2>1 DEF Uploads, Before
  <2>3. ASSUME NEW v \in Threads \ {u} PROVE Uploads(v)'
    BY <2>1, <2>3, SameUploads DEF Mine, Arrived
  <2> QED
    BY <2>1, <2>2, <2>3
<1>4. CASE ServerDrops \/ UNCHANGED vars
  <2>1. Threads' = Threads /\ UNCHANGED <<conf, remote, thread>>
    BY <1>4, DropFrame
  <2> QED
    BY <2>1, SameUploads DEF Mine, Arrived
<1> QED
  BY <1>1, <1>2, <1>3, <1>4, NextCases

(* Nothing but the thread that sends it touches a file.                    *)
LEMMA ArrivedStays ==
  ASSUME TypeInv, OwnInv, NEW f \in Files, result[f] = "returned", [Next]_vars,
         NEW r \in Arrived(f)
  PROVE  r \in Arrived(f)'
<1>1. ASSUME NEW u \in Threads, Inner(u) PROVE r \in Arrived(f)'
  <2>1. thread[u].file # f
    BY <1>1, InnerStands DEF OwnInv
  <2> QED
    BY <1>1, <2>1, RemoteMoves DEF Arrived
<1>2. CASE UNCHANGED remote
  BY <1>2 DEF Arrived
<1>3. ASSUME NEW u \in Threads, Finally(u) \/ \E g \in Files : Begin(u, g)
      PROVE UNCHANGED remote
  BY <1>3 DEF Finally, Begin, server
<1> QED
  BY <1>1, <1>2, <1>3, NextCases, DropFrame

(* A send ends in its finally clause. *)
LEMMA EndOfSend ==
  ASSUME TypeInv, [Next]_vars, NEW f \in Files, result'[f] # result[f],
         result'[f] \in {"returned", "raised"}
  PROVE  \E u \in Threads :
           /\ Finally(u) /\ thread[u].file = f
           /\ thread[u].pc = IF result'[f] = "returned" THEN "finally" ELSE "raise"
<1>1. ASSUME NEW u \in Threads, NEW g \in Files, Begin(u, g) PROVE FALSE
  BY <1>1 DEF Begin, TypeInv, ResultTypes
<1>2. ASSUME NEW u \in Threads, Inner(u) PROVE FALSE
  BY <1>2, InnerStands
<1>3. ASSUME NEW u \in Threads, Finally(u)
      PROVE  /\ thread[u].file = f
             /\ thread[u].pc = IF result'[f] = "returned" THEN "finally" ELSE "raise"
  BY <1>3 DEF Finally, Leave, At, TypeInv, ResultTypes
<1> QED
  BY <1>1, <1>2, <1>3, NextCases, DropFrame

LEMMA NextReturned ==
  TypeInv /\ OwnInv /\ UploadInv /\ ReturnedMeansArrived /\ [Next]_vars
  => ReturnedMeansArrived'
<1> SUFFICES ASSUME TypeInv, OwnInv, UploadInv, ReturnedMeansArrived, [Next]_vars
             PROVE  ReturnedMeansArrived'
  OBVIOUS
<1>1. ASSUME NEW f \in Files, result'[f] = "returned" PROVE Arrived(f)' # {}
  <2>1. CASE result[f] = "returned"
    BY <1>1, <2>1, ArrivedStays DEF ReturnedMeansArrived
  <2>2. CASE result[f] # "returned"
    <3>1. PICK u \in Threads : Finally(u) /\ thread[u].file = f /\ thread[u].pc = "finally"
      BY <1>1, <2>2, EndOfSend
    <3>2. Arrived(f) # {} /\ UNCHANGED remote
      BY <3>1 DEF UploadInv, Uploads, Finally, server
    <3> QED
      BY <3>2 DEF Arrived
  <2> QED
    BY <2>1, <2>2
<1>2. ASSUME conf'.tmp, NEW r \in remote', ~r.temp PROVE r.whole
  <2>1. conf' = conf
    BY NextCases, SendFrame, DropFrame DEF Send, Inner
  <2>2. CASE r \in remote
    BY <1>2, <2>1, <2>2 DEF ReturnedMeansArrived
  <2>3. CASE r \notin remote
    <3>1. PICK u \in Threads : Inner(u) /\ r \in Mine(u)'
      BY <1>2, <2>3, NextCases, DropFrame, RemoteMoves, InnerStands
      DEF Begin, Finally, server, Mine
    <3>2. CASE StartTransfer(u) /\ ~Dead
      BY <1>2, <2>1, <3>1, <3>2, StartUploads DEF UploadInv, Entry, NewEntry
    <3>3. CASE EndTransfer(u)
      BY <1>2, <2>1, <2>3, <3>1, <3>3, EndUploads, FailedUploads DEF UploadInv, Entry, NewEntry
    <3>4. CASE Rename(u)
      BY <1>2, <2>1, <2>3, <3>1, <3>4, RenameUploads, FailedUploads DEF UploadInv, Entry, NewEntry
    <3>5. UNCHANGED remote => FALSE
      BY <1>2, <2>3
    <3> QED
      BY <3>1, <3>2, <3>3, <3>4, <3>5, OtherStepsGo DEF Inner
  <2> QED
    BY <2>2, <2>3
<1> QED
  BY <1>1, <1>2 DEF ReturnedMeansArrived

----------------------------------------------------------------------------
(* A send that is alone *)

LEMMA BeginMoves ==
  ASSUME TypeInv, NEW u \in Threads, NEW f \in Files, Begin(u, f)
  PROVE  /\ u \notin Sending /\ Sending' = Sending \cup {u} /\ Threads' = Threads
         /\ thread'[u].pc = "check" /\ thread'[u].file = f
         /\ \A v \in Threads : v # u => thread'[v] = thread[v]
         /\ UNCHANGED <<conf, session, homedir, transfers, dirs, remote, moved, troubled>>
BY SendingRows DEF Begin, At, Sending, Threads, server

LEMMA FinallyMoves ==
  ASSUME TypeInv, NEW u \in Threads, Finally(u)
  PROVE  /\ u \in Sending /\ Sending' = Sending \ {u} /\ Threads' = Threads
         /\ thread'[u].pc = "idle"
         /\ \A v \in Threads : v # u => thread'[v] = thread[v]
         /\ UNCHANGED <<conf, homedir, dirs, remote, shared, troubled>>
         /\ \/ conf.max > transfers /\ UNCHANGED <<session, transfers, moved>>
            \/ session' = NoSession /\ transfers' = 0 /\ moved' = 0
<1>1. /\ u \in Sending /\ Sending' = Sending \ {u} /\ Threads' = Threads
      /\ thread'[u].pc = "idle"
      /\ \A v \in Threads : v # u => thread'[v] = thread[v]
      /\ UNCHANGED <<conf, homedir, dirs, remote, shared, troubled>>
  BY SendingRows DEF Finally, At, Leave, Idle, Sending, Threads, server
<1>2. \/ conf.max > transfers /\ UNCHANGED <<session, transfers, moved>>
      \/ session' = NoSession /\ transfers' = 0 /\ moved' = 0
  <2>1. conf.max \in Nat /\ transfers \in Nat
    BY ConfFacts DEF TypeInv, SessionTypes
  <2> QED
    BY <2>1 DEF Finally, Drop
<1> QED
  BY <1>1, <1>2

LEMMA NextAloneInv == TypeInv /\ AloneInv /\ [Next]_vars => AloneInv'
<1> SUFFICES ASSUME TypeInv, AloneInv, [Next]_vars PROVE AloneInv'
  OBVIOUS
<1> USE DEF AloneInv, Alone
<1>1. ASSUME NEW u \in Threads, NEW f \in Files, Begin(u, f) PROVE AloneInv'
  <2>1. CASE Sending = {}
    BY ZenonT(40), <1>1, <2>1, BeginMoves, SendingRows
  <2>2. CASE Sending # {}
    <3>1. shared' = shared \cup {f} \cup {thread[v].file : v \in Sending}
      BY <1>1, <2>2 DEF Begin
    <3>2. \A v \in Sending' : thread'[v].file \in shared'
      BY <1>1, <3>1, BeginMoves, SendingRows
    <3>3. \A v \in Threads' : thread'[v].pc # "idle" => v \in Sending'
      BY DEF Sending
    <3> QED
      BY <3>2, <3>3
  <2> QED
    BY <2>1, <2>2
<1>2. ASSUME NEW u \in Threads, Inner(u) PROVE AloneInv'
  <2>1. \A v \in Threads : (thread'[v].pc # "idle") => thread[v].pc # "idle"
    BY <1>2, InnerStands, SendFrame, SendingRows DEF Inner, Send, Sending
  <2> QED
    BY <1>2, <2>1, InnerStands, SendFrame DEF Inner, Send
<1>3. ASSUME NEW u \in Threads, Finally(u) PROVE AloneInv'
  <2> SUFFICES ASSUME NEW v \in Threads, thread'[v].pc # "idle", thread'[v].file \notin shared'
               PROVE  Sending' = {v}
    BY <1>3, FinallyMoves
  <2>1. v # u /\ thread'[v] = thread[v] /\ shared' = shared
    BY <1>3, FinallyMoves
  <2>2. Sending = {v}
    BY <2>1
  <2> QED
    BY <1>3, <2>1, <2>2, FinallyMoves
<1>4. CASE ServerDrops \/ UNCHANGED vars
  BY <1>4, DropFrame
<1> QED
  BY <1>1, <1>2, <1>3, <1>4, NextCases

(* While a send is alone every step is one of its own, or the server's.    *)
LEMMA AloneSteps ==
  ASSUME TypeInv, AloneInv, [Next]_vars, NEW u \in Threads', Alone(u)'
  PROVE  /\ u \in Threads
         /\ \/ \E f \in Files : Begin(u, f) /\ Sending = {}
            \/ Alone(u) /\ Inner(u)
            \/ Alone(u) /\ (ServerDrops \/ UNCHANGED vars)
<1>1. AloneInv'
  BY NextAloneInv
<1>2. Sending' = {u}
  BY <1>1 DEF AloneInv
<1>3. ASSUME NEW v \in Threads, NEW f \in Files, Begin(v, f) PROVE v = u /\ Sending = {}
  BY <1>2, <1>3, BeginMoves
<1>4. ASSUME NEW v \in Threads, Inner(v) PROVE v = u /\ Alone(u)
  <2>1. v = u /\ u \in Sending /\ shared' = shared /\ thread'[u].file = thread[u].file
    BY <1>2, <1>4, InnerStands
  <2> QED
    BY <2>1, SendingRows DEF Alone
<1>5. ASSUME NEW v \in Threads, Finally(v) PROVE FALSE
  <2>1. u # v /\ u \in Threads /\ Alone(u) /\ {u, v} \subseteq Sending
    BY <1>2, <1>5, FinallyMoves, SendingRows DEF Alone
  <2> QED
    BY <2>1 DEF AloneInv
<1>6. ASSUME ServerDrops \/ UNCHANGED vars PROVE u \in Threads /\ Alone(u)
  BY <1>6, DropFrame DEF Alone
<1> QED
  BY <1>3, <1>4, <1>5, <1>6, NextCases

(* What the steps of a send do to the session.                             *)
LEMMA SessionMoves ==
  ASSUME TypeInv, NEW u \in Threads, Inner(u)
  PROVE  \/ /\ Connect(u) /\ session'.cwd = Home /\ moved' = 0 /\ UNCHANGED transfers
            /\ session' # NoSession => ~Dead' /\ thread'[u].pc = "home"
         \/ /\ ChangeDirectory(u) /\ ~Dead /\ UNCHANGED <<transfers, moved>>
            /\ Resolve(thread[u].dir) \in dirs
            /\ session' = [session EXCEPT !.cwd = Resolve(thread[u].dir)]
         \/ Disconnect(u) /\ session' = NoSession /\ moved' = 0 /\ UNCHANGED transfers
         \/ /\ session' = session /\ ~Connect(u) /\ ~Disconnect(u)
            /\ \/ UNCHANGED <<transfers, moved>>
               \/ CountTransfer(u) /\ transfers' = transfers + 1 /\ moved' = moved + 1
               \/ ForgetTransfers(u) /\ transfers' = 0 /\ UNCHANGED moved
<1>1. CASE Connect(u)
  <2>1. NewId # 0 /\ thread[u].pc = "connect"
    BY <1>1, NewIdIsNew DEF Connect, At
  <2>2. CASE session' = [id |-> NewId, alive |-> TRUE, cwd |-> Home] /\ Goto(u, "home")
    <3>1. ~Dead' /\ session'.cwd = Home
      BY <2>1, <2>2 DEF Dead
    <3> QED
      BY <1>1, <2>2, <3>1, GotoRow DEF Connect
  <2>3. CASE session' = NoSession
    BY <1>1, <2>3 DEF Connect, NoSession
  <2> QED
    BY <1>1, <2>2, <2>3 DEF Connect
<1>2. CASE ChangeDirectory(u)
  <2>1. ~Connect(u) /\ ~Disconnect(u)
    BY <1>2 DEF ChangeDirectory, Connect, Disconnect, At
  <2> QED
    BY <1>2, <2>1 DEF ChangeDirectory, history
<1>3. CASE Disconnect(u)
  BY <1>3 DEF Disconnect, Drop
<1>4. CASE CountTransfer(u) \/ ForgetTransfers(u)
  BY <1>4 DEF CountTransfer, ForgetTransfers, Connect, Disconnect, At, history
<1>5. CASE \/ CheckConnected(u) \/ GetHome(u) \/ PrepareDirectory(u) \/ MakeDirectory(u)
           \/ StartTransfer(u) \/ EndTransfer(u) \/ Rename(u)
  BY <1>5 DEF CheckConnected, GetHome, PrepareDirectory, MakeDirectory, StartTransfer,
              EndTransfer, Rename, Connect, Disconnect, At, history
<1> QED
  BY <1>1, <1>2, <1>3, <1>4, <1>5 DEF Inner

LEMMA ConcatNothing == \A p \in Paths : p \o <<>> = p
BY ConcatEmptySeq DEF Paths

LEMMA NextHomeKnown ==
  ASSUME TypeInv, SessionInv, [Next]_vars, ~Dead'
  PROVE  homedir' = conf'.home \/ \E u \in Threads' : thread'[u].pc = "home"
<1>1. ASSUME ~Dead, UNCHANGED <<homedir, conf>>, Threads' = Threads,
             \A u \in Threads : thread[u].pc = "home" => thread'[u].pc = "home"
      PROVE  homedir' = conf'.home \/ \E u \in Threads' : thread'[u].pc = "home"
  BY <1>1 DEF SessionInv
<1>2. ASSUME NEW u \in Threads, Inner(u)
      PROVE  homedir' = conf'.home \/ \E v \in Threads' : thread'[v].pc = "home"
  <2>1. /\ conf' = conf /\ Threads' = Threads
        /\ \A v \in Threads : v # u => thread'[v] = thread[v]
    BY <1>2, SendFrame DEF Inner, Send
  <2>2. CASE Connect(u)
    <3>1. session' # NoSession
      BY DEF NoSession, Dead
    <3> QED
      BY <1>2, <2>1, <2>2, <3>1, SessionMoves DEF Connect, ChangeDirectory, Disconnect, At
  <2>3. CASE GetHome(u)
    <3>1. ~Dead
      BY <2>3 DEF GetHome, Dead
    <3>2. homedir' = conf.home
      BY <2>3, <3>1, ConfFacts DEF GetHome
    <3> QED
      BY <2>1, <3>2
  <2>4. CASE ~Connect(u) /\ ~GetHome(u)
    <3>1. ~Dead
      <4>1. session' # NoSession
        BY DEF NoSession, Dead
      <4> QED
        BY <1>2, <2>4, <4>1, SessionMoves DEF Dead
    <3>2. homedir' = homedir /\ thread[u].pc # "home"
      BY <1>2, <2>4 DEF Inner, CheckConnected, PrepareDirectory, MakeDirectory, ChangeDirectory,
        StartTransfer, EndTransfer, Rename, CountTransfer, Disconnect, ForgetTransfers, At
    <3> QED
      BY <1>1, <2>1, <3>1, <3>2
  <2> QED
    BY <2>2, <2>3, <2>4
<1>3. ASSUME NEW u \in Threads, NEW f \in Files, Begin(u, f)
      PROVE  homedir' = conf'.home \/ \E v \in Threads' : thread'[v].pc = "home"
  BY <1>1, <1>3, BeginMoves DEF Begin, At, Dead
<1>4. ASSUME NEW u \in Threads, Finally(u)
      PROVE  homedir' = conf'.home \/ \E v \in Threads' : thread'[v].pc = "home"
  <2>1. thread[u].pc # "home"
    BY <1>4 DEF Finally, At
  <2>2. ~Dead
    BY <1>4, FinallyMoves DEF NoSession, Dead
  <2> QED
    BY <1>1, <1>4, <2>1, <2>2, FinallyMoves
<1>5. CASE ServerDrops \/ UNCHANGED vars
  <2>1. ~Dead
    <3>1. session' # [session EXCEPT !.alive = FALSE]
      BY DEF Dead, TypeInv, SessionTypes, Sessions
    <3> QED
      BY <1>5, <3>1, DropFrame DEF Dead
  <2> QED
    BY <1>1, <1>5, <2>1, DropFrame
<1> QED
  BY <1>2, <1>3, <1>4, <1>5, NextCases

LEMMA NextSessionInv == TypeInv /\ DirectoryInv /\ SessionInv /\ [Next]_vars => SessionInv'
<1> SUFFICES ASSUME TypeInv, DirectoryInv, SessionInv, [Next]_vars PROVE SessionInv'
  OBVIOUS
<1>1. /\ {Root, Home, session.cwd} \subseteq dirs
      /\ Sending = {} /\ session.id # 0 => transfers < conf.max
      /\ (\A f \in Files : Bare(f)) => session.cwd = Home
  BY DEF SessionInv
<1> DEFINE Rest == /\ {Root, Home, session.cwd} \subseteq dirs
                   /\ Sending = {} /\ session.id # 0 => transfers < conf.max
                   /\ (\A f \in Files : Bare(f)) => session.cwd = Home
<1>2. SUFFICES Rest'
  BY NextHomeKnown DEF SessionInv
<1>3. NoSession.cwd = Home /\ NoSession.id = 0
  BY DEF NoSession
<1>4. ASSUME NEW u \in Threads, Inner(u) PROVE Rest'
  <2>1. /\ conf' = conf /\ dirs \subseteq dirs' /\ Sending' # {}
    BY <1>4, SendFrame, InnerStands DEF Inner, Send
  <2>2. (\A f \in Files : Bare(f))' <=> \A f \in Files : Bare(f)
    BY <2>1 DEF Bare
  <2>3. CASE /\ ChangeDirectory(u) /\ Resolve(thread[u].dir) \in dirs
             /\ session' = [session EXCEPT !.cwd = Resolve(thread[u].dir)]
    <3>1. Resolve(thread[u].dir) \in dirs
      BY <2>3
    <3>2. session'.cwd = Resolve(thread[u].dir)
      BY <2>3 DEF TypeInv, SessionTypes, Sessions
    <3>3. ASSUME \A f \in Files : Bare(f) PROVE Resolve(thread[u].dir) = session.cwd
      <4>1. thread[u].file \in Files /\ thread[u].pc = "chdir"
        BY <1>4, <2>3, SendingRows DEF ChangeDirectory, At
      <4>2. thread[u].dir = conf.dir[thread[u].file] /\ Bare(thread[u].file)
        BY <3>3, <4>1 DEF DirectoryInv, Bare, Prepared
      <4> QED
        BY <4>2, ConcatNothing DEF Bare, Resolve, TypeInv, SessionTypes, Sessions
    <3> QED
      BY <1>1, <2>1, <2>2, <3>1, <3>2, <3>3
  <2>4. CASE session' = session \/ session'.cwd = Home
    BY <1>1, <2>1, <2>2, <2>4
  <2> QED
    BY <1>3, <1>4, <2>3, <2>4, SessionMoves
<1>5. ASSUME NEW u \in Threads, NEW f \in Files, Begin(u, f) PROVE Rest'
  BY <1>1, <1>5, BeginMoves DEF Bare
<1>6. ASSUME NEW u \in Threads, Finally(u) PROVE Rest'
  BY <1>1, <1>3, <1>6, FinallyMoves DEF Bare
<1>7. CASE ServerDrops \/ UNCHANGED vars
  <2>1. session'.cwd = session.cwd /\ session'.id = session.id
    BY <1>7, DropFrame DEF TypeInv, SessionTypes, Sessions
  <2> QED
    BY <1>1, <1>7, <2>1, DropFrame DEF Bare
<1> QED
  BY <1>4, <1>5, <1>6, <1>7, NextCases

LEMMA PrepareRow ==
  ASSUME TypeInv, NEW u \in Threads, PrepareDirectory(u)
  PROVE  /\ thread[u].pc = "dirs" /\ thread[u].file \in Files
         /\ thread'[u].dir = Directory(u) /\ thread'[u].pc = Lookup(Directory(u))
         /\ thread'[u].file = thread[u].file
         /\ UNCHANGED <<conf, session, homedir, transfers, server, result, troubled, history>>
<1> DEFINE d == Directory(u)
           p == Lookup(d)
<1>1. /\ thread[u].pc = "dirs" /\ thread[u].file \in Files
      /\ thread' = [thread EXCEPT ![u].dir = d, ![u].pc = p]
      /\ UNCHANGED <<conf, session, homedir, transfers, server, result, troubled, history>>
  BY SendingRows DEF PrepareDirectory, At
<1>2. thread \in [Threads -> ThreadRows]
  BY SendingRows
<1> HIDE DEF d, p
<1>3. thread'[u].dir = d /\ thread'[u].pc = p /\ thread'[u].file = thread[u].file
  BY <1>1, <1>2 DEF ThreadRows
<1> QED
  BY <1>1, <1>3 DEF d, p

(* Where a step leads when it is no failure.                               *)
LEMMA InnerGoes ==
  ASSUME TypeInv, NEW u \in Threads, Inner(u)
  PROVE  /\ CheckConnected(u) => thread'[u].pc \in {"connect", "dirs"}
         /\ Connect(u) => thread'[u].pc \in {"home", "except"}
         /\ GetHome(u) => thread'[u].pc = "dirs"
         /\ MakeDirectory(u) => /\ thread[u].pc = "mkdir" /\ thread'[u].dir = thread[u].dir
                                /\ thread'[u].pc \in {"chdir", "except"}
         /\ ChangeDirectory(u) => thread'[u].pc \in {"put", "except"}
         /\ StartTransfer(u) => thread'[u].pc \in {"transfer", "except"}
         /\ EndTransfer(u) => thread'[u].pc \in {"rename", "count", "except"}
         /\ Rename(u) => thread'[u].pc \in {"count", "except"}
         /\ CountTransfer(u) => thread'[u].pc = "finally"
         /\ Disconnect(u) => thread'[u].pc = "reset"
         /\ ForgetTransfers(u) => thread'[u].pc = "raise"
<1>1. CheckConnected(u) => thread'[u].pc \in {"connect", "dirs"}
  BY GotoRow DEF CheckConnected
<1>2. Connect(u) => thread'[u].pc \in {"home", "except"}
  BY GotoRow DEF Connect
<1>3. GetHome(u) => thread'[u].pc = "dirs"
  BY GotoRow DEF GetHome
<1>4. MakeDirectory(u) => /\ thread[u].pc = "mkdir" /\ thread'[u].dir = thread[u].dir
                          /\ thread'[u].pc \in {"chdir", "except"}
  BY GotoRow DEF MakeDirectory, At
<1>5. ChangeDirectory(u) => thread'[u].pc \in {"put", "except"}
  BY GotoRow DEF ChangeDirectory
<1>6. StartTransfer(u) => thread'[u].pc \in {"transfer", "except"}
  <2>1. ASSUME thread' = [thread EXCEPT ![u].pc = "transfer", ![u].id = session.id,
                                        ![u].dir.path = session.cwd]
        PROVE  thread'[u].pc = "transfer"
    BY <2>1, SendingRows DEF ThreadRows
  <2>2. Goto(u, "except") => thread'[u].pc = "except"
    BY GotoRow
  <2> QED
    BY <2>1, <2>2 DEF StartTransfer
<1>7. EndTransfer(u) => thread'[u].pc \in {"rename", "count", "except"}
  <2>1. ASSUME EndTransfer(u)
        PROVE  \E p \in {"rename", "count", "except"} :
                 thread' = [thread EXCEPT ![u].id = 0, ![u].pc = p]
    BY <2>1 DEF EndTransfer
  <2>2. ASSUME NEW p, thread' = [thread EXCEPT ![u].id = 0, ![u].pc = p]
        PROVE  thread'[u].pc = p
    BY <2>2, SendingRows DEF ThreadRows
  <2> QED
    BY <2>1, <2>2
<1>8. Rename(u) => thread'[u].pc \in {"count", "except"}
  BY GotoRow DEF Rename
<1>9. /\ CountTransfer(u) => thread'[u].pc = "finally"
      /\ Disconnect(u) => thread'[u].pc = "reset"
      /\ ForgetTransfers(u) => thread'[u].pc = "raise"
  BY GotoRow DEF CountTransfer, Disconnect, ForgetTransfers
<1> QED
  BY <1>1, <1>2, <1>3, <1>4, <1>5, <1>6, <1>7, <1>8, <1>9

LEMMA NextDirectoryInv == TypeInv /\ DirectoryInv /\ [Next]_vars => DirectoryInv'
<1> SUFFICES ASSUME TypeInv, DirectoryInv, [Next]_vars PROVE DirectoryInv'
  OBVIOUS
<1> DEFINE Set(v) == LET d == conf.dir[thread[v].file] IN
             /\ thread[v].pc \in Prepared =>
                  \/ thread[v].dir = d
                  \/ /\ conf.max > 0 /\ ~d.abs /\ d.path # <<>>
                     /\ thread[v].dir = [abs |-> TRUE, path |-> Home \o d.path]
             /\ thread[v].pc = "mkdir" => thread[v].dir.path # <<>>
<1>1. \A v \in Threads : Set(v)
  BY DEF DirectoryInv
<1>2. SUFFICES \A v \in Threads' : Set(v)'
  BY DEF DirectoryInv
<1>3. ASSUME NEW v \in Threads, thread'[v] = thread[v], conf' = conf PROVE Set(v)'
  BY <1>1, <1>3
<1>4. ASSUME NEW v, thread'[v].pc \notin Prepared PROVE Set(v)'
  BY <1>4 DEF Prepared
<1> HIDE DEF Set
<1>5. ASSUME NEW u \in Threads, Inner(u) PROVE \A v \in Threads' : Set(v)'
  <2>1. /\ conf' = conf /\ Threads' = Threads /\ thread'[u].file = thread[u].file
        /\ \A v \in Threads : v # u => thread'[v] = thread[v]
    BY <1>5, SendFrame, InnerStands DEF Inner, Send
  <2>2. CASE PrepareDirectory(u)
    <3>1. /\ thread'[u].pc = "mkdir" => Directory(u).path # <<>>
          /\ \/ Directory(u) = conf.dir[thread[u].file]
             \/ /\ conf.max > 0 /\ ~conf.dir[thread[u].file].abs
                /\ conf.dir[thread[u].file].path # <<>>
                /\ Directory(u) = [abs |-> TRUE, path |-> Home \o conf.dir[thread[u].file].path]
      BY <2>2, PrepareRow DEF Directory, Lookup
    <3>2. Set(u)'
      BY <2>1, <2>2, <3>1, PrepareRow DEF Set
    <3> QED
      BY <1>3, <2>1, <3>2
  <2>3. CASE MakeDirectory(u)
    <3>1. Set(u) /\ thread[u].pc = "mkdir" /\ thread'[u].dir = thread[u].dir
          /\ thread'[u].pc \in {"chdir", "except"}
      BY <1>1, <1>5, <2>3, InnerGoes
    <3>2. Set(u)'
      BY <2>1, <3>1 DEF Set, Prepared
    <3> QED
      BY <1>3, <2>1, <3>2
  <2>4. CASE ~PrepareDirectory(u) /\ ~MakeDirectory(u)
    <3>1. thread'[u].pc \notin Prepared
      BY <1>5, <2>4, InnerGoes DEF Inner, Prepared
    <3> QED
      BY <1>3, <1>4, <2>1, <3>1
  <2> QED
    BY <2>2, <2>3, <2>4
<1>6. ASSUME NEW u \in Threads, NEW f \in Files, Begin(u, f) PROVE \A v \in Threads' : Set(v)'
  BY <1>3, <1>4, <1>6, BeginMoves DEF Prepared
<1>7. ASSUME NEW u \in Threads, Finally(u) PROVE \A v \in Threads' : Set(v)'
  BY <1>3, <1>4, <1>7, FinallyMoves DEF Prepared
<1>8. CASE ServerDrops \/ UNCHANGED vars
  BY <1>3, <1>8, DropFrame
<1> QED
  BY <1>5, <1>6, <1>7, <1>8, NextCases

(* Nobody else takes the session away or leads it elsewhere. *)
LEMMA NextLiveInv ==
  TypeInv /\ AloneInv /\ SessionInv /\ LiveInv /\ [Next]_vars => LiveInv'
<1> SUFFICES ASSUME TypeInv, AloneInv, SessionInv, LiveInv, [Next]_vars,
                    NEW u \in Threads', Alone(u)'
             PROVE  Lives(u)'
  BY DEF LiveInv
<1> USE DEF Connected, Prepared
<1>1. u \in Threads
  BY AloneSteps
<1>2. ASSUME NEW f \in Files, Begin(u, f), Sending = {} PROVE Lives(u)'
  <2>1. conf.max = 0 => session.id = 0
    <3>1. session.id # 0 => transfers < conf.max
      BY <1>2 DEF SessionInv
    <3>2. transfers \in Nat
      BY DEF TypeInv, SessionTypes
    <3> QED
      BY <3>1, <3>2
  <2> QED
    BY <1>1, <1>2, <2>1, BeginMoves DEF Lives, Dead
<1>3. ASSUME Alone(u), Inner(u) PROVE Lives(u)'
  <2>1. /\ Lives(u) /\ conf' = conf /\ troubled \subseteq troubled'
        /\ thread'[u].file = thread[u].file
    BY <1>1, <1>3, SendFrame, InnerStands DEF LiveInv, Inner, Send
  <2>2. CASE CheckConnected(u)
    <3>1. /\ thread[u].pc = "check" /\ session' = session
          /\ thread'[u].pc = IF Dead THEN "connect" ELSE "dirs"
      BY <1>1, <2>2, GotoRow DEF CheckConnected, At
    <3> QED
      BY <2>1, <3>1 DEF Lives, Dead
  <2>3. CASE Connect(u)
    <3>1. thread'[u].pc \in {"home", "except"} /\ session'.cwd = Home
      BY <1>1, <1>3, <2>3, InnerGoes DEF Connect, NoSession
    <3>2. thread'[u].pc = "home" => ~Dead'
      <4>1. NewId # 0
        BY NewIdIsNew
      <4>2. CASE session' = [id |-> NewId, alive |-> TRUE, cwd |-> Home]
        BY <4>1, <4>2 DEF Dead
      <4>3. CASE Goto(u, "except")
        BY <1>1, <4>3, GotoRow
      <4> QED
        BY <2>3, <4>2, <4>3 DEF Connect
    <3> QED
      BY <3>1, <3>2 DEF Lives
  <2>4. CASE GetHome(u)
    <3>1. thread[u].pc = "home" /\ session' = session /\ thread'[u].pc = "dirs"
      BY <1>1, <1>3, <2>4, InnerGoes DEF GetHome, At
    <3> QED
      BY <2>1, <3>1 DEF Lives, Dead
  <2>5. CASE PrepareDirectory(u)
    <3>1. thread[u].pc = "dirs" /\ session' = session /\ thread'[u].pc \in Prepared \cup {"except"}
      BY <1>1, <2>5, PrepareRow DEF Lookup
    <3> QED
      BY <2>1, <3>1 DEF Lives, Dead
  <2>6. CASE MakeDirectory(u)
    <3>1. /\ thread[u].pc = "mkdir" /\ session' = session
          /\ thread'[u].pc \in {"chdir", "except"}
      BY <1>1, <1>3, <2>6, InnerGoes DEF MakeDirectory
    <3> QED
      BY <2>1, <3>1 DEF Lives, Dead
  <2>7. CASE ChangeDirectory(u)
    <3>1. thread'[u].pc = "put" => ~Dead
      BY <1>1, <2>7, GotoRow DEF ChangeDirectory
    <3>2. session'.id = session.id /\ session'.alive = session.alive
      BY <2>7 DEF ChangeDirectory, TypeInv, SessionTypes, Sessions
    <3>3. thread'[u].pc \in {"put", "except"}
      BY <1>1, <1>3, <2>7, InnerGoes
    <3> QED
      BY <3>1, <3>2, <3>3 DEF Lives, Dead
  <2>8. CASE StartTransfer(u)
    <3>1. CASE Dead
      <4>1. thread'[u].pc = "except"
        BY <1>1, <2>8, <3>1, GotoRow DEF StartTransfer
      <4> QED
        BY <4>1 DEF Lives
    <3>2. CASE ~Dead
      <4>1. /\ thread'[u].pc = "transfer" /\ thread'[u].id = session.id
            /\ thread'[u].dir.path = session.cwd /\ session' = session
        <5>1. thread' = [thread EXCEPT ![u].pc = "transfer", ![u].id = session.id,
                                       ![u].dir.path = session.cwd]
          BY <2>8, <3>2 DEF StartTransfer
        <5> QED
          BY <1>1, <2>8, <5>1, SendingRows DEF StartTransfer, ThreadRows
      <4> QED
        BY <3>2, <4>1 DEF Lives, Dead
    <3> QED
      BY <3>1, <3>2
  <2>9. CASE EndTransfer(u)
    <3>1. /\ thread[u].pc = "transfer" /\ session' = session
          /\ thread'[u].pc \in {"rename", "count", "except"}
      BY <1>1, <1>3, <2>9, InnerGoes DEF EndTransfer, At
    <3>2. thread'[u].dir = thread[u].dir
      <4>1. PICK p : thread' = [thread EXCEPT ![u].id = 0, ![u].pc = p]
        BY <2>9 DEF EndTransfer
      <4> QED
        BY <1>1, <4>1, SendingRows DEF ThreadRows
    <3> QED
      BY <2>1, <3>1, <3>2 DEF Lives, Dead
  <2>10. CASE Rename(u) \/ CountTransfer(u) \/ Disconnect(u) \/ ForgetTransfers(u)
    <3>1. thread'[u].pc \in {"count", "finally", "except", "reset", "raise"}
      BY <1>1, <1>3, <2>10, InnerGoes
    <3> QED
      BY <3>1 DEF Lives
  <2> QED
    BY <1>3, <2>2, <2>3, <2>4, <2>5, <2>6, <2>7, <2>8, <2>9, <2>10 DEF Inner
<1>4. ASSUME Alone(u), ServerDrops PROVE Lives(u)'
  <2>1. thread[u].file \in troubled'
    BY <1>1, <1>4, SendingRows DEF ServerDrops, Alone
  <2>2. /\ ~Dead /\ Dead' /\ session'.cwd = session.cwd /\ session'.id = session.id
        /\ thread' = thread /\ conf' = conf
    BY <1>4 DEF ServerDrops, Dead, TypeInv, SessionTypes, Sessions
  <2>3. Lives(u)
    BY <1>1, <1>4 DEF LiveInv
  <2> QED
    BY <2>1, <2>2, <2>3 DEF Lives
<1>5. ASSUME Alone(u), UNCHANGED vars PROVE Lives(u)'
  BY <1>1, <1>5 DEF LiveInv, Lives, vars, Dead
<1> QED
  BY <1>2, <1>3, <1>4, <1>5, AloneSteps

(* Without a change of options the promise about a file stays the same, and *)
(* so do its excuses.                                                      *)
LEMMA PromiseStays ==
  ASSUME NEW f, conf' = conf, troubled \subseteq troubled'
  PROVE  /\ Destination(f)' = Destination(f) /\ (Guided(f)' <=> Guided(f))
         /\ Excused(f) => Excused(f)'
         /\ f \in troubled' => Excused(f)'
BY DEF Destination, Guided, Excused, Homeless, Adrift, Bare

(* The preparation finds the directory of the publication, or has a reason *)
(* to fail.                                                                *)
LEMMA PrepareGoes ==
  ASSUME TypeInv, AloneInv, SessionInv, NEW u \in Threads, Alone(u), Lives(u),
         thread[u].pc = "dirs", thread[u].file \in Files
  PROVE  LET d == Directory(u)
             f == thread[u].file
         IN /\ Lookup(d) = "mkdir" /\ ~Dead => Resolve(d) \notin dirs
            /\ Lookup(d) = "chdir" /\ ~Dead /\ conf.create => Resolve(d) \in dirs
            /\ Lookup(d) = "except" => Excused(f)
            /\ Guided(f) /\ ~Dead => Resolve(d) = Destination(f)
<1> DEFINE d == Directory(u)
           f == thread[u].file
           c == conf.dir[f]
<1>1. /\ conf.max \in Nat /\ conf.home \in BOOLEAN /\ homedir \in BOOLEAN
      /\ c \in [abs : BOOLEAN, path : Paths] /\ session.cwd \in Paths
  BY ConfFacts DEF TypeInv, SessionTypes, Sessions
<1>2. /\ d = IF c.path # <<>> /\ ~c.abs /\ homedir /\ conf.max > 0
             THEN [abs |-> TRUE, path |-> Home \o c.path] ELSE c
      /\ Destination(f) = IF c.abs THEN c.path ELSE Home \o c.path
  BY DEF Directory, Destination
<1>3. ~Dead => homedir = conf.home
  <2>1. Sending = {u}
    BY DEF AloneInv
  <2>2. \A v \in Threads : thread[v].pc # "home"
    BY <2>1, SendingRows
  <2> QED
    BY <2>2 DEF SessionInv
<1>4. Dead => f \in troubled
  BY DEF Lives, Connected
<1>5. {Root, session.cwd} \subseteq dirs
  BY DEF SessionInv
<1>6. conf.max = 0 => session.cwd = Home
  BY DEF Lives
<1> HIDE DEF c, d, f
<1>7. Lookup(d) = "mkdir" /\ ~Dead => Resolve(d) \notin dirs
  BY DEF Lookup
<1>8. Lookup(d) = "chdir" /\ ~Dead /\ conf.create => Resolve(d) \in dirs
  <2>1. CASE d.path = <<>>
    <3>1. Resolve(d) = Root \/ Resolve(d) = session.cwd
      BY <1>1, <2>1, ConcatNothing DEF Resolve, Root
    <3> QED
      BY <1>5, <3>1
  <2>2. CASE d.path # <<>>
    BY <2>2 DEF Lookup
  <2> QED
    BY <2>1, <2>2
<1>9. Lookup(d) = "except" => Excused(f)
  <2>1. ASSUME Lookup(d) = "except" PROVE d.path # <<>> /\ ~d.abs /\ conf.max > 0
    BY <2>1 DEF Lookup
  <2>2. ASSUME Lookup(d) = "except", ~Dead PROVE Homeless
    BY <1>1, <1>2, <1>3, <2>1, <2>2 DEF Homeless
  <2> QED
    BY <1>4, <2>2 DEF Excused
<1>10. ASSUME Guided(f), ~Dead PROVE Resolve(d) = Destination(f)
  <2>1. CASE c.abs
    BY <1>2, <2>1 DEF Resolve
  <2>2. CASE ~c.abs /\ c.path = <<>>
    <3>1. session.cwd = Home
      <4>1. CASE conf.max = 0
        BY <1>6, <4>1
      <4>2. CASE conf.max # 0
        <5>1. conf.max > 0 /\ Bare(f)
          BY <1>1, <2>2, <4>2 DEF Bare, c
        <5>2. \A g \in Files : Bare(g)
          BY <1>10, <5>1 DEF Guided, Adrift
        <5> QED
          BY <5>2 DEF SessionInv
      <4> QED
        BY <4>1, <4>2
    <3> QED
      BY <1>2, <2>2, <3>1 DEF Resolve
  <2>3. CASE ~c.abs /\ c.path # <<>>
    <3>1. CASE conf.max = 0
      BY <1>2, <1>6, <2>3, <3>1 DEF Resolve
    <3>2. CASE conf.max # 0
      <4>1. homedir /\ conf.max > 0
        BY <1>1, <1>3, <1>10, <3>2 DEF Guided, Homeless
      <4>2. d = [abs |-> TRUE, path |-> Home \o c.path]
        BY <1>2, <2>3, <4>1
      <4>3. d.abs /\ d.path = Home \o c.path
        BY <4>2
      <4> QED
        BY <1>2, <2>3, <4>3 DEF Resolve
    <3> QED
      BY <3>1, <3>2
  <2> QED
    BY <2>1, <2>2, <2>3
<1> QED
  BY <1>7, <1>8, <1>9, <1>10 DEF d, f

LEMMA MakeGoes ==
  ASSUME TypeInv, DirectoryInv, NEW u \in Threads, MakeDirectory(u), thread'[u].pc # "except"
  PROVE  ~Dead /\ Resolve(thread[u].dir) \in dirs'
<1> DEFINE p == Resolve(thread[u].dir)
<1>1. ~Dead /\ dirs' = dirs \cup Prefixes(p)
  BY GotoRow DEF MakeDirectory
<1>2. p \in Prefixes(p)
  <2>1. /\ thread[u].dir.path \in Paths /\ session.cwd \in Paths /\ thread[u].dir.path # <<>>
    BY DEF MakeDirectory, At, DirectoryInv, TypeInv, ThreadTypes, Threads, SessionTypes, Sessions
  <2>2. p \in Paths /\ Len(p) \in Nat \ {0}
    <3>1. Len(thread[u].dir.path) \in Nat \ {0} /\ Len(session.cwd) \in Nat
      BY <2>1, EmptySeq DEF Paths
    <3>2. /\ session.cwd \o thread[u].dir.path \in Paths
          /\ Len(session.cwd \o thread[u].dir.path) = Len(session.cwd) + Len(thread[u].dir.path)
      BY <2>1, ConcatProperties DEF Paths
    <3>3. p = thread[u].dir.path \/ p = session.cwd \o thread[u].dir.path
      BY DEF Resolve
    <3> HIDE DEF p
    <3>4. CASE p = thread[u].dir.path
      BY <2>1, <3>1, <3>4
    <3>5. CASE p = session.cwd \o thread[u].dir.path
      <4>1. \A m \in Nat, n \in Nat \ {0} : m + n \in Nat \ {0}
        OBVIOUS
      <4>2. Len(p) \in Nat \ {0}
        BY <3>1, <3>2, <3>5, <4>1, Zenon
      <4> QED
        BY <3>2, <3>5, <4>2
    <3> QED
      BY <3>3, <3>4, <3>5
  <2>3. p = SubSeq(p, 1, Len(p)) /\ Len(p) \in 1..Len(p)
    BY <2>2 DEF Paths
  <2> QED
    BY <2>3 DEF Prefixes
<1> QED
  BY <1>1, <1>2

(* The file that a transfer or a renaming has completed is where the       *)
(* transfer began.                                                         *)
LEMMA CompletedThere ==
  ASSUME TypeInv, NEW u \in Threads, Inner(u), Uploads(u),
         EndTransfer(u) \/ Rename(u), thread'[u].pc = "count"
  PROVE  \E r \in Arrived(thread[u].file)' : r.dir = thread[u].dir.path
<1>1. CASE Rename(u)
  <2>1. Entry(u, FALSE, TRUE) \in Mine(u)' /\ thread'[u].file = thread[u].file
    BY <1>1, RenameUploads
  <2>2. /\ Entry(u, FALSE, TRUE).whole /\ ~Entry(u, FALSE, TRUE).temp
        /\ Entry(u, FALSE, TRUE).dir = thread[u].dir.path
    BY DEF Entry, NewEntry
  <2> QED
    BY <2>1, <2>2 DEF Mine, Arrived
<1>2. CASE EndTransfer(u)
  <2>1. /\ thread'[u].pc = IF conf.tmp THEN "rename" ELSE "count"
        /\ Mine(u)' = {Entry(u, conf.tmp, TRUE)} /\ thread'[u].file = thread[u].file
    BY <1>2, EndUploads, InnerStands
  <2>2. ~conf.tmp
    BY <2>1
  <2>3. /\ Entry(u, conf.tmp, TRUE).whole /\ ~Entry(u, conf.tmp, TRUE).temp
        /\ Entry(u, conf.tmp, TRUE).dir = thread[u].dir.path
    BY <2>2, ConfFacts DEF Entry, NewEntry
  <2> QED
    BY <2>1, <2>3 DEF Mine, Arrived
<1> QED
  BY <1>1, <1>2

(* Alone, the rename finds what the transfer left. *)
LEMMA RenameFinds ==
  ASSUME TypeInv, NEW u \in Threads, Uploads(u), Lives(u), Rename(u), thread'[u].pc = "except"
  PROVE  thread[u].file \in troubled
<1>1. thread[u].pc = "rename" /\ Mine(u) = {Entry(u, TRUE, TRUE)} /\ session.cwd = thread[u].dir.path
  BY DEF Rename, At, Uploads, Lives
<1>2. Entry(u, TRUE, TRUE) \in FileAt(session.cwd, thread[u].file, TRUE)
  BY <1>1 DEF FileAt, Mine, Entry, NewEntry
<1>3. Dead
  BY <1>2, SendingRows DEF Rename, Goto, ThreadRows
<1> QED
  BY <1>1, <1>3 DEF Lives, Connected

LEMMA InnerKeepsPlace ==
  ASSUME TypeInv, AloneInv, SessionInv, DirectoryInv, NEW u \in Threads, Alone(u), Inner(u),
         Uploads(u), Lives(u), NEW f \in Files, f = thread[u].file, Goes(u, f)
  PROVE  Goes(u, f)'
<1> USE DEF Prepared
<1>1. /\ conf' = conf /\ troubled \subseteq troubled' /\ dirs \subseteq dirs'
      /\ thread'[u].file = f
  BY SendFrame, InnerStands DEF Inner, Send
<1>2. /\ Destination(f)' = Destination(f) /\ (Guided(f)' <=> Guided(f))
      /\ Excused(f) => Excused(f)'
      /\ f \in troubled' => Excused(f)'
  BY <1>1, PromiseStays
<1>3. thread[u].pc \in Connected /\ Dead => Excused(f)'
  BY <1>1, <1>2 DEF Lives
<1>4. ASSUME thread'[u].pc \in {"except", "reset", "raise"}, Excused(f)' PROVE Goes(u, f)'
  BY <1>4 DEF Goes, Reaches
<1>5. CASE CheckConnected(u) \/ GetHome(u)
  <2>1. thread'[u].pc \in {"connect", "dirs"}
    BY <1>5, InnerGoes
  <2> QED
    BY <2>1 DEF Goes, Reaches
<1>6. CASE Connect(u)
  <2>1. thread'[u].pc \in {"home", "except"}
    BY <1>6, InnerGoes
  <2>2. thread'[u].pc = "except" => f \in troubled'
    BY <1>6, GotoRow DEF Connect, Blames
  <2> QED
    BY <1>2, <2>1, <2>2 DEF Goes, Reaches
<1>7. CASE PrepareDirectory(u)
  <2>1. /\ thread[u].pc = "dirs" /\ thread'[u].pc = Lookup(Directory(u))
        /\ thread'[u].dir = Directory(u) /\ UNCHANGED <<session, dirs>>
    BY <1>7, PrepareRow DEF server
  <2>2. thread'[u].pc \in {"mkdir", "chdir", "except"}
    BY <2>1 DEF Lookup
  <2>3. Resolve(thread[u].dir)' = Resolve(Directory(u)) /\ (Dead' <=> Dead)
    BY <2>1 DEF Resolve, Dead
  <2>4. /\ Lookup(Directory(u)) = "mkdir" /\ ~Dead => Resolve(Directory(u)) \notin dirs
        /\ Lookup(Directory(u)) = "chdir" /\ ~Dead /\ conf.create => Resolve(Directory(u)) \in dirs
        /\ Lookup(Directory(u)) = "except" => Excused(f)
        /\ Guided(f) /\ ~Dead => Resolve(Directory(u)) = Destination(f)
    BY <2>1, PrepareGoes
  <2> QED
    BY <1>1, <1>2, <2>1, <2>2, <2>3, <2>4 DEF Goes, Reaches
<1>8. CASE MakeDirectory(u)
  <2>1. /\ thread[u].pc = "mkdir" /\ thread'[u].dir = thread[u].dir
        /\ thread'[u].pc \in {"chdir", "except"} /\ session' = session
    BY <1>8, InnerGoes DEF MakeDirectory
  <2>2. thread'[u].pc = "except" => Excused(f)'
    <3>1. ASSUME thread'[u].pc = "except" PROVE Dead \/ Resolve(thread[u].dir) \in dirs
      BY <1>8, <3>1, GotoRow DEF MakeDirectory
    <3> QED
      BY <1>3, <2>1, <3>1 DEF Goes, Connected
  <2>3. thread'[u].pc = "chdir" => ~Dead /\ Resolve(thread[u].dir) \in dirs'
    BY <1>8, MakeGoes
  <2>4. Resolve(thread[u].dir)' = Resolve(thread[u].dir) /\ (Dead' <=> Dead)
    BY <2>1 DEF Resolve, Dead
  <2> QED
    BY <1>2, <2>1, <2>2, <2>3, <2>4 DEF Goes, Reaches
<1>9. CASE ChangeDirectory(u)
  <2>1. thread[u].pc = "chdir" /\ thread'[u].pc \in {"put", "except"}
    BY <1>9, InnerGoes DEF ChangeDirectory, At
  <2>2. thread'[u].pc = "except" => Excused(f)'
    <3>1. ASSUME thread'[u].pc = "except" PROVE Dead \/ Resolve(thread[u].dir) \notin dirs
      BY <1>9, <3>1, GotoRow DEF ChangeDirectory
    <3>2. ASSUME thread'[u].pc = "except", ~Dead PROVE ~conf.create
      BY <2>1, <3>1, <3>2 DEF Goes
    <3> QED
      BY <1>2, <1>3, <2>1, <3>2 DEF Connected, Excused
  <2>3. ASSUME thread'[u].pc = "put" PROVE ~Dead /\ session'.cwd = Resolve(thread[u].dir)
    <3>1. ~Dead /\ session' = [session EXCEPT !.cwd = Resolve(thread[u].dir)]
      BY <1>9, <2>3, GotoRow DEF ChangeDirectory
    <3> QED
      BY <3>1 DEF TypeInv, SessionTypes, Sessions
  <2> QED
    BY <1>2, <2>1, <2>2, <2>3 DEF Goes, Reaches
<1>10. CASE StartTransfer(u)
  <2>1. thread[u].pc = "put" /\ thread'[u].pc \in {"transfer", "except"}
    BY <1>10, InnerGoes DEF StartTransfer, At
  <2>2. CASE Dead
    <3>1. thread'[u].pc = "except"
      BY <1>10, <2>2, GotoRow DEF StartTransfer
    <3> QED
      BY <1>3, <1>4, <2>1, <2>2, <3>1 DEF Connected
  <2>3. CASE ~Dead
    <3>1. thread'[u].pc = "transfer" /\ thread'[u].dir.path = session.cwd
      BY <1>10, <2>3, StartUploads
    <3> QED
      BY <1>2, <2>1, <2>3, <3>1 DEF Goes, Reaches
  <2> QED
    BY <2>2, <2>3
<1>11. CASE EndTransfer(u)
  <2>1. thread[u].pc = "transfer" /\ thread'[u].pc \in {"rename", "count", "except"}
    BY <1>11, InnerGoes DEF EndTransfer, At
  <2>2. thread'[u].pc = "except" => f \in troubled'
    <3>1. session.id = thread[u].id
      BY <2>1 DEF Lives
    <3>2. troubled' = troubled \cup {f} \/ \E p \in {"rename", "count"} :
                                           thread' = [thread EXCEPT ![u].id = 0, ![u].pc = p]
      BY <1>11, <3>1 DEF EndTransfer
    <3>3. ASSUME NEW p, thread' = [thread EXCEPT ![u].id = 0, ![u].pc = p] PROVE thread'[u].pc = p
      BY <3>3, SendingRows DEF ThreadRows
    <3> QED
      BY <3>2, <3>3
  <2>3. thread'[u].dir = thread[u].dir
    <3>1. PICK p : thread' = [thread EXCEPT ![u].id = 0, ![u].pc = p]
      BY <1>11 DEF EndTransfer
    <3> QED
      BY <3>1, SendingRows DEF ThreadRows
  <2>4. thread'[u].pc = "count" => \E r \in Arrived(f)' : r.dir = thread[u].dir.path
    BY <1>1, <1>11, CompletedThere DEF Arrived
  <2> QED
    BY <1>2, <2>1, <2>2, <2>3, <2>4 DEF Goes, Reaches
<1>12. CASE Rename(u)
  <2>1. thread[u].pc = "rename" /\ thread'[u].pc \in {"count", "except"}
    BY <1>12, InnerGoes DEF Rename, At
  <2>2. thread'[u].pc = "except" => f \in troubled'
    BY <1>1, <1>12, RenameFinds
  <2>3. thread'[u].pc = "count" => \E r \in Arrived(f)' : r.dir = thread[u].dir.path
    BY <1>1, <1>12, CompletedThere DEF Arrived
  <2> QED
    BY <1>2, <2>1, <2>2, <2>3 DEF Goes, Reaches
<1>13. CASE CountTransfer(u)
  <2>1. thread[u].pc = "count" /\ thread'[u].pc = "finally" /\ Arrived(f)' = Arrived(f)
    BY <1>13, OtherStepsGo DEF Arrived
  <2> QED
    BY <1>2, <2>1 DEF Goes, Reaches
<1>14. CASE Disconnect(u) \/ ForgetTransfers(u)
  <2>1. thread[u].pc \in {"except", "reset"} /\ thread'[u].pc \in {"reset", "raise"}
    BY <1>14, OtherStepsGo
  <2>2. Excused(f)'
    BY <1>2, <2>1 DEF Goes
  <2> QED
    BY <1>4, <2>1, <2>2
<1> QED
  BY <1>5, <1>6, <1>7, <1>8, <1>9, <1>10, <1>11, <1>12, <1>13, <1>14 DEF Inner

LEMMA NextPlaceInv ==
  /\ TypeInv /\ AloneInv /\ SessionInv /\ DirectoryInv /\ UploadInv /\ LiveInv /\ PlaceInv
  /\ [Next]_vars
  => PlaceInv'
<1> SUFFICES ASSUME TypeInv, AloneInv, SessionInv, DirectoryInv, UploadInv, LiveInv, PlaceInv,
                    [Next]_vars, NEW u \in Threads', Alone(u)'
             PROVE  Goes(u, thread[u].file)'
  BY DEF PlaceInv
<1> USE DEF Prepared
<1> DEFINE f == thread[u].file
<1>1. u \in Threads
  BY AloneSteps
<1>2. ASSUME NEW g \in Files, Begin(u, g), Sending = {} PROVE Goes(u, f)'
  BY <1>1, <1>2, BeginMoves DEF Goes, Reaches
<1>3. ASSUME Alone(u), Inner(u) PROVE Goes(u, f)'
  <2>1. /\ Goes(u, f) /\ Lives(u) /\ Uploads(u) /\ f \in Files /\ thread'[u].file = f
    BY <1>1, <1>3, InnerStands, SendingRows DEF LiveInv, PlaceInv, UploadInv
  <2>2. PICK g \in Files : g = f
    BY <2>1
  <2>3. Goes(u, g)'
    BY <1>1, <1>3, <2>1, <2>2, InnerKeepsPlace
  <2> QED
    BY <2>1, <2>2, <2>3
<1>4. ASSUME Alone(u), ServerDrops PROVE Goes(u, f)'
  <2>1. /\ Dead' /\ Goes(u, f) /\ thread' = thread /\ conf' = conf /\ troubled \subseteq troubled'
        /\ UNCHANGED <<remote, dirs>>
    BY <1>1, <1>4 DEF ServerDrops, Dead, PlaceInv, server, TypeInv, SessionTypes, Sessions
  <2> QED
    BY <2>1 DEF Goes, Reaches, Excused, Guided, Homeless, Adrift, Bare, Destination, Arrived
<1>5. ASSUME Alone(u), UNCHANGED vars PROVE Goes(u, f)'
  BY <1>1, <1>5 DEF PlaceInv, Goes, Reaches, vars, server, Dead, Resolve, Excused, Guided, Homeless,
                    Adrift, Bare, Destination, Arrived
<1> QED
  BY <1>2, <1>3, <1>4, <1>5, AloneSteps

LEMMA NextUnshared ==
  ASSUME TypeInv, OwnInv, PlaceInv, UnsharedSendIsTrue, [Next]_vars
  PROVE  UnsharedSendIsTrue'
<1>1. conf' = conf /\ shared \subseteq shared' /\ troubled \subseteq troubled'
  BY NextCases, SendFrame, DropFrame DEF Inner, Send, ServerDrops, vars
<1> SUFFICES ASSUME NEW f \in Files, f \notin shared'
             PROVE  /\ result'[f] = "returned" /\ ~Homeless' /\ ~Adrift(f)'
                         => \E r \in Arrived(f)' : r.dir = Destination(f)'
                    /\ result'[f] = "raised" /\ f \notin troubled' => ~conf'.create \/ Homeless'
  BY DEF UnsharedSendIsTrue
<1>2. /\ Destination(f)' = Destination(f) /\ (Homeless' <=> Homeless)
      /\ (Adrift(f)' <=> Adrift(f)) /\ f \notin shared
  BY <1>1 DEF Destination, Homeless, Adrift, Bare
<1>3. CASE result'[f] = result[f]
  <2>1. /\ result[f] = "returned" /\ ~Homeless /\ ~Adrift(f)
             => \E r \in Arrived(f) : r.dir = Destination(f)
        /\ result[f] = "raised" /\ f \notin troubled => ~conf.create \/ Homeless
    BY <1>2 DEF UnsharedSendIsTrue
  <2>2. result[f] = "returned" => \A r \in Arrived(f) : r \in Arrived(f)'
    BY ArrivedStays
  <2> QED
    BY <1>1, <1>2, <1>3, <2>1, <2>2
<1>4. CASE result'[f] # result[f] /\ result'[f] \in {"returned", "raised"}
  <2>1. PICK u \in Threads :
           /\ Finally(u) /\ thread[u].file = f
           /\ thread[u].pc = IF result'[f] = "returned" THEN "finally" ELSE "raise"
    BY <1>4, EndOfSend
  <2>2. Goes(u, f)
    BY <1>2, <2>1 DEF PlaceInv, Alone
  <2>3. Arrived(f)' = Arrived(f)
    BY <2>1, FinallyMoves DEF Arrived
  <2> QED
    BY <1>1, <1>2, <2>1, <2>2, <2>3 DEF Goes, Reaches, Guided, Excused
<1> QED
  BY <1>3, <1>4

----------------------------------------------------------------------------
(* What a session that is kept may still carry *)

LEMMA NextCountInv == TypeInv /\ AloneInv /\ CountInv /\ [Next]_vars => CountInv'
<1> SUFFICES ASSUME TypeInv, AloneInv, CountInv, [Next]_vars, shared' = {}
             PROVE  /\ moved' <= transfers'
                    /\ \A v \in Threads' : thread'[v].pc = "reset" => moved' = 0
  BY DEF CountInv
<1>1. shared = {}
  BY NextCases, SendFrame, DropFrame DEF Inner, Send
<1>2. /\ moved <= transfers /\ moved \in Nat /\ transfers \in Nat
      /\ \A v \in Threads : thread[v].pc = "reset" => moved = 0
  BY <1>1 DEF CountInv, TypeInv, SessionTypes
<1>3. ASSUME NEW u \in Threads, Inner(u)
      PROVE  /\ moved' <= transfers'
             /\ \A v \in Threads' : thread'[v].pc = "reset" => moved' = 0
  <2>1. /\ Threads' = Threads
        /\ \A v \in Threads : v # u => thread'[v] = thread[v]
    BY <1>3, SendFrame DEF Inner, Send
  <2>2. thread'[u].pc = "reset" => Disconnect(u)
    <3>1. PrepareDirectory(u) => thread'[u].pc # "reset"
      BY PrepareRow DEF Lookup
    <3> QED
      BY <1>3, <3>1, InnerGoes DEF Inner
  <2>3. CASE CountTransfer(u)
    <3>1. transfers' = transfers + 1 /\ moved' = moved + 1 /\ thread'[u].pc = "finally"
      BY <1>3, <2>3, InnerGoes DEF CountTransfer
    <3>2. Sending = {u}
      BY <1>1, <1>3, InnerStands, SendingRows DEF AloneInv, Alone
    <3>3. \A v \in Threads : v # u => thread[v].pc = "idle"
      BY <3>2, SendingRows
    <3> QED
      BY <1>2, <2>1, <3>1, <3>3
  <2>4. CASE ForgetTransfers(u)
    <3>1. thread[u].pc = "reset" /\ transfers' = 0 /\ moved' = moved
      BY <2>4 DEF ForgetTransfers, At, history
    <3> QED
      BY <1>2, <3>1
  <2>5. CASE moved' = 0 /\ UNCHANGED transfers
    BY <1>2, <2>5
  <2>6. CASE UNCHANGED <<transfers, moved>> /\ ~Disconnect(u)
    BY <1>2, <2>1, <2>2, <2>6
  <2>7. ChangeDirectory(u) => ~Disconnect(u)
    BY DEF ChangeDirectory, Disconnect, At
  <2> QED
    BY <1>3, <2>3, <2>4, <2>5, <2>6, <2>7, SessionMoves
<1>4. ASSUME NEW u \in Threads, NEW f \in Files, Begin(u, f)
      PROVE  /\ moved' <= transfers'
             /\ \A v \in Threads' : thread'[v].pc = "reset" => moved' = 0
  BY <1>2, <1>4, BeginMoves
<1>5. ASSUME NEW u \in Threads, Finally(u)
      PROVE  /\ moved' <= transfers'
             /\ \A v \in Threads' : thread'[v].pc = "reset" => moved' = 0
  BY <1>2, <1>5, FinallyMoves
<1>6. CASE ServerDrops \/ UNCHANGED vars
  BY <1>2, <1>6, DropFrame
<1> QED
  BY <1>3, <1>4, <1>5, <1>6, NextCases

----------------------------------------------------------------------------
IInv == /\ TypeInv /\ OwnInv /\ UploadInv /\ ReturnedMeansArrived
        /\ SessionInv /\ DirectoryInv /\ AloneInv /\ LiveInv /\ PlaceInv
        /\ UnsharedSendIsTrue /\ CountInv

LEMMA InitIInv == Init => IInv
<1> SUFFICES ASSUME Init PROVE IInv
  OBVIOUS
<1>1. TypeInv
  BY InitTypeInv
<1>2. /\ conf \in Configurations /\ session = NoSession /\ transfers = 0 /\ moved = 0
      /\ dirs = Nested \cup {Home, Root} /\ remote = {}
      /\ \A u \in Threads : thread[u].pc = "idle"
      /\ \A f \in Files : result[f] = "none"
  BY DEF Init, Threads, Idle
<1>3. Sending = {} /\ session.cwd = Home /\ session.id = 0
  BY <1>2 DEF Sending, NoSession
<1>4. OwnInv /\ AloneInv /\ DirectoryInv
  BY <1>2, <1>3 DEF OwnInv, AloneInv, DirectoryInv, Alone, Prepared
<1>5. UploadInv
  <2>1. \A u \in Threads : Uploads(u)
    BY <1>2 DEF Uploads, Before
  <2> QED
    BY <2>1 DEF UploadInv
<1>6. LiveInv /\ PlaceInv /\ CountInv
  BY <1>2 DEF LiveInv, PlaceInv, CountInv, Alone
<1>7. ReturnedMeansArrived /\ UnsharedSendIsTrue
  BY <1>2 DEF ReturnedMeansArrived, UnsharedSendIsTrue
<1>8. SessionInv
  BY <1>2, <1>3 DEF SessionInv, Dead
<1> QED
  BY <1>1, <1>4, <1>5, <1>6, <1>7, <1>8 DEF IInv

LEMMA NextIInv == IInv /\ [Next]_vars => IInv'
BY NextTypeInv, NextOwnInv, NextUploadInv, NextReturned, NextSessionInv, NextDirectoryInv,
   NextAloneInv, NextLiveInv, NextPlaceInv, NextUnshared, NextCountInv
DEF IInv

(* A send that returned has left the whole file under its final name,      *)
(* however many threads share the session and whenever it is lost.         *)
THEOREM WhatReturnedArrived == Spec => []ReturnedMeansArrived
<1>1. IInv => ReturnedMeansArrived
  BY DEF IInv
<1> QED
  BY InitIInv, NextIInv, <1>1, PTL DEF Spec

(* A send that shared the session with no other one put the file into the  *)
(* directory of the publication, or had a reason to raise.                 *)
THEOREM AloneSendIsTrue == Spec => []UnsharedSendIsTrue
<1>1. IInv => UnsharedSendIsTrue
  BY DEF IInv
<1> QED
  BY InitIInv, NextIInv, <1>1, PTL DEF Spec

(* A session that is kept has carried no more than the counter says, and   *)
(* may carry another file.                                                 *)
THEOREM KeptSessionIsWithinLimit == Spec => []SessionWithinLimit
<1>1. IInv => SessionWithinLimit
  BY DEF IInv, CountInv, SessionInv, SessionWithinLimit
<1> QED
  BY InitIInv, NextIInv, <1>1, PTL DEF Spec

----------------------------------------------------------------------------
(* A parallel_connection_sender, whose send the consumers of a publisher   *)
(* call: ParallelSender, for every number of callers and items and every   *)
(* queue_size.                                                             *)

LineFates ==
  {"new", "held", "queued", "sending", "raised", "full", "ignored", "sent", "failed"}

LineTypes ==
  /\ queue \in Seq(Items)
  /\ caller \in [Callers -> Items \cup {NoItem}]
  /\ witem \in Items \cup {NoItem} /\ (witem # NoItem <=> wpc = "send")
  /\ fate \in [Items -> LineFates]

(* Where each item is, and that it is nowhere else. *)
Within(s, i) == \E a \in 1..Len(s) : s[a] = i
Once(s) == \A a, b \in 1..Len(s) : s[a] = s[b] => a = b
LinePlaces ==
  /\ Once(queue)
  /\ \A p, q \in Callers : caller[p] = caller[q] /\ caller[p] # NoItem => p = q
  /\ \A i \in Items : fate[i] = "queued" <=> Within(queue, i)
  /\ \A i \in Items : fate[i] = "held" <=> \E p \in Callers : caller[p] = i
  /\ \A i \in Items : fate[i] = "sending" <=> witem = i

LineStop == shut <=> lpc \in {"join", "down"}

LineInv == LineTypes /\ LinePlaces /\ LineStop

LEMMA AppendPlaces ==
  ASSUME NEW s \in Seq(Items), NEW x \in Items
  PROVE  /\ Len(Append(s, x)) = Len(s) + 1
         /\ Append(s, x)[Len(s) + 1] = x
         /\ \A a \in 1..Len(s) : Append(s, x)[a] = s[a]
OBVIOUS

LEMMA TailPlaces ==
  ASSUME NEW s \in Seq(Items), s # <<>>
  PROVE  /\ Len(s) \in Nat /\ Len(s) >= 1
         /\ Head(s) = s[1]
         /\ Len(Tail(s)) = Len(s) - 1
         /\ \A a \in 1..(Len(s) - 1) : Tail(s)[a] = s[a + 1]
OBVIOUS

LEMMA AppendWithin ==
  ASSUME NEW s \in Seq(Items), NEW x \in Items, Once(s), ~Within(s, x)
  PROVE  /\ Append(s, x) \in Seq(Items) /\ Once(Append(s, x))
         /\ \A i : Within(Append(s, x), i) <=> Within(s, i) \/ i = x
<1> DEFINE t == Append(s, x)
<1>1. /\ t \in Seq(Items) /\ Len(s) \in Nat /\ Len(t) = Len(s) + 1 /\ t[Len(s) + 1] = x
      /\ \A a \in 1..Len(s) : t[a] = s[a]
  BY AppendPlaces
<1> HIDE DEF t
<1>2. ASSUME NEW a \in 1..Len(t) PROVE a \in 1..Len(s) \/ a = Len(s) + 1
  BY <1>1
<1>3. \A a \in 1..Len(s) : s[a] # x
  BY DEF Within
<1>4. Once(t)
  BY <1>1, <1>2, <1>3 DEF Once
<1>5. Len(s) + 1 \in 1..Len(t) /\ \A a \in 1..Len(s) : a \in 1..Len(t)
  BY <1>1
<1>6. \A i : Within(t, i) <=> Within(s, i) \/ i = x
  BY <1>1, <1>2, <1>5 DEF Within
<1> QED
  BY <1>1, <1>4, <1>6 DEF t

LEMMA TailWithin ==
  ASSUME NEW s \in Seq(Items), s # <<>>, Once(s)
  PROVE  /\ Tail(s) \in Seq(Items) /\ Head(s) \in Items /\ Within(s, Head(s)) /\ Once(Tail(s))
         /\ \A i : Within(Tail(s), i) <=> Within(s, i) /\ i # Head(s)
<1> DEFINE t == Tail(s)  x == Head(s)
<1>1. /\ t \in Seq(Items) /\ x \in Items /\ Len(s) \in Nat /\ Len(s) >= 1 /\ x = s[1]
      /\ Len(t) = Len(s) - 1 /\ \A a \in 1..Len(t) : t[a] = s[a + 1]
  BY TailPlaces
<1> HIDE DEF t, x
<1>2. \A a \in 1..Len(t) : a + 1 \in 1..Len(s) /\ a + 1 # 1
  BY <1>1
<1>3. \A a \in 1..Len(s) : a = 1 \/ (a - 1 \in 1..Len(t) /\ t[a - 1] = s[a])
  BY <1>1
<1>4. 1 \in 1..Len(s)
  BY <1>1
<1>5. Once(t)
  BY <1>1, <1>2 DEF Once
<1>6. ASSUME NEW i PROVE Within(t, i) <=> Within(s, i) /\ i # x
  <2>1. ASSUME NEW a \in 1..Len(t), t[a] = i PROVE Within(s, i) /\ i # x
    BY <1>1, <1>2, <1>4, <2>1 DEF Within, Once
  <2>2. ASSUME NEW a \in 1..Len(s), s[a] = i, i # x PROVE Within(t, i)
    BY <1>1, <1>3, <2>2 DEF Within
  <2> QED
    BY <2>1, <2>2 DEF Within
<1> QED
  BY <1>1, <1>4, <1>5, <1>6 DEF Within, t, x

(* What a step does to the items. *)
LEMMA LineBegin ==
  ASSUME LineInv, NEW p \in Callers, NEW i \in Items, CopyFile(p, i)
  PROVE  LineInv' /\ fate[i] = "new"
<1>1. /\ caller[p] = NoItem /\ fate[i] = "new"
      /\ caller' = [caller EXCEPT ![p] = i]
      /\ fate' = [fate EXCEPT ![i] = "held"]
      /\ UNCHANGED <<queue, shut, wpc, witem, lpc>>
  BY DEF CopyFile, queueVars, workerVars, stopVars
<1>2. LineTypes' /\ LineStop'
  BY <1>1 DEF LineInv, LineTypes, LineFates, LineStop
<1>3. \A q \in Callers : caller[q] # i
  BY <1>1 DEF LineInv, LinePlaces
<1>4. /\ \A q \in Callers : caller'[q] = IF q = p THEN i ELSE caller[q]
      /\ \A j \in Items : fate'[j] = IF j = i THEN "held" ELSE fate[j]
  BY <1>1 DEF LineInv, LineTypes
<1>5. \A q, r \in Callers : caller'[q] = caller'[r] /\ caller'[q] # NoItem => q = r
  BY <1>3, <1>4 DEF LineInv, LinePlaces
<1>6. \A j \in Items : fate'[j] = "held" <=> \E q \in Callers : caller'[q] = j
  <2> TAKE j \in Items
  <2>1. CASE j = i
    BY <1>4, <2>1
  <2>2. CASE j # i
    <3>1. (\E q \in Callers : caller'[q] = j) <=> \E q \in Callers : caller[q] = j
      BY <1>1, <1>4, <2>2, ParallelSenderAssumption
    <3> QED
      BY <1>4, <2>2, <3>1 DEF LineInv, LinePlaces
  <2> QED
    BY <2>1, <2>2
<1>7. \A j \in Items : /\ fate'[j] = "queued" <=> Within(queue, j)
                       /\ fate'[j] = "sending" <=> witem = j
  BY <1>1, <1>4 DEF LineInv, LinePlaces
<1>8. LinePlaces'
  BY <1>1, <1>5, <1>6, <1>7 DEF LinePlaces, LineInv, Within, Once
<1> QED
  BY <1>1, <1>2, <1>8 DEF LineInv

(* send of item x is over, and the item is not in the line. *)
LEMMA LineRejects ==
  ASSUME LineInv, NEW p \in Callers, NEW x \in Items, caller[p] = x,
         caller' = [caller EXCEPT ![p] = NoItem],
         NEW f \in {"raised", "full", "ignored"}, fate' = [fate EXCEPT ![x] = f],
         UNCHANGED <<queue, shut, wpc, witem, lpc>>
  PROVE  LineInv' /\ fate[x] = "held"
<1>1. fate[x] = "held" /\ f \in LineFates /\ f \notin {"held", "queued", "sending"}
  BY DEF LineInv, LinePlaces, LineFates
<1>2. LineTypes' /\ LineStop'
  BY <1>1 DEF LineInv, LineTypes, LineStop
<1>3. /\ \A q \in Callers : caller'[q] = IF q = p THEN NoItem ELSE caller[q]
      /\ \A j \in Items : fate'[j] = IF j = x THEN f ELSE fate[j]
  BY DEF LineInv, LineTypes
<1>4. \A q, r \in Callers : caller'[q] = caller'[r] /\ caller'[q] # NoItem => q = r
  BY <1>3 DEF LineInv, LinePlaces
<1>5. \A j \in Items : fate'[j] = "held" <=> \E q \in Callers : caller'[q] = j
  <2> TAKE j \in Items
  <2>1. CASE j = x
    <3>1. \A q \in Callers : caller'[q] # j
      BY <1>3, <2>1, ParallelSenderAssumption DEF LineInv, LinePlaces
    <3> QED
      BY <1>1, <1>3, <2>1, <3>1
  <2>2. CASE j # x
    <3>1. (\E q \in Callers : caller'[q] = j) <=> \E q \in Callers : caller[q] = j
      BY <1>3, <2>2, ParallelSenderAssumption
    <3> QED
      BY <1>3, <2>2, <3>1 DEF LineInv, LinePlaces
  <2> QED
    BY <2>1, <2>2
<1>6. \A j \in Items : /\ fate'[j] = "queued" <=> Within(queue, j)
                       /\ fate'[j] = "sending" <=> witem = j
  BY <1>1, <1>3 DEF LineInv, LinePlaces
<1>7. LinePlaces'
  BY <1>4, <1>5, <1>6 DEF LinePlaces, LineInv, Within, Once
<1> QED
  BY <1>1, <1>2, <1>7 DEF LineInv

LEMMA LinePuts ==
  ASSUME LineInv, NEW p \in Callers, NEW x \in Items, caller[p] = x,
         caller' = [caller EXCEPT ![p] = NoItem],
         queue' = Append(queue, x), fate' = [fate EXCEPT ![x] = "queued"],
         UNCHANGED <<shut, wpc, witem, lpc>>
  PROVE  LineInv' /\ fate[x] = "held"
<1>1. fate[x] = "held" /\ "queued" \in LineFates /\ ~Within(queue, x)
  BY DEF LineInv, LinePlaces, LineFates
<1>2. queue' \in Seq(Items) /\ Once(queue') /\ \A i : Within(queue', i) <=> Within(queue, i) \/ i = x
  BY <1>1, AppendWithin DEF LineInv, LineTypes, LinePlaces
<1>3. LineTypes' /\ LineStop'
  BY <1>1, <1>2 DEF LineInv, LineTypes, LineStop
<1>4. /\ \A q \in Callers : caller'[q] = IF q = p THEN NoItem ELSE caller[q]
      /\ \A j \in Items : fate'[j] = IF j = x THEN "queued" ELSE fate[j]
  BY DEF LineInv, LineTypes
<1>5. \A q, r \in Callers : caller'[q] = caller'[r] /\ caller'[q] # NoItem => q = r
  BY <1>4 DEF LineInv, LinePlaces
<1>6. \A j \in Items : fate'[j] = "held" <=> \E q \in Callers : caller'[q] = j
  <2> TAKE j \in Items
  <2>1. CASE j = x
    <3>1. \A q \in Callers : caller'[q] # j
      BY <1>4, <2>1, ParallelSenderAssumption DEF LineInv, LinePlaces
    <3> QED
      BY <1>4, <2>1, <3>1
  <2>2. CASE j # x
    <3>1. (\E q \in Callers : caller'[q] = j) <=> \E q \in Callers : caller[q] = j
      BY <1>4, <2>2, ParallelSenderAssumption
    <3> QED
      BY <1>4, <2>2, <3>1 DEF LineInv, LinePlaces
  <2> QED
    BY <2>1, <2>2
<1>7. \A j \in Items : /\ fate'[j] = "queued" <=> Within(queue', j)
                       /\ fate'[j] = "sending" <=> witem = j
  BY <1>1, <1>2, <1>4 DEF LineInv, LinePlaces
<1>8. LinePlaces'
  BY <1>2, <1>5, <1>6, <1>7 DEF LinePlaces, Within, Once
<1> QED
  BY <1>1, <1>3, <1>8 DEF LineInv

LEMMA LineTakes ==
  ASSUME LineInv, Take
  PROVE  LineInv' /\ queue # <<>> /\ Head(queue) \in Items /\ fate[Head(queue)] = "queued"
<1> DEFINE x == Head(queue)
<1>1. /\ wpc = "get" /\ wpc' = "send" /\ witem' = x /\ queue # <<>> /\ queue' = Tail(queue)
      /\ fate' = [fate EXCEPT ![x] = "sending"]
      /\ UNCHANGED <<shut, caller, lpc>>
  BY DEF Take, Q!Get, stopVars
<1>2. /\ queue' \in Seq(Items) /\ x \in Items /\ Within(queue, x) /\ Once(queue')
      /\ \A i : Within(queue', i) <=> Within(queue, i) /\ i # x
  BY <1>1, TailWithin DEF LineInv, LineTypes, LinePlaces
<1> HIDE DEF x
<1>3. fate[x] = "queued" /\ "sending" \in LineFates /\ witem = NoItem
  BY <1>1, <1>2 DEF LineInv, LinePlaces, LineTypes, LineFates
<1>4. LineTypes' /\ LineStop'
  <2>1. x # NoItem
    BY <1>2, ParallelSenderAssumption
  <2> QED
    BY <1>1, <1>2, <1>3, <2>1 DEF LineInv, LineTypes, LineStop
<1>5. \A j \in Items : fate'[j] = IF j = x THEN "sending" ELSE fate[j]
  BY <1>1 DEF LineInv, LineTypes
<1>6. \A j \in Items : /\ fate'[j] = "queued" <=> Within(queue', j)
                       /\ fate'[j] = "held" <=> \E q \in Callers : caller'[q] = j
                       /\ fate'[j] = "sending" <=> witem' = j
  BY <1>1, <1>2, <1>3, <1>5, ParallelSenderAssumption DEF LineInv, LinePlaces
<1>7. LinePlaces'
  BY <1>1, <1>2, <1>6 DEF LinePlaces, LineInv, Within, Once
<1> QED
  BY <1>1, <1>2, <1>3, <1>4, <1>7 DEF LineInv, x

LEMMA LineSends ==
  ASSUME LineInv, Forward
  PROVE  LineInv' /\ witem \in Items /\ fate[witem] = "sending"
<1>1. PICK f \in {"sent", "failed"} :
        /\ wpc = "send" /\ wpc' \in {"done", "test"} /\ witem' = NoItem
        /\ fate' = [fate EXCEPT ![witem] = f]
        /\ UNCHANGED <<queue, shut, caller, lpc>>
  BY DEF Forward, Outcomes, queueVars, stopVars
<1>2. witem \in Items /\ fate[witem] = "sending" /\ f \in LineFates
      /\ f \notin {"queued", "held", "sending"}
  BY <1>1 DEF LineInv, LineTypes, LinePlaces, LineFates
<1>3. LineTypes' /\ LineStop'
  BY <1>1, <1>2 DEF LineInv, LineTypes, LineStop
<1>4. \A j \in Items : fate'[j] = IF j = witem THEN f ELSE fate[j]
  BY <1>1 DEF LineInv, LineTypes
<1>5. \A j \in Items : /\ fate'[j] = "queued" <=> Within(queue, j)
                       /\ fate'[j] = "held" <=> \E q \in Callers : caller'[q] = j
                       /\ fate'[j] = "sending" <=> witem' = j
  BY <1>1, <1>2, <1>4, ParallelSenderAssumption DEF LineInv, LinePlaces
<1>6. LinePlaces'
  BY <1>1, <1>5 DEF LinePlaces, LineInv, Within, Once
<1> QED
  BY <1>2, <1>3, <1>6 DEF LineInv
(* Everything else leaves the items where they are. *)
LineStands == UNCHANGED <<queue, caller, witem, fate, copies>>

LEMMA LineOther ==
  ASSUME LineInv,
         \/ Test \/ Sleep \/ WakeUp \/ LeaveQueue
         \/ StopRunning \/ StopQueue \/ LineJoin \/ UNCHANGED lineVars
  PROVE  LineInv' /\ LineStands /\ (UNCHANGED shut \/ StopQueue)
<1> USE DEF LineStands, LineInv, LineStop
<1>1. LineStands => LinePlaces'
  BY DEF LinePlaces, Within, Once
<1>2. LineStands /\ wpc' = wpc => LineTypes'
  BY DEF LineTypes
<1>3. CASE Test
  <2>1. wpc = "test" /\ wpc' \in {"get", "done"} /\ LineStands /\ UNCHANGED <<shut, lpc>>
    BY <1>3 DEF Test, queueVars, stopVars
  <2> QED
    BY <1>1, <2>1 DEF LineTypes
<1>4. CASE Sleep \/ WakeUp
  BY <1>1, <1>2, <1>4 DEF Sleep, WakeUp, Q!Wait, Q!WaitTimesOut,
     workerVars, stopVars
<1>5. CASE LeaveQueue
  <2>1. wpc = "get" /\ wpc' \in {"test", "done"} /\ LineStands /\ UNCHANGED <<shut, lpc>>
    BY <1>5 DEF LeaveQueue, Q!GetShutdown, Q!queueVars, stopVars
  <2> QED
    BY <1>1, <2>1 DEF LineTypes
<1>6. CASE StopRunning
  BY <1>1, <1>2, <1>6 DEF StopRunning, queueVars, workerVars
<1>7. CASE StopQueue
  BY <1>1, <1>2, <1>7 DEF StopQueue, Q!Shutdown, workerVars
<1>8. CASE LineJoin
  BY <1>1, <1>2, <1>8 DEF LineJoin, queueVars, workerVars
<1>9. CASE UNCHANGED lineVars
  BY <1>1, <1>2, <1>9 DEF lineVars
<1> QED
  BY <1>3, <1>4, <1>5, <1>6, <1>7, <1>8, <1>9

(* send of an item ends: how, and what becomes of its copy. *)
LEMMA LineCallEnds ==
  ASSUME LineInv, NEW p \in Callers, CopyFails(p) \/ Enqueue(p)
  PROVE  LET x == caller[p]
         IN /\ LineInv' /\ x \in Items /\ fate[x] = "held" /\ UNCHANGED shut
            /\ \/ /\ ~shut /\ ~Q!Full /\ queue' = Append(queue, x)
                  /\ fate' = [fate EXCEPT ![x] = "queued"] /\ UNCHANGED copies
               \/ /\ UNCHANGED queue /\ copies' = copies \ {x}
                  /\ \E f \in {"raised", "full", "ignored"} :
                       fate' = [fate EXCEPT ![x] = f]
<1>1. PICK x : x = caller[p]
  OBVIOUS
<1>2. x \in Items /\ caller' = [caller EXCEPT ![p] = NoItem]
      /\ UNCHANGED <<shut, wpc, witem, lpc>>
  BY <1>1 DEF CopyFails, Enqueue, Q!Put, Q!PutFull, Q!PutIgnored,
     queueVars, workerVars, stopVars, LineInv, LineTypes
<1>3. \/ /\ ~shut /\ ~Q!Full /\ queue' = Append(queue, x)
         /\ fate' = [fate EXCEPT ![x] = "queued"] /\ UNCHANGED copies
      \/ /\ UNCHANGED queue /\ copies' = copies \ {x}
         /\ \E f \in {"raised", "full", "ignored"} :
              fate' = [fate EXCEPT ![x] = f]
  BY <1>1 DEF CopyFails, Enqueue, Q!Put, Q!PutFull, Q!PutIgnored,
     queueVars
<1>4. LineInv' /\ fate[x] = "held"
  BY <1>1, <1>2, <1>3, LinePuts, LineRejects
<1> QED
  BY <1>1, <1>2, <1>3, <1>4

LEMMA InitLine == LineInit => LineInv /\ CopyOpenWhileNeeded
<1> SUFFICES ASSUME LineInit PROVE LineInv /\ CopyOpenWhileNeeded
  OBVIOUS
<1>1. /\ queue = <<>> /\ shut = FALSE /\ lpc = "up" /\ wpc = "test" /\ witem = NoItem
      /\ copies = {} /\ caller = [p \in Callers |-> NoItem]
      /\ fate = [i \in Items |-> "new"]
  BY DEF LineInit, Q!InitQueue
<1>2. LineTypes /\ LineStop
  BY <1>1 DEF LineTypes, LineStop, LineFates
<1>3. LinePlaces
  BY <1>1, ParallelSenderAssumption DEF LinePlaces, Within, Once
<1>4. CopyOpenWhileNeeded
  BY <1>1 DEF CopyOpenWhileNeeded
<1> QED
  BY <1>2, <1>3, <1>4 DEF LineInv

LEMMA NextLine ==
  LineInv /\ CopyOpenWhileNeeded /\ [LineNext]_lineVars
    => LineInv' /\ CopyOpenWhileNeeded'
<1> SUFFICES ASSUME LineInv, CopyOpenWhileNeeded, [LineNext]_lineVars
             PROVE  LineInv' /\ CopyOpenWhileNeeded'
  OBVIOUS
<1> USE DEF CopyOpenWhileNeeded
<1>0. DOMAIN fate = Items
  BY DEF LineInv, LineTypes
<1>1. ASSUME NEW p \in Callers, NEW i \in Items, CopyFile(p, i)
      PROVE  LineInv' /\ CopyOpenWhileNeeded'
  <2>1. LineInv' /\ copies' = copies \cup {i} /\ fate' = [fate EXCEPT ![i] = "held"]
    BY <1>1, LineBegin DEF CopyFile
  <2> QED
    BY <1>0, <2>1
<1>2. ASSUME NEW p \in Callers, CopyFails(p) \/ Enqueue(p)
      PROVE  LineInv' /\ CopyOpenWhileNeeded'
  BY <1>0, <1>2, LineCallEnds
<1>3. CASE Take
  <2>1. /\ LineInv' /\ fate[Head(queue)] = "queued" /\ copies' = copies
        /\ fate' = [fate EXCEPT ![Head(queue)] = "sending"]
    BY <1>3, LineTakes DEF Take
  <2> QED
    BY <1>0, <2>1
<1>4. CASE Forward
  <2>1. LineInv' /\ copies' = copies \ {witem}
    BY <1>4, LineSends DEF Forward
  <2>2. PICK f \in {"sent", "failed"} : fate' = [fate EXCEPT ![witem] = f]
    BY <1>4 DEF Forward, Outcomes
  <2> QED
    BY <1>0, <2>1, <2>2
<1>5. CASE \/ Test \/ Sleep \/ WakeUp \/ LeaveQueue
           \/ StopRunning \/ StopQueue \/ LineJoin \/ UNCHANGED lineVars
  BY <1>5, LineOther DEF LineStands
<1> QED
  BY <1>1, <1>2, <1>3, <1>4, <1>5 DEF LineNext, LineCall, Consumer, Stop

LEMMA LineInvariance == LineSpec => [](LineInv /\ CopyOpenWhileNeeded)
BY InitLine, NextLine, PTL DEF LineSpec

(* However the consumers, the worker and stop() interleave, and whatever    *)
(* the senders raise: no copy stays on the disk, and none is closed that is *)
(* still to be sent.                                                        *)
THEOREM CopiesStayWhileNeeded == LineSpec => []CopyOpenWhileNeeded
BY LineInvariance, PTL

----------------------------------------------------------------------------
(* The line of one recipient implements the contract, safety part.          *)
LineMapped == [i \in Items |-> ContractState(i)]

LEMMA LineMappedItem ==
  ASSUME LineInv, NEW i \in Items
  PROVE  /\ fate[i] \in {"new", "held"} => LineMapped[i] = "new"
         /\ fate[i] = "queued" => LineMapped[i] = "waiting"
         /\ fate[i] = "sending" => LineMapped[i] = "busy"
BY DEF LineMapped, ContractState

LEMMA LineMappedStep ==
  ASSUME LineInv, NEW x \in Items, NEW f, fate' = [fate EXCEPT ![x] = f]
  PROVE  /\ f \in {"new", "held"} => LineMapped' = [LineMapped EXCEPT ![x] = "new"]
         /\ f \in {"raised", "full", "ignored"} => LineMapped' = [LineMapped EXCEPT ![x] = "rejected"]
         /\ f = "queued" => LineMapped' = [LineMapped EXCEPT ![x] = "waiting"]
         /\ f = "sending" => LineMapped' = [LineMapped EXCEPT ![x] = "busy"]
         /\ f \in {"sent", "failed"} => LineMapped' = [LineMapped EXCEPT ![x] = f]
<1>1. \A i \in Items : fate'[i] = IF i = x THEN f ELSE fate[i]
  BY DEF LineInv, LineTypes
<1>2. \A i \in Items : i # x => ContractState(i)' = ContractState(i)
  BY <1>1 DEF ContractState
<1>3. LineMapped' = [LineMapped EXCEPT ![x] = ContractState(x)']
  BY <1>2 DEF LineMapped
<1> QED
  BY <1>1, <1>3 DEF ContractState

LEMMA LineMappedStands ==
  ASSUME UNCHANGED <<queue, shut, fate>>
  PROVE  UNCHANGED Contract!vars
<1>1. UNCHANGED LineMapped
  BY DEF LineMapped, ContractState
<1> QED
  BY <1>1 DEF Contract!vars, LineMapped

LEMMA LineRefines ==
  LineInv /\ [LineNext]_lineVars
    => [Contract!Next]_(Contract!vars)
<1> SUFFICES ASSUME LineInv, [LineNext]_lineVars
             PROVE  Contract!Next \/ UNCHANGED Contract!vars
  OBVIOUS
<1>1. ASSUME NEW p \in Callers, NEW i \in Items, CopyFile(p, i)
      PROVE  UNCHANGED Contract!vars
  <2>1. /\ fate[i] = "new" /\ fate' = [fate EXCEPT ![i] = "held"]
        /\ UNCHANGED <<queue, shut>>
    BY <1>1, LineBegin DEF CopyFile, queueVars
  <2>2. LineMapped[i] = "new" /\ LineMapped' = [LineMapped EXCEPT ![i] = "new"]
    BY <2>1, LineMappedItem, LineMappedStep
  <2>3. UNCHANGED LineMapped
    BY <2>2 DEF LineMapped
  <2> QED
    BY <2>1, <2>3 DEF Contract!vars, LineMapped
<1>2. ASSUME NEW p \in Callers, CopyFails(p) \/ Enqueue(p)
      PROVE  Contract!Next
  <2>1. PICK x \in Items :
          /\ fate[x] = "held" /\ UNCHANGED shut
          /\ \/ /\ ~shut /\ ~Q!Full /\ queue' = Append(queue, x)
                /\ fate' = [fate EXCEPT ![x] = "queued"]
             \/ /\ UNCHANGED queue
                /\ \E f \in {"raised", "full", "ignored"} :
                     fate' = [fate EXCEPT ![x] = f]
    BY <1>2, LineCallEnds
  <2>2. LineMapped[x] = "new"
    BY <2>1, LineMappedItem
  <2>3. CASE /\ ~shut /\ ~Q!Full /\ queue' = Append(queue, x)
             /\ fate' = [fate EXCEPT ![x] = "queued"]
    <3>1. LineMapped' = [LineMapped EXCEPT ![x] = "waiting"]
      BY <2>3, LineMappedStep
    <3>2. QueueSize > 0 => Len(queue) < QueueSize
      <4>1. Len(queue) \in Nat /\ QueueSize \in Nat
        BY ParallelSenderAssumption DEF LineInv, LineTypes
      <4> QED
        BY <2>3, <4>1 DEF Q!Full
    <3>3. Contract!Accept(x)
      BY <2>1, <2>2, <2>3, <3>1, <3>2 DEF Contract!Accept, LineMapped
    <3> QED
      BY <3>3 DEF Contract!Next
  <2>4. ASSUME UNCHANGED queue, NEW f \in {"raised", "full", "ignored"},
               fate' = [fate EXCEPT ![x] = f]
        PROVE  Contract!Next
    <3>1. LineMapped' = [LineMapped EXCEPT ![x] = "rejected"]
      BY <2>4, LineMappedStep
    <3>2. Contract!Reject(x)
      BY <2>1, <2>2, <2>4, <3>1 DEF Contract!Reject, LineMapped
    <3> QED
      BY <3>2 DEF Contract!Next
  <2> QED
    BY <2>1, <2>3, <2>4
<1>3. ASSUME Take PROVE Contract!Next
  <2>1. /\ Head(queue) \in Items /\ ~shut /\ queue # <<>> /\ queue' = Tail(queue) /\ UNCHANGED shut
        /\ fate' = [fate EXCEPT ![Head(queue)] = "sending"]
    BY <1>3, LineTakes DEF Take, Q!Get
  <2>2. LineMapped' = [LineMapped EXCEPT ![Head(queue)] = "busy"]
    BY <2>1, LineMappedStep
  <2>3. Contract!Pick
    BY <2>1, <2>2 DEF Contract!Pick, LineMapped
  <2> QED
    BY <2>3 DEF Contract!Next
<1>4. ASSUME Forward PROVE Contract!Next
  <2>1. witem \in Items /\ fate[witem] = "sending" /\ UNCHANGED <<queue, shut>>
    BY <1>4, LineSends DEF Forward, queueVars
  <2>2. PICK f \in {"sent", "failed"} : fate' = [fate EXCEPT ![witem] = f]
    BY <1>4 DEF Forward, Outcomes
  <2>3. LineMapped[witem] = "busy" /\ LineMapped' = [LineMapped EXCEPT ![witem] = f]
    BY <2>1, <2>2, LineMappedItem, LineMappedStep
  <2>4. Contract!Settle(witem)
    BY <2>1, <2>3 DEF Contract!Settle, LineMapped
  <2> QED
    BY <2>1, <2>4 DEF Contract!Next
<1>5. ASSUME StopQueue PROVE Contract!Next
  <2>1. shut' = TRUE /\ ~shut /\ UNCHANGED <<queue, fate>>
    BY <1>5 DEF StopQueue, Q!Shutdown, LineInv, LineStop
  <2>2. UNCHANGED LineMapped
    BY <2>1 DEF LineMapped, ContractState
  <2>3. Contract!Close
    BY <2>1, <2>2 DEF Contract!Close, LineMapped
  <2> QED
    BY <2>3 DEF Contract!Next
<1>6. ASSUME \/ Test \/ Sleep \/ WakeUp \/ LeaveQueue
             \/ StopRunning \/ LineJoin \/ UNCHANGED lineVars, ~StopQueue
      PROVE  UNCHANGED Contract!vars
  BY <1>6, LineOther, LineMappedStands DEF LineStands
<1> QED
  BY <1>1, <1>2, <1>3, <1>4, <1>5, <1>6 DEF LineNext, LineCall, Consumer, Stop

LEMMA InitLineRefines == LineInit => Contract!Init
<1> SUFFICES ASSUME LineInit PROVE Contract!Init
  OBVIOUS
<1>1. queue = <<>> /\ ~shut
  BY DEF LineInit, Q!InitQueue
<1>2. LineMapped = [i \in Items |-> "new"]
  BY DEF LineInit, LineMapped, ContractState
<1> QED
  BY <1>1, <1>2 DEF Contract!Init, LineMapped

(* Every behaviour of a parallel_connection_sender is one that the contract *)
(* of a publisher allows, for its one recipient: a bounded line, oldest     *)
(* first, one attempt for each copy, none that joins or leaves after stop().*)
THEOREM LineKeepsContract == LineSpec => Contract!Spec
<1>1. LineInv /\ [LineNext]_lineVars => [Contract!Next]_(Contract!vars)
  BY LineRefines
<1> QED
  BY <1>1, InitLineRefines, LineInvariance, PTL DEF LineSpec, Contract!Spec
=============================================================================
