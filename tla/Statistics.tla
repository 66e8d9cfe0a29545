------------------------------- MODULE Statistics -------------------------------
(***************************************************************************)
(* The statistics of the server (statistics/statistics.py and              *)
(* db/sqldatabase.py).  Every thread that stores a file calls increment,   *)
(* which counts the file in a row of exchange_statistics (a counter is     *)
(* read, increased in memory and written back) and then adds an entry to   *)
(* exchange_statentry.  The queries behind the commands file_arrival and   *)
(* supervise (web/handler.py) look for entries, and the thread of          *)
(* statistics_cleanup_runner (runner/runners.py) removes those that are    *)
(* too old, until it is stopped.                                           *)
(*                                                                         *)
(* Query, merge and commit of a session are steps of their own and each    *)
(* sees what other sessions have committed.  A source stands for the       *)
(* origin, the source and the object type of a file.  Times are whole      *)
(* numbers in UTC.                                                         *)
(***************************************************************************)
EXTENDS Integers, FiniteSets

CONSTANTS
  Threads,   (* the threads that store files                                   *)
  Sources,
  NoSource,  (* what an idle thread counts                                     *)
  MaxFiles,  (* bound: the files that arrive                                   *)
  Start,     (* the time the server starts                                     *)
  MaxTime,   (* bound: the last moment explored                                *)
  Offsets,   (* how long before its arrival the nominal time of a file may lie *)
  Day,       (* the length of a day                                            *)
  Minute,    (* the length of a minute                                         *)
  Age,       (* the age argument of the cleanup runner                         *)
  Zone       (* what the local time of the server is ahead of UTC              *)

ASSUME StatisticsAssumption ==
  /\ NoSource \notin Sources
  /\ MaxFiles \in Nat /\ Start \in Nat /\ MaxTime \in Nat
  /\ Day \in Nat \ {0} /\ Minute \in Nat \ {0}
  /\ Age \in Nat /\ Zone \in Int /\ Offsets \subseteq Int

VARIABLES
  now,       (* the time                                                       *)
  counter,   (* counter[s]: the committed counter, 0 while there is no row     *)
  entries,   (* the table exchange_statentry, the rows of server-incomming     *)
  pc,        (* pc[t]: where t is in increment                                 *)
  source,    (* source[t]: the source of the file it counts                    *)
  nominal,   (* nominal[t]: the nominal time of that file                      *)
  read,      (* read[t]: the counter its query found, 0 if none                *)
  running,   (* self._running of the cleanup runner                            *)
  event,     (* self._event is set                                             *)
  rpc,       (* where the thread of the runner is                              *)
  spc,       (* where the thread that stops the runner is                      *)
  files,     (* the calls of increment begun                                   *)
  committed, (* history: committed[s], the increments for s without error      *)
  overlap,   (* history: the sources for which two calls ever overlapped       *)
  arrived    (* history: the files whose entries were added, with true delays  *)

counting == <<counter, pc, source, nominal, read, files, committed, overlap>>
table == <<entries, arrived>>
runner == <<running, event, rpc, spc>>
vars == <<now, counter, entries, pc, source, nominal, read, running, event, rpc,
          spc, files, committed, overlap, arrived>>

Init ==
  /\ now = Start
  /\ counter = [s \in Sources |-> 0]
  /\ entries = {}
  /\ pc = [t \in Threads |-> "idle"]
  /\ source = [t \in Threads |-> NoSource]
  /\ nominal = [t \in Threads |-> Start]
  /\ read = [t \in Threads |-> 0]
  /\ running = TRUE /\ event = FALSE
  /\ rpc = "test" /\ spc = "up"
  /\ files = 0
  /\ committed = [s \in Sources |-> 0]
  /\ overlap = {}
  /\ arrived = {}

Tick ==
  /\ now < MaxTime
  /\ now' = now + 1
  /\ UNCHANGED <<counting, table, runner>>

GoTo(t, place) == pc' = [pc EXCEPT ![t] = place]

----------------------------------------------------------------------------
(* statistics_manager.increment(..., save_post=True): the counter *)

Call(t, s, d) ==
  /\ pc[t] = "idle"
  /\ files < MaxFiles
  /\ files' = files + 1
  /\ GoTo(t, "query")
  /\ source' = [source EXCEPT ![t] = s]
  /\ nominal' = [nominal EXCEPT ![t] = now - d]
  /\ overlap' = IF \E u \in Threads : source[u] = s THEN overlap \cup {s} ELSE overlap
  /\ UNCHANGED <<now, counter, read, committed, table, runner>>

(* session.query(statistics).filter(...).first() *)
Row(s) == counter[s]

Query(t) ==
  /\ pc[t] = "query"
  /\ read' = [read EXCEPT ![t] = Row(source[t])]
  /\ GoTo(t, IF Row(source[t]) = 0 THEN "merge" ELSE "update")
  /\ UNCHANGED <<now, counter, source, nominal, files, committed, overlap, table, runner>>

(* session.merge(stats) of an object that is new looks for its row again:  *)
(* found, the row is updated with the values of the object, else inserted. *)
Merge(t) ==
  /\ pc[t] = "merge"
  /\ GoTo(t, IF Row(source[t]) = 0 THEN "insert" ELSE "update")
  /\ UNCHANGED <<now, counter, source, nominal, read, files, committed, overlap,
                 table, runner>>

(* Mutant: a new row starts at one before it is incremented. *)
SumFromOne(n) == IF n = 0 THEN 2 ELSE n + 1

(* statistics(spid, origin, source, 0, now), then "stats.counter += 1" *)
Sum(n) == n + 1

(* session.commit() *)
Commit(t) ==
  /\ \/ pc[t] = "update"
     \/ pc[t] = "insert" /\ counter[source[t]] = 0
  /\ counter' = [counter EXCEPT ![source[t]] = Sum(read[t])]
  /\ committed' = [committed EXCEPT ![source[t]] = @ + 1]
  /\ GoTo(t, "add")
  /\ UNCHANGED <<now, source, nominal, read, files, overlap, table, runner>>

(* Another session inserted the row that this one is about to insert, or   *)
(* the database is locked or gone, at any point.  The session is rolled    *)
(* back and the exception logged; the entry is added all the same.         *)
Fail(t) ==
  /\ pc[t] \notin {"idle", "add"}
  /\ GoTo(t, "add")
  /\ UNCHANGED <<now, counter, source, nominal, read, files, committed, overlap,
                 table, runner>>

----------------------------------------------------------------------------
(* statistics_manager.increment(..., save_post=True): the entry *)

(* The delay is the "seconds" of a timedelta, which leaves out its days.   *)
Entry(s, dt) ==
  [source |-> s, datetime |-> dt, entrytime |-> now, delay |-> (now - dt) % Day]

Returned(t) ==
  /\ GoTo(t, "idle")
  /\ source' = [source EXCEPT ![t] = NoSource]
  /\ nominal' = [nominal EXCEPT ![t] = Start]
  /\ read' = [read EXCEPT ![t] = 0]
  /\ UNCHANGED <<now, counter, files, committed, overlap, runner>>

Add(t) ==
  /\ pc[t] = "add"
  /\ ~\E e \in entries : e.source = source[t] /\ e.entrytime = now
  /\ entries' = entries \cup {Entry(source[t], nominal[t])}
  /\ arrived' = arrived \cup
       {[source |-> source[t], datetime |-> nominal[t], entrytime |-> now,
         delay |-> now - nominal[t]]}
  /\ Returned(t)

(* The table refuses a second row of one source and moment, or the         *)
(* database is locked or gone: the exception is logged.                    *)
AddFails(t) ==
  /\ pc[t] = "add"
  /\ Returned(t)
  /\ UNCHANGED table

Increment(t) ==
  Query(t) \/ Merge(t) \/ Commit(t) \/ Fail(t) \/ Add(t) \/ AddFails(t)

----------------------------------------------------------------------------
(* statistics_cleanup_runner.run *)

Test ==
  /\ rpc = "test"
  /\ rpc' = IF running THEN "cleanup" ELSE "done"
  /\ UNCHANGED <<now, counting, table, running, event, spc>>

(* Mutant: <= instead of <. *)
TooOldInclusive(e) == e.entrytime <= now + Zone - Age

(* cleanup_statentry takes the local time, and cleanup_statentries writes  *)
(* it without seconds.                                                     *)
TooOld(e) == e.entrytime < ((now + Zone - Age) \div Minute) * Minute

Cleanup ==
  /\ rpc = "cleanup"
  /\ entries' = {e \in entries : ~TooOld(e)}
  /\ rpc' = "wait"
  /\ UNCHANGED <<now, counting, arrived, running, event, spc>>

(* The database is locked or gone: the exception ends the thread. *)
CleanupRaises ==
  /\ rpc = "cleanup"
  /\ rpc' = "done"
  /\ UNCHANGED <<now, counting, table, running, event, spc>>

(* self._event.wait(interval): the event is set ... *)
Wake ==
  /\ rpc = "wait"
  /\ event
  /\ rpc' = "test"
  /\ UNCHANGED <<now, counting, table, running, event, spc>>

(* ... or the interval is over. *)
TimeIsUp ==
  /\ rpc = "wait"
  /\ rpc' = "test"
  /\ UNCHANGED <<now, counting, table, running, event, spc>>

(* stop(self) *)
StopRunning ==
  /\ spc = "up"
  /\ running' = FALSE
  /\ spc' = "set"
  /\ UNCHANGED <<now, counting, table, event, rpc>>

(* Mutant: the thread is joined without waking it. *)
StopSetsNothing ==
  /\ spc = "set"
  /\ spc' = "join"
  /\ UNCHANGED <<now, counting, table, running, event, rpc>>

StopSet ==
  /\ spc = "set"
  /\ event' = TRUE
  /\ spc' = "join"
  /\ UNCHANGED <<now, counting, table, running, rpc>>

StopJoin ==
  /\ spc = "join"
  /\ rpc = "done"
  /\ spc' = "down"
  /\ UNCHANGED <<now, counting, table, running, event, rpc>>

Run == Test \/ Cleanup \/ CleanupRaises \/ Wake
Stop == StopSet \/ StopJoin

----------------------------------------------------------------------------
(* The queries *)

(* One criterion of a filter, for the operators that the callers use. *)
Holds(e, c) ==
  CASE c.op = ">=" -> e[c.name] >= c.value
    [] c.op = "<=" -> e[c.name] <= c.value

Filtered(s, filters) ==
  {e \in entries : e.source = s /\ \A c \in filters : Holds(e, c)}

(* get_statistics_entries looks for the key "filter" only. *)
GetStatisticsEntries(q) ==
  Filtered(q.sources, IF "filter" \in DOMAIN q THEN q.filter ELSE {})

(* file_arrival calls its filter "dtfilter". *)
FileArrival(s, limit) ==
  GetStatisticsEntries(
    [sources |-> s,
     dtfilter |-> {[name |-> "datetime", op |-> ">=", value |-> now - limit]}]) # {}

Criteria(limit, entrylimit, delay) ==
  {[name |-> "datetime", op |-> ">=", value |-> now - limit]}
    \cup (IF entrylimit > 0
          THEN {[name |-> "entrytime", op |-> ">=", value |-> now - entrylimit]}
          ELSE {})
    \cup (IF delay > 0
          THEN {[name |-> "delay", op |-> "<=", value |-> delay]} ELSE {})

Wanted(count) == IF count = 0 THEN 1 ELSE count

Supervise(s, limit, entrylimit, delay, count) ==
  Cardinality(GetStatisticsEntries(
    [sources |-> s, filter |-> Criteria(limit, entrylimit, delay)])) >= Wanted(count)

(* What the queries are about: the files that arrived, with true delays.   *)
NoneEarly(s) == \A a \in arrived : a.source = s => a.delay >= 0

Within(s, limit, entrylimit, delay) ==
  {a \in arrived :
     /\ a.source = s
     /\ a.datetime >= now - limit
     /\ entrylimit > 0 => a.entrytime >= now - entrylimit
     /\ delay > 0 => a.delay <= delay}

----------------------------------------------------------------------------
Next ==
  \/ Tick
  \/ \E t \in Threads :
       Increment(t) \/ \E s \in Sources, d \in Offsets : Call(t, s, d)
  \/ Run \/ TimeIsUp
  \/ StopRunning \/ Stop

Spec == Init /\ [][Next]_vars

(* The thread of the runner and a stop() that began go on; nothing is said *)
(* of the interval.                                                        *)
FairSpec == Spec /\ WF_vars(Run) /\ WF_vars(Stop)

----------------------------------------------------------------------------
(* The types of the state; a thread has read no count that was not reached,*)
(* and when stop() has returned the thread of the runner has ended.        *)
TypeOK ==
  /\ now \in Int
  /\ counter \in [Sources -> Nat] /\ committed \in [Sources -> Nat]
  /\ pc \in [Threads -> {"idle", "query", "merge", "insert", "update", "add"}]
  /\ source \in [Threads -> Sources \cup {NoSource}]
  /\ nominal \in [Threads -> Int]
  /\ \A t \in Threads :
       read[t] \in IF pc[t] = "idle" THEN {0} ELSE 0..committed[source[t]]
  /\ files \in 0..MaxFiles
  /\ overlap \subseteq Sources
  /\ \A e \in entries : e.entrytime <= now /\ e.delay \in 0..Day-1
  /\ running \in BOOLEAN /\ event \in BOOLEAN
  /\ rpc \in {"test", "cleanup", "wait", "done"}
  /\ spc \in {"up", "set", "join", "down"}
  /\ spc = "down" => rpc = "done"

(* Whatever the sessions do to each other, a counter never exceeds the     *)
(* increments that succeeded, and there is a row as soon as one has        *)
(* (increment_statistics).                                                 *)
NeverOvercounts ==
  \A s \in Sources :
    counter[s] <= committed[s] /\ (counter[s] = 0 <=> committed[s] = 0)

(* As long as no two calls for one source overlap its counter is exact,    *)
(* even with errors and with calls for other sources in between.           *)
ExactUnlessOverlap ==
  \A s \in Sources \ overlap : counter[s] = committed[s]

(* What increment_statistics promises of every counter, overlap or not.    *)
CountersTellTruth == NeverOvercounts /\ ExactUnlessOverlap

(* "All entries older than specified number of hours will be removed"      *)
(* (userguide), and no others: on a server whose local time is not ahead of*)
(* UTC, cleaning up takes no entry younger than Age.                       *)
OnlyOldEntriesRemoved ==
  [][Zone <= 0 => \A e \in entries \ entries' : e.entrytime < now - Age]_vars

(* What supervise answers is what the files that really arrived say: enough*)
(* of them with a nominal time, an arrival and a delay within the limits.  *)
(* Cleaning up never changes an answer about limits within Age, unless the *)
(* local time is ahead of UTC, or a file arrived before its nominal time   *)
(* and its entry went before that time came.  A limit of a day or more may *)
(* meet delays that leave out days.  And file_arrival, which forgets its   *)
(* limit, at least never misses a file.                                    *)
SuperviseTellsTruth == Zone <= 0 =>
  \A s \in Sources, limit, entrylimit, delay \in 0..Age, count \in 0..2 :
    NoneEarly(s) =>
      /\ (\E a \in arrived : a.source = s /\ a.datetime >= now - limit) => FileArrival(s, limit)
      /\ delay = 0 \/ limit < Day =>
           (Supervise(s, limit, entrylimit, delay, count)
              <=> Cardinality(Within(s, limit, entrylimit, delay))
                    >= (IF count = 0 THEN 1 ELSE count))

(* stop() returns without waiting for the interval to end, and also when   *)
(* the thread has ended before.                                            *)
StopTerminates == spc # "up" ~> spc = "down"
=============================================================================
