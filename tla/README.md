# baltrad-exchange: TLA+ models, checks and proofs

baltrad-exchange receives radar files, decides with *subscriptions* who wants
them, stores them, and hands them to *publications* that send them on.  This
directory holds TLA+ models of that program, the TLC configurations that check
them on small instances, and TLAPS proofs for every size of the instance.
Source paths below are relative to `src/src/bexchange/`.

## 1. Inventory

| part | state | operations | how it interacts | models |
|---|---|---|---|---|
| duplicate check, `HandledFiles` (server/backend.py) | list of hashes, lock | `add` | called by every thread that stores a file | DuplicateWindow, HandledFiles |
| backend, `SimpleBackend` (server/backend.py) | lists of subscriptions and publications, registry of configuration files, managers | `store_file`, `publish`, `post_message`, `conf_file_written`, `conf_file_removed` | called by WSGI threads, runners and the monitor; no lock on the lists | Backend, Registry, Reception, Network |
| standard publisher (net/publishers.py) | queue with shutdown flag and condition, `_running`, threads | `publish`, `consumer`, `start`, `stop` | `publish` by storing threads, `stop` by the monitor, consumers call connections | ShutdownQueue, StandardPublisher, PublishContract |
| connections (net/connections.py) | list of senders; parallel: a queue and a thread for each | `publish`, `stop` | called by consumers, call senders | Connections, ParallelSender |
| senders, sftp client (net/senders.py, net/sftpclient.py) | kept-open sftp session, its directory, a counter | `send` | called by connections, from several threads | Senders, SftpSender |
| storages (storage/storages.py) | registry by name, folders on disk, a lock around trimming | `store`, `trim_folder`, add, remove | called by `store_file` and by storage_sender | RotatingStorage, Registry, Reception |
| processors (processor/processors.py) | registry by name | `process`, add, remove | called by `store_file` | Registry |
| runners (runner/runners.py, file_watcher.py) | list of runners, threads, watches | `start`, `stop`, `handle_file`, `handle_message` | call `store_file`; started and stopped by the backend | FolderWatch, Statistics, Reception |
| fetchers (net/fetchers.py) | none kept | `fetch` | called by the triggered runner, call `store_file` | Fetchers |
| ZeroMQ (net/zmq) | sockets, threads | `do_publish`, `process`, `run` | a publisher, a runner and a monitor | ZmqTransport |
| statistics (statistics/statistics.py, db/sqldatabase.py) | two tables | `increment`, `add`, find, cleanup | called from everywhere | Statistics |
| sources (server/sqlbackend.py, odimutil.py) | tables of sources and their keys | `add_sources`, `get_source` | gives an incoming file its source | Sources |
| filters and matcher (matching) | none | `to_xpr`, `match` | asked by subscriptions and `publish` | Filters |
| naming (naming/namer.py) | none | `name` | used by storages and senders | Naming |
| decorators (decorators) | none | `decorate` | called by `publish` of a publication | Decorators |
| authentication (auth, web/auth.py) | registered providers and keys | `authenticate`, add key | asked by the web layer | Authentication |
| web layer (web) | none | `post_file`, `file_arrival`, `supervise` ... | calls the backend | Reception, Statistics |
| command line client (client) | none kept | store, create_publication, ... | sends requests, writes files | Peering, Reception |
| start-up programs, property files | none kept | | | none |

Hard behaviours, by part:

* **Concurrency without locks.** `store_file` loops over `self.subscriptions`
  and `publish` over `self.publications` while the monitor's thread appends to
  and removes from the same lists.  Consumers share one sftp session, or one
  ZeroMQ socket.
* **Ordering and shutdown.** A publisher is stopped while files are queued,
  being decorated, being sent, and while its consumers fall asleep.
* **Partial failure.** One connection or sender of several raises, perhaps after
  the file has gone out; a rewritten configuration file turns out to be bad; a
  transfer ends half way.
* **Unreliable delivery.** An answer is lost and the file is sent again; frames are
  lost, cut and mixed.
* **Cycles.** Servers publish to each other; only the check of duplicates ends it.
* **Limits.** The window of 500 hashes, the bounded queues, the number of files
  of the rotating storage, the transfers per session, the ages of `max_age_filter`.
* **Lost updates.** Statistics counters are read, incremented and merged.
* **Restart.** Hashes, queues and kept-open connections live in memory only.

What makes each part correct: the duplicate check is one atomic step that
remembers exactly the last *Limit* hashes; a call of `store_file` hands its file
once to every subscription that wants it; lists and registry agree; every file
a publisher accepts is in one place, attempted once and counted once; `stop`
returns and nothing moves afterwards; a connection keeps what its description
promises; a send that returned has delivered; an answer to a posted file tells
what happened to it; files reach every recipient and then come to rest.
`PROJECT.json` lists every hazard at its line.

## 2. Plan

| order | modules | state |
|---|---|---|
| 1 | `DuplicateWindow`, `HandledFiles`, `HandledFilesProofs` | done |
| 2 | `ShutdownQueue`, `PublishContract`, `StandardPublisher`, `PublisherProofs` | done |
| 3 | `Backend`, `BackendProofs` | done |
| 4 | `Senders`, `Connections`, `ParallelSender` | done; the line proved in `SftpSenderProofs`, calls in `NetworkProofs` |
| 5 | `RotatingStorage`, `RotatingStorageProofs` | done |
| 6 | `Registry`, `RegistryProofs` | done |
| 7 | `Statistics`, `StatisticsProofs` | done |
| 8 | `FolderWatch` | done; proved in `HandledFilesProofs` |
| 9 | `SftpSender`, `SftpSenderProofs` | done |
| 10 | `ZmqTransport` | done; proved in `PublisherProofs` |
| 11 | `Sources`, `Filters`, `Naming`, `Decorators`, `Authentication`, `Fetchers` | done; pure operators, checked in `Reception` |
| 12 | `Reception`: a request from the client to its answer | done |
| 13 | `Peering`, `Network`: servers that exchange files; `NetworkProofs` | done |
| 14 | composition of `Backend` with a publisher whose `stop` takes time; a parallel connection inside a combined one | left |
| 15 | statistics of the whole way of a file; the scheduled runner's timetable | left |

`Network` composes `Connections`, `Senders`, `Peering` and `Authentication`;
`Reception` composes `Sources`, `Filters`, `Naming`, `Decorators`,
`Authentication` and `Fetchers`; `ZmqTransport` and `StandardPublisher` both
build on `ShutdownQueue`, `Backend` on `DuplicateWindow`.  Some modules of
proofs are about two modules of the system: `PublisherProofs` about both publishers,
`HandledFilesProofs` about the two places where files that arrive must be taken once (the
duplicate check and `FolderWatch`), and `SftpSenderProofs` about the line of one recipient
(`ParallelSender`) and a sender behind it.  The definitions of `HandledFiles`,
`ParallelSender` and `FolderWatch` have names that let one module extend them (`MCParts`).

## 3. Modules

### DuplicateWindow, HandledFiles
`DuplicateWindow` is the abstract specification: a hash is answered "duplicate"
exactly when it is among the last `Limit` accepted ones, decided in one instant
between call and return; `Restart` forgets everything.  `HandledFiles` is the
code: `Acquire`, search (`Found`, `NotFound`), `Insert`, `Trim` and `Release`
are steps of their own, so that the lock is checked and not assumed.  `count`
and `stamp` are history.  `ImplementsWindow` states the refinement.

### ShutdownQueue, StandardPublisher, PublishContract
`ShutdownQueue` is `pubQueue` (and its copy `util.jobQueue`).  Every method runs
under one condition, hence is one step, except `wait`: `waiting` holds the
sleeping consumers.  `StandardPublisher` instantiates it and adds callers
(`Refuse`, `Begin`, `GiveUp`, `Enqueue`), consumers (`Test`, `Take`, `Sleep`,
`Leave`, `SendWorks`, `SendFails`, `SendDone`) and the five steps of `stop`.  An
item is one call of `publish`.  Decorators are abstracted to their outcome (go
on, discard, raise; see `Decorators` for which).  Statistics plugins do not
raise, since `statistics_manager.increment` catches database errors.  The
constructor takes a list of connections, `publisher_manager.from_conf` builds at
most one; the model takes any number.  `PublishContract` is what the backend may
rely on: a bounded line, oldest first, one attempt each, until it closes.

### Backend
Threads in `store_file` and the one thread of the configuration monitor.  Python's
"for" over a list keeps a position and reads the list as it is: `pos` and
`ppos`.  The position, not a copy, is what makes removal by the monitor skip an
element; `RemoveFirst` is `list.remove`.  The duplicate check is an instance of `DuplicateWindow`, which
`HandledFiles` implements, so that its lock and list need not be modelled
again.  The monitor has a `job`: a rewritten file is removed, then added; a
publication is stopped (`StopPublication`) before it leaves the list
(`DropPublication`); adding may fail (`AddFails`) and leaves the file
unconfigured.  An event for a file takes `Written` or `Deleted` in any order,
which covers what either file watcher delivers.  The filter of a publication is evaluated outside the try around its publishing, so
that one that raises ends `publish` (`PublishRaises`), which `store_file` logs; one of
a subscription ends `store_file` (`FilterRaises`).  `start`, `done`, `disturbed` and
their counterparts for publications, `pskipped` (the publications that a raising
filter cut off), `accepted` and `handed` are history.
Abstracted: sender identity and filter are the relation `Wants`, an exception
in a filter the relations `Raises` and `PubRaises` (worked out in `Reception`); storages,
statistics and processors, whose exceptions are caught, are part of `HandOver`
and `Process`.

### Connections, Senders, ParallelSender
`Connections` holds operators over one `publish` of a simple, failover, backup or
distributed connection, or of a combined one over them, as the constructors and
`connection_manager` make it; `Network` runs the call step by step.  `Senders`
says, for each kind of sender, what `send` may end in: whether it returned, and
whether the recipient has nothing, a part or the whole of the file.
`ParallelSender` is one queue and thread of a parallel connection; its senders
share nothing, so one stands for all.  The instance of `ShutdownQueue` has one
consumer.  The copy of an ignored item is closed with its last reference, which
CPython does at once.

### SftpSender
One `sftp_sender`, the client it keeps, and the server.  Every request is a step
(`CheckConnected`, `Connect`, `GetHome`, `PrepareDirectory`, `MakeDirectory`,
`ChangeDirectory`, `StartTransfer`, `EndTransfer`, `Rename`, `CountTransfer`,
`Finally`), any of them may fail, and `ServerDrops` ends the session between two of
them.  Consumer threads share the session, its current directory and the
counter.  `Lookup` is the directory a request ends up in.  `shared`, `troubled`,
`moved` and `drops` are history: they tell a property which sends met another one
or a failure.

### ZmqTransport
A `StandardPublisher` whose connection is one PUB socket: `stop()` closes the
socket (`CloseSocket`) before everything else, a send on it raises afterwards.  A
message reaches any subset of the started subscribers and perhaps the monitor; of
two sends that overlap, either may come out garbled, or shorter than the header.
The monitor passes over a frame that is `Short`, books one that is `Readable` and
ends at any other (`Monitored`); `seen` is history, and each row of `entries` carries
the number of the message it is of, so that none can stand for another.  What decides its way is
a kind: a name longer than 256 bytes, a name that latin1 and utf-8 write
differently or not at all, a size above the limit.  The encryption holds.

### Sources, Filters, Naming, Decorators, Authentication, Fetchers
Pure operators.  `Sources` is the database of sources: `SourceIds` is what the
counting loop of `get_source_id` returns over all orders of rows, `BestMatch` the
definition it is to meet; `MetadataOf` is `metadata_from_file`.  `Filters` builds
filters from configurations and matches them against metadata in which an
attribute may be missing, be many values or have another form; each operator is
written as its procedure in `metadata_matcher`, the negated ones included.  `Naming` makes names from templates with their suboperations
and intervals, `IntervalStart` is the reference for the latter.  `Decorators` is
the loop of `publish` over decorators and `max_age_filter`.  `Authentication` has both
sides: the texts that `client/rest.py` and `dex_sender` sign, and those that each
provider verifies, with the keys it holds.  `Fetchers` is what each fetcher asks for and
hands to `store_file`.  Texts are sequences of numbers, kept as short as the
operators allow; patterns are given by the values they match.

### Reception
The client's command, the request, authentication, the handler, `store_file` or the
triggered runner's fetch, and the answer.  A *scenario* is a configuration of
both sides; `Init` chooses one.  `SendNext`, `LoseRequest`, `GetAnswer` and
`LoseAnswer` are the client, `Receive`, `StoreNext`, `NextSubscription`, `EndStore` and
`Answer` the thread that serves it, `Rekey` a node that gets a new key.  Threads
interleave between the check of duplicates and each subscription.  `Backend` has what
happens when the lists change meanwhile.

### Peering, Network
`Peering` is `create_publication`, `create_subscription` and what `from_conf` of
publications and subscriptions makes of the files.  `Network` takes servers
configured that way: a file comes in (`ComeIn`), consumers take it from queues
(`Take`) and go through the senders of their connection (`SendToServer`,
`SendElsewhere`, `EndOfSenders`, `EndOfParts`); the server that receives a file
knows it, turns it away or stores and publishes it in turn.  Requests and answers get
lost, and servers restart.  Storing is one step there; each publication has one
consumer.  Subscriptions and publications are known by the file that configures
them (`Made` leaves out the files that come to nothing), and no server has more than
`MaxPublications`.

### RotatingStorage
`simple_rotating_file_storage.store` as steps of several threads: the name is
chosen (`Name`: as it is, or with a suffix when taken, which `file_store` asks
of the disk before it copies), the file is created (`Open`), gets its content
(`Copy`), and `trim_folder` takes its lock, lists
the folder by time (`OldestFirst`: files with equal times in any order), unlinks
and releases.  A call may raise at any of these: before anything is in the folder
(`NothingStored`), while it copies or sets the permissions (`CopyFails`: the file
stays, in part or whole, and this call does not trim), or while it trims
(`TrimFails`).  `debris` is history: what such calls left and no trimming has met
since.  `folder` are the paths, `inode` which
item each holds, `mtime` its time; a file that was unlinked while open keeps its
writer but is `Reachable` no longer.  `NumberOfFiles` is normalised as in the
constructor (`Limit`), which may be below one.

### Registry
Configuration files of all five kinds from the scan at start-up
(`ReadFile`, `StartRunners`, `StartMonitor`) to the events of the monitor
(`NewFile`, `RemoveObject` with `AddAgain` for a rewrite, `NotRegistered`).  A
content says whether making, starting and stopping its object works; `Objects` are
the objects made, each with a number of its own.  Storages
and processors live in dictionaries by name, the others in lists; `Gone` is what
removal by name takes, which may be another file's object: `collided` remembers
that names ever clashed, and the properties of lists and managers are for files
whose names do not.  Files are changed by `Write`, `Delete`, `MoveIn` and `Rename`;
`watchdog` says which package is installed, and with it which of these become
events: its wrapper forwards the closing and the deleting of a file and nothing
else.  `missed` are the files of whose last change the monitor was not told, since it
came before the monitor ran or was such a move, and
`aborted` those whose old runner raised in `stop`.  `Backend` keeps what a
change means to a file that is being stored; `Registry` keeps what it means to
everything that was started.

### Statistics
Threads in `statistics_manager.increment`: `Query`, `Merge`, `Commit` or `Fail`
of a session of their own, then `Add` of an entry; the cleanup runner with its
event (`Test`, `Cleanup`, `CleanupRaises`, `Wake`) and its `stop`; a clock.  Times
are integers with a day and a minute of a given length: the delay of an entry
leaves out the days as `timedelta.seconds` does, and cleanup compares with a time
without seconds in the server's `Zone`.  `FileArrival` and `Supervise` are the
queries of the web layer as operators over the entries.  A file's nominal time
is up to a day off its arrival, to either side (`Offsets`).  `committed`, `overlap`
and `arrived` are history.

### FolderWatch
An inotify runner over `FileWatcher`: `List` (and the thread for pending files),
then `Watch`, events in order through the wrapper of the installed package
(`watchdog`, chosen at the start), `Deliver`, `Unlink` in the finally clause,
`StopWatch`, `StopJoin`.  `Create`, `Close` and `MoveIn` are other programs.

## 4. Runs

| run | checks | bounds |
|---|---|---|
| parts | `ListIsWindow`, `ImplementsWindow`; `LeftoversExplained`, `WatchHandsOverOnceAndWhole`, `WatchedFilesLeave`; `CopyOpenWhileNeeded`, `ImplementsContract` | three parts that share no state, explored one at a time (`MCParts`). Duplicate check: 3 threads, 3 hashes, list of 2, 5 acceptances before the last restart: every hash can leave the window and return. Runner: 3 files, one of which is to be ignored, both packages. Line of a parallel connection: 2 callers, 3 items, queue of 1 |
| publisher | `EveryItemInOnePlace`, `NoLostWakeup`, `StatisticsTellTruth`, `StopIsFinal`, `StopTerminates`, `ImplementsContract` | 2 callers, 2 consumers, 3 items, queue of 1, 2 connections: the queue is full while one item is sent and one is put, under fair threads |
| backend | `AtMostOncePerAcceptance`, `RefusalJustified`, `HandedOverOnce`, `AllHandleUnlessDisturbed`, `AllPublishUnlessDisturbed` | 2 threads, 2 files and one too large, window of 1, 2 acceptances, 2 of 3 subscriptions and both publications configured at start, 1 event, which may be a rewrite that fails; each publication raises on one way of one file, the first and the last of the list |
| network | `ReturnKeepsPromise`, `FilesSpread`, `CirculationEnds` | up to 3 servers, 2 files, some 110 networks: rings and meshes with losses, up to 2 restarts, short queues and lists, missing and wrong keys, every kind of connection and sender and pairs of them |
| rotating_storage | `FolderIsBounded`, `NewestAreKeptUnlessOverlap` | 2 threads, 4 files of which two share a name, limit 3: the folder is trimmed at two files, both threads can list before either unlinks, any of the calls may fail at any step, and one that ends well may follow two that failed |
| statistics | `CountersTellTruth`, `SuperviseTellsTruth`, `OnlyOldEntriesRemoved`, `StopTerminates` | 2 threads, 1 source, 2 files, 5 moments, age 1, a day of 3, a minute of 2, nominal times one ahead of the arrival, at it or a day back: entries grow old, sessions overlap, delays lose their day, and the cleanup runs at whole and half minutes |
| registry | `ManagersMatchRegistry`, `RegistryFollowsFiles` | 2 files, 11 contents and every start, both packages, 3 changes: a file can be written, rewritten and removed, with one event still waiting, or moved and renamed unseen; the files are alike (`AlikeFiles`), as no action or property singles one out |
| sftp_sender | `ReturnedMeansArrived`, `UnsharedSendIsTrue`, `SessionWithinLimit` | 3 files; one thread with every combination of options, and with files of which some have a directory and some have none; two threads with a session per file and with a kept one; sessions for 2 transfers, so that the third file opens a new one; 1 session dropped by the server |
| zmq | `StoredIsWhatWasSent`, `MonitorTellsWhatItSaw`, `ImplementsContract` | 2 files of every pair of kinds that matters, 1 caller, 2 consumers that overlap, 2 subscriber threads (as after one rewrite of its file), a monitor for 1 file |
| monitor_loop | `LoopIsInfinite`, violated | as zmq, a monitor without a number of files |
| reception | `AnswersTellTruth`, `SignedIsHeard`, `SourceIsBestMatch`, `NothingDemandedIsMissing`, `OneNameOneInterval` | some 4,800 scenarios, each differing from a plain one in one respect (sources, filters, decorators, names, keys, fetches) or with two clients, up to three files each and a window of one hash |
| publication_filters | `FiltersWorkAlike`, violated | as reception |

`CHECK_DEADLOCK FALSE` is set where the system really ends: after `stop()` has
returned, or when every client has sent its files, every queue is empty or
every change has been handled; where somebody could wait for ever there is a liveness
property instead.  `parts` sets it for the line and the runner; the duplicate check in it
always goes on, since `Restart` can be taken.  The run of `Backend` also shows that nobody
waits for everybody.  Each property has a mutant in its module (the operators whose
comment begins with "Mutant"), a plausible slip in the code that the run detects.

Two runs end in a violation: the code does otherwise than its documentation says.

* `monitor_loop`: `process` of the ZeroMQ monitor builds its entry from `values`, which it
  has only when the hmac was right and the content readable.  Any other frame that is not
  short raises and ends the monitor (net/zmq/zmqmonitor.py:342), where its documentation
  says that "otherwise nothing will happen" (315) and that "the loop is infinite" (347).
* `publication_filters`: doc/userguide.rst:560 says that the filters of publications "are
  working in the same way as they are for subscriptions".  A filter that was not made
  lets a subscription take everything; in a publication it raises (server/backend.py:607),
  which ends `publish` for it and for every publication behind it.

The passing properties name the condition under which a fault of the code does
not bite.  What they had to leave out, and what a reader of the documentation
would not expect:

*Backend and configuration*
* The loop at server/backend.py:547 skips the subscription that moves into the
  place of one that the monitor removes, a rewrite included (userguide.rst:322-323
  says that all files which pass its filter are distributed).  `AllHandleUnlessDisturbed`
  shows that removal is the only way to miss one: additions and failed rewrites are
  harmless.
* Rewriting the file of a runner whose `stop` raises, as that of the zmq
  subscriber does, removes it and does not add the new one (`aborted`).
* A processor whose name another file takes over is replaced without being stopped
  (`collided`).
* Every eligible subscription publishes by itself: a publication without `origin`
  queues the file once for each (`Times`).
* A file of a heard node that no subscription wants from it leaves its hash
  behind, and a copy from a node that is wanted answers 409 (`Welcomes`).
* A filter that raises ends `store_file`: 500 now, 409 when the file is sent again.  One
  of a publication ends `publish` in silence: the publications behind it miss a file that
  counts as handled (`pskipped` in `AllPublishUnlessDisturbed`).
  `post_json_message` catches nothing.  A `LookupError` from anywhere in `store_file`
  answers 406.

*Connections and senders*
* The except clause at net/connections.py:320 names a variable that does not
  exist (the docstring, 295-296, promises that all connections are called).  The
  `NameError` leaves `publish` at the first connection that fails; so does a
  recipient that answers 409 because it has the file already.
* The worker of a parallel connection gives its sender the open temporary file
  instead of its path (net/connections.py:207); senders that open a path fail on
  every file.  The run is about senders that take either.
* After a redirection `dex_sender` posts an empty body, and `storage_sender` passes over
  a storage that is not registered: both may return without the file having arrived
  (`MayWithhold`).  `scp_sender` does not wait for its mkdir, so that the transfer may fail.
* Reconnecting does not reset the counter of an sftp session.  Without a home
  directory a kept session resolves a relative directory from wherever the last file
  went (`Homeless`), and a file whose name has no directory part stays there whenever the
  session is kept (`Adrift`).  Threads that share a session move each other's directory, which
  `UnsharedSendIsTrue` excludes and `ReturnedMeansArrived` survives.
* The ZeroMQ publisher closes its socket before its consumers are told: what they
  still send fails and is counted so.  The loop of the subscriber has no end, so that
  a rewrite starts a second thread.  Names of more than 256 bytes shift the content,
  and names that latin1 and utf-8 write differently are dropped.  The monitor passes over
  frames that are too short, ends at the first other one that it cannot verify or read, and
  receives one file more than `nrfiles`, which is not what zmqmonitor.py:347 says
  (`MonitorTellsWhatItSaw` has both).

*Files, names and filters*
* `trim_folder` keeps one file fewer than `number_of_files` (`Room`), and a file
  whose copy is slow is listed with an early time and may be trimmed although it
  was written last (`NewestAreKeptUnlessOverlap` excludes overlapping calls).  A copy that
  fails leaves what it wrote and no trimming follows: while calls fail, as on a full disk,
  the folder grows by a file for each, and the next call that succeeds counts them among
  the newest and evicts whole ones for them (`debris`).
* With watchdog the wrapper does not pass on files that are moved into a folder
  (`LeftoversExplained`, and `RegistryFollowsFiles` for configuration files: a file renamed
  into place, as tools that replace files atomically do it, is not loaded before it is
  written again or the server restarted); and ignore-pattern switches ignoring off, not on.
* `max_age_filter` raises for a late file that is not a SCAN (its message has an
  argument too many, decorators/decorator.py:115); a file exactly at the second limit passes
  in silence.
* An attribute that a file lacks is an empty list to every operator, so that `not_in`, `!=`,
  `<` and `<=` match it (`NothingDemandedIsMissing` shows that the others never do); `=` compares a list with a value; `_exchange/what_age` leaves out the
  days; `tolower` and `toupper` without arguments forget the suboperations before them;
  the elevation angle is always that of the first dataset.
* Fetchers: `sftp` gives `store_file` the name on the other host, not its copy; `scp`
  does not look at its patterns; any exception ends the fetch with 500; `copy`
  leaves files where they are, so that a second trigger ends at the first duplicate.

*Keys*
* The crypto provider keeps the first key of a node, the others the last (`WithKey`),
  and the key of a removed subscription stays.  The two sides of tink sign different
  texts, so that it never verifies.  A provider that is not configured makes
  `allowed_ids` `[None]`, which keeps everybody out.
* `create_subscription` refuses a template for another sender but not for another
  encryption, and writes `_id` and `_statdef`, which nobody reads.  A "connection" inside
  the "publication" of etc/exchange-template.json is not read either.

*Statistics*
* The handler passes its time limit under the key `dtfilter`, which
  `get_statistics_entries` does not read (web/handler.py:217, statistics/statistics.py:149;
  commandline.rst:245 says otherwise): a file of any age answers OK.  `SuperviseTellsTruth`
  shows that the sibling command is right.
* An entry's delay leaves out its days, so that a file which comes a day late counts as
  punctual; and cleanup goes by the arrival, so that the entry of a file which came
  before its nominal time may be gone while a query by nominal time still asks for it.
  `SuperviseTellsTruth` is for sources none of whose files was early (`NoneEarly`) and,
  when a delay is asked for, limits shorter than a day.
* Two sessions that read the same counter lose an increment (`ExactUnlessOverlap`).
* Cleanup compares the local time with entry times in UTC: ahead of UTC entries go
  too early (the condition on `Zone`), behind it too late.  An exception of the
  database ends the cleanup thread for good.

## 5. Fairness

`Fairness` of the publisher: each consumer that can go on does, and so does a
`stop()` that began.  This is thread scheduling, plus the assumption that a
connection returns or raises at last (a sender that hangs for ever stops the
monitor too).  Nobody is assumed to call `publish` or `stop`, and the ten-second timeout of the
condition is not assumed to fire: `NoLostWakeup` shows it is not needed.  `LineFairSpec` of
`ParallelSender` is the same for its worker, and `ZSpec` for the ZeroMQ publisher, where a
subscriber that has a message receives it.  `Spec` of `Network` lets the consumer of each
publication go on, with requests that end; no file has to come in, and a server need not be
restarted.  `CirculationEnds` holds for networks where no subscription takes
duplicates and the list of hashes is as long as the number of files on their way; one
network breaks each condition, and there files may go round for ever.
`FairSpec` of `Statistics` lets the cleanup thread and
a `stop()` that began go on, but not the hourly timeout of the wait: `StopTerminates`
rests on the event alone.  `FairSpec` of `FolderWatch` lets the thread that
delivers events go on, with a `store_file` that comes back; it does not assume that
the runner is ever stopped, or that the thread of pending files runs.

## 6. Proofs

Every theorem holds for all values of the constants that satisfy the named
assumption of its module; these say that numbers are numbers, that the values
for "nothing" are not things, that threads are finitely many, and that what the
server starts with are different objects.  Each module of proofs first
establishes the invariant it names here for `Init` and for every action, then
reads the property off it.

`HandledFilesProofs` (any threads, hashes and limit; `HandledFilesAssumption`):

* `TypeCorrect`, `ListIsAlwaysTheWindow`, `AddImplementsWindow`.  `IInv` adds to
  the types that only the holder of the lock is between `Acquire` and `Release`,
  what each place in `add` knows of the list, and that the list always is the
  newest stamps in descending order, with one element too many only before
  `Trim`.  `ListIsWindow` alone is not inductive: it says nothing while the lock
  is held.  Refinement maps `Found` and `Insert` to `Decide` and `Release` to
  `Return`; the other steps stutter.

`HandledFilesProofs`, on `FolderWatch` (any finite set of files, either package, any
pattern and arguments; `WatchAssumption`):

* `WatchIsExact`: there is one event for each file that landed while the watch was up
  (`NoticedInv`), the pending files are in the listing once (`PendingInv`), and either
  thread is past a file after it gave it to `store_file` (`StoredInv`), so that two calls
  are one of each.
* `NothingElseIsLeft`: `LeftInv` says who still has to see a file that lies there: an
  event, the thread that has it in hand, or the listing.  That `pending_run` has every
  file that was listed is `SetToSeqsOrders`: an injection between finite sets of one size
  is onto.

`PublisherProofs`, on `StandardPublisher` (any callers, consumers, items, connections,
size; `PublisherAssumption`):

* `PublisherTypes`, `NoWakeupIsLost`, `ItemsStayInOnePlace`, `StopHasLastWord`.
  `BaseInv` adds to types and wakeups what consumers hold in each place
  (`HandInv`) and what is true in each place of `stop` (`StopInv`: shut after
  `StopQueue`, all consumers done after `StopJoin`).  `PlaceInv` is
  `EveryItemInOnePlace` by parts and is inductive relative to `BaseInv`; the
  final step of `StopIsFinal` follows since a consumer that is done has no step.
* `StatisticsAreTrue`.  `StatInv` says of each fate of an item what has been counted
  for it, and which connections a consumer that is sending it has passed: the
  count of a finished item cannot be known from its end alone.
* `PublisherKeepsContract`: every step is a step of `PublishContract` or leaves
  line, states and openness alone.  `PlaceInv` is needed for it, since the contract
  takes only an item that waits and ends only one that is busy.

`PublisherProofs`, on `ZmqTransport` (any subscribers, kinds and `nrfiles`;
`ZmqAssumption`):

* `ZmqKeepsContract`: a step of the ZeroMQ publisher is one of `standard_publisher`,
  or closes the socket, or is taken by another process (`StepOfPublisher`), so the
  invariants and the contract carry over.
* `OnlyWhatWasSentIsStored`: `WireInv` follows each message from the socket, which
  accepted it once, through the inboxes; whatever comes out garbled is refused.
* `MonitorIsTrue`: `MonitorInv` adds what the monitor has left to what it has seen; the
  rows of earlier messages stand when one more comes (`RowsGrow`), be it one that leaves
  none.

`NetworkProofs` (any servers, files and networks in which every server has finitely many
subscriptions and at most `MaxPublications` publications; `NetworkAssumption`):

* `NetworkInvariant`: the configuration never changes (`SetupInv`), queues hold only
  what their publication lets pass (`StoreInv`), and every call is one that the
  operators of `Connections` can make (`CallsInv`).  The part of it that carries
  `ReturnsKeepPromises` is `Good`: while a publish goes on, the parts before the
  running one kept their promise, those behind it were not called, and the running
  one has tried exactly the senders before its position.  This is what holds for
  simple, failover, backup, distributed and combined connections alike.
* `FilesReachEverybody`: a file that a server took is, for each calm publication, in
  the queue, with the consumer, or at every recipient (`SpreadInv`), and the senders
  before the consumer's position have reached theirs whether they returned or raised,
  since a recipient that refuses a file has it already.  `QuietInv` gives the two
  numbers this rests on: without restarts a server knows each file once, so that the
  list of hashes never overflows, and a queue holds at most one entry for each
  known file and subscription, so that nothing is turned away from it.  The queue of
  `Calm` is long enough for both.

`BackendProofs` (any threads, files, subscriptions and publications, any
configuration events; `BackendAssumption`).  `BaseInv` has the types, what a thread
in each place of `store_file` may assume (`CallInv`) and that lists hold only
objects older than the next one made (`OldInv`).

* `NothingIsHandedOverTwice`: what is done and what lies ahead of the loop's position
  are disjoint (`NotTwiceInv`).  Removal moves elements to the front, hence out
  of what is ahead and never back into it.
* `EverySubscriptionIsServed`, `RefusalsAreJustified`: while no subscription is
  removed, each one that was there at the start and wants the file is done, in hand or
  ahead (`CoverInv`).  `EveryPublicationIsServed` is the same for `publish`
  (`PublishInv`): where a filter raises, what lay ahead of the position becomes `pskipped`.
* `DuplicatesAreCharged`: what was handed to a subscription without duplicates,
  plus the calls that may still hand it over, never exceeds the number of
  acceptances (`CreditInv`).

`SftpSenderProofs` (any threads, files, options and directories; `SenderAssumption`):

* `WhatReturnedArrived`: a file is sent once and by one thread (`OwnInv`), and
  `UploadInv` says for each place in `send` what of it is on the server.  Sharing the
  session can move the directory, and hence where a file ends up, but not that.
* `AloneSendIsTrue`, `KeptSessionIsWithinLimit`: `AloneInv`, `LiveInv` and `PlaceInv`
  say of a send that met no other what session it is on and what directory that is in
  between every two requests; `CountInv` relates the counter to what the session
  carried.

`SftpSenderProofs`, on `ParallelSender` (any callers, items and queue size;
`ParallelSenderAssumption`):

* `CopiesStayWhileNeeded`: `LinePlaces` ties each fate of an item to the one place it
  then is in (a caller's hand, the queue once, the worker), so that a copy can be
  neither queued twice nor closed while it waits.  `CopyOpenWhileNeeded` is inductive
  on top of it.
* `LineKeepsContract`: the safety part of `ImplementsContract`.  `CopyFails`,
  `Enqueue`, `Take`, `Forward` and `StopQueue` are steps of the contract; `CopyFile` and the
  rest of the worker and of `stop()` stutter.  `LineStop` is needed for it: the line is shut
  exactly from `StopQueue` on.

`RegistryProofs` (any files and contents; `RegistryAssumption`):

* `ManagersAreTrue`: each object belongs to one file (`SerialInv`) and so does its
  name as long as names never clashed (`NameInv`).
* `FilesAreFollowed`: the last event of a file tells whether it is there
  (`EventInv`), and a file nobody has yet to look at is followed (`FollowInv`), both but for
  `missed`.  A file leaves `missed` only with an event of its own, so that a move that is
  not told of excuses the file until the next change of it that is.

`StatisticsProofs` (any threads, sources, times, ages, days and zones;
`StatisticsAssumption`):

* `CounterNeverOvercounts`: `Types` and `CallInv`, what a thread in each place of
  `increment` has read: never more than what is committed, and a row that exists
  stays.  Committing writes at most one more than was read, while
  `committed` grows by exactly one.
* `CounterExactUnlessOverlap` adds `AloneInv`: for a source that was never counted
  by two threads at once, what the one thread read still is the counter.
  `CountersAreTrue` is both, the property of the run.
* `CleanupTakesOnlyOldEntries`: only `Cleanup` removes entries, and what it removes
  is before a time that, cut to whole minutes, is not after `now - Age`.
* `QueriesTellTruth`: every entry is that of a file that arrived and none of one that
  arrived within `Age` is missing (`EntriesInv`); no source has two files at one
  moment (`ArrivedInv`), so that entries and files match one to one and counting
  either gives the same number.

`RotatingStorageProofs` (any threads, items and `number_of_files`;
`RotatingAssumption`):

* `FolderStaysBounded`: one thread trims at a time (`LockInv`), what is left of its
  listing is in the folder (`ListingInv`), and what came after the listing belongs to
  a thread that has yet to trim or was left by a call that failed (`LaterInv`); so the
  folder never exceeds `Room` by more than the files not yet trimmed for (`Untrimmed`,
  `BoundInv`).  A trimming that ends well leaves only the debris
  that came after its listing.
* `NewestAreKept`: while calls do not overlap the folder is described by a
  `Chronicle`, a sequence of its paths with ascending times that holds the last files
  stored.  A sorted listing is that sequence: the place of a path is the number of
  paths that are not newer.  With calls that failed it is longer by at most the debris.

Two of these proofs changed what was claimed: an invariant that no run on its
instance contradicted could not be proved, and a larger instance showed why.  Both
conditions are in the properties now, and both instances in the runs: `Adrift` of
`SftpSender`, and `NoneEarly` with limits below a day of `Statistics`.  A third one
sharpened a claim: `WatchHandsOverOnceAndWhole` allowed a file that is handed over twice to be
still written, and the proof shows that it was closed while the folder was watched.

Left to TLC:

* Liveness and the fair parts of the three `ImplementsContract` (`CirculationEnds`,
  `WatchedFilesLeave`, both `StopTerminates`), which need fairness and ENABLED.
* `AnswersTellTruth`, `SignedIsHeard`, `SourceIsBestMatch`, `NothingDemandedIsMissing` and
  `OneNameOneInterval` of `Reception`: filters are trees and templates nested, so that
  `Filters` and `Naming` are RECURSIVE operators, which the prover does not take;
  what they compute for every input would need induction over those data.
* That the networks of the run meet `NetworkAssumption`, like every other named
  assumption: TLC evaluates it at the start of the run.

## 7. Not modelled

* *Start-up programs and property files* (server_main.py, zmq_main.py, client_main.py,
  config_main.py, config.py, exchange_optparse.py): they run once and keep no state.
* *Option parsing and printed answers of the command line client*: the commands are
  modelled by the requests and files they make.
* *Cryptography, ODIM and HDF5 parsing, image software* (decorators/rave.py), the apscheduler
  timetable of the scheduled fetch, and the requests inside one ftp or scp transfer:
  external libraries; they hold, or end in any of the ways their callers tell apart.
* *Wording*: log texts, the regular expressions that find placeholders, strftime, the parsing
  of addresses, `property_metadata_namer`, the layout of ZeroMQ frames, the statistics pages.
* *Compositions*: `Backend` takes the stop of a publication as one step between two of its
  own; a parallel connection inside a combined one (net/connections.py:293) has no `stop`, and its
  workers outlive it: no property says so.  Files that arrive before `max_content_length`
  is set (server/backend.py:498) are not limited; the window is a few instructions of start-up.
  `processor_manager.process` is one step of `Backend`, so that the monitor cannot change the
  dictionary it goes through (processor/processors.py:124).
