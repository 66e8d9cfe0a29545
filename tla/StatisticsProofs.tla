---------------------------- MODULE StatisticsProofs ----------------------------
(***************************************************************************)
(* Statistics for every number of threads, sources and files: what a       *)
(* read-modify-write guarantees although it is not atomic, what cleanup    *)
(* leaves in place, and what the answers to queries are worth.             *)
(***************************************************************************)
EXTENDS Statistics, FiniteSetTheorems, TLAPS

Places == {"idle", "query", "merge", "insert", "update", "add"}

Types ==
  /\ counter \in [Sources -> Nat]
  /\ pc \in [Threads -> Places]
  /\ source \in [Threads -> Sources \cup {NoSource}]
  /\ read \in [Threads -> Nat]
  /\ committed \in [Sources -> Nat]
  /\ overlap \subseteq Sources

(* What a thread knows of its call.  The counter may have fallen below     *)
(* what it read; the number of calls that succeeded has not.               *)
CallInv ==
  \A t \in Threads :
    /\ source[t] = NoSource <=> pc[t] = "idle"
    /\ pc[t] \in {"idle", "query"} => read[t] = 0
    /\ pc[t] # "idle" => read[t] <= committed[source[t]]

(* A thread that has been alone with its source since it began has read    *)
(* the counter as it still is.                                             *)
AloneInv ==
  \A t \in Threads : pc[t] # "idle" /\ source[t] \notin overlap =>
    /\ \A u \in Threads : source[u] = source[t] => u = t
    /\ pc[t] \in {"merge", "insert", "update"} => read[t] = counter[source[t]]

IInv == Types /\ CallInv /\ AloneInv /\ NeverOvercounts /\ ExactUnlessOverlap

LEMMA InitIInv == Init => IInv
BY StatisticsAssumption
DEF Init, IInv, Types, Places, CallInv, AloneInv, NeverOvercounts, ExactUnlessOverlap

(* The clock and the cleanup runner leave the counters alone. *)
OtherStep ==
  Tick \/ Run \/ TimeIsUp \/ StopRunning \/ Stop \/ UNCHANGED vars

LEMMA OtherStepsDoNotCount == OtherStep => UNCHANGED counting
BY DEF OtherStep, Tick, Run, Test, Cleanup, CleanupRaises, Wake, TimeIsUp,
       StopRunning, Stop, StopSet, StopJoin, counting, vars

LEMMA NextTypes == IInv /\ [Next]_vars => Types'
<1> SUFFICES ASSUME IInv, [Next]_vars PROVE Types'
  OBVIOUS
<1> USE StatisticsAssumption DEF IInv, Types, Places, GoTo
<1>1. ASSUME NEW t \in Threads, NEW s \in Sources, NEW d \in Offsets, Call(t, s, d)
      PROVE Types'
  BY <1>1 DEF Call
<1>2. ASSUME NEW t \in Threads, Query(t) PROVE Types'
  BY <1>2 DEF Query, Row, CallInv
<1>3. ASSUME NEW t \in Threads, Merge(t) PROVE Types'
  BY <1>3 DEF Merge
<1>4. ASSUME NEW t \in Threads, Commit(t) PROVE Types'
  BY <1>4 DEF Commit, Sum, CallInv
<1>5. ASSUME NEW t \in Threads, Fail(t) PROVE Types'
  BY <1>5 DEF Fail
<1>6. ASSUME NEW t \in Threads, Add(t) \/ AddFails(t) PROVE Types'
  BY <1>6 DEF Add, AddFails, Returned
<1>7. CASE OtherStep
  BY <1>7, OtherStepsDoNotCount DEF counting
<1> QED
  BY <1>1, <1>2, <1>3, <1>4, <1>5, <1>6, <1>7 DEF Next, Increment, OtherStep

LEMMA NextCallInv == IInv /\ [Next]_vars => CallInv'
<1> SUFFICES ASSUME IInv, [Next]_vars PROVE CallInv'
  OBVIOUS
<1> USE StatisticsAssumption DEF IInv, Types, Places, CallInv, GoTo
<1>1. ASSUME NEW t \in Threads, NEW s \in Sources, NEW d \in Offsets, Call(t, s, d)
      PROVE CallInv'
  BY <1>1 DEF Call
<1>2. ASSUME NEW t \in Threads, Query(t) PROVE CallInv'
  BY <1>2 DEF Query, Row, NeverOvercounts
<1>3. ASSUME NEW t \in Threads, Merge(t) PROVE CallInv'
  BY <1>3 DEF Merge
<1>4. ASSUME NEW t \in Threads, Commit(t) PROVE CallInv'
  BY <1>4 DEF Commit
<1>5. ASSUME NEW t \in Threads, Fail(t) PROVE CallInv'
  BY <1>5 DEF Fail
<1>6. ASSUME NEW t \in Threads, Add(t) \/ AddFails(t) PROVE CallInv'
  BY <1>6 DEF Add, AddFails, Returned
<1>7. CASE OtherStep
  BY <1>7, OtherStepsDoNotCount DEF counting
<1> QED
  BY <1>1, <1>2, <1>3, <1>4, <1>5, <1>6, <1>7 DEF Next, Increment, OtherStep

(* A call for the source of another thread puts that source into overlap.  *)
LEMMA NextAloneInv == IInv /\ [Next]_vars => AloneInv'
<1> SUFFICES ASSUME IInv, [Next]_vars PROVE AloneInv'
  OBVIOUS
<1> USE StatisticsAssumption DEF IInv, Types, Places, CallInv, AloneInv, GoTo
<1>1. ASSUME NEW t \in Threads, NEW s \in Sources, NEW d \in Offsets, Call(t, s, d)
      PROVE AloneInv'
  BY <1>1 DEF Call
<1>2. ASSUME NEW t \in Threads, Query(t) PROVE AloneInv'
  BY <1>2 DEF Query, Row
<1>3. ASSUME NEW t \in Threads, Merge(t) PROVE AloneInv'
  BY <1>3 DEF Merge, Row
<1>4. ASSUME NEW t \in Threads, Commit(t) PROVE AloneInv'
  BY <1>4 DEF Commit
<1>5. ASSUME NEW t \in Threads, Fail(t) PROVE AloneInv'
  BY <1>5 DEF Fail
<1>6. ASSUME NEW t \in Threads, Add(t) \/ AddFails(t) PROVE AloneInv'
  BY <1>6 DEF Add, AddFails, Returned
<1>7. CASE OtherStep
  BY <1>7, OtherStepsDoNotCount DEF counting
<1> QED
  BY <1>1, <1>2, <1>3, <1>4, <1>5, <1>6, <1>7 DEF Next, Increment, OtherStep

(* Only Commit changes a counter: it writes one more than was read.        *)
LEMMA NextCounts ==
  IInv /\ [Next]_vars => NeverOvercounts' /\ ExactUnlessOverlap'
<1> SUFFICES ASSUME IInv, [Next]_vars PROVE NeverOvercounts' /\ ExactUnlessOverlap'
  OBVIOUS
<1> USE DEF IInv, Types, Places
<1>1. ASSUME NEW t \in Threads, Commit(t) PROVE NeverOvercounts' /\ ExactUnlessOverlap'
  <2> DEFINE s == source[t]
  <2>1. s \in Sources /\ pc[t] \in {"insert", "update"}
    BY <1>1, StatisticsAssumption DEF Commit, CallInv
  <2>2. /\ counter' = [counter EXCEPT ![s] = read[t] + 1]
        /\ committed' = [committed EXCEPT ![s] = @ + 1]
        /\ overlap' = overlap
    BY <1>1 DEF Commit, Sum
  <2>3. read[t] <= committed[s]
    BY <2>1 DEF CallInv
  <2>4. NeverOvercounts'
    BY <2>1, <2>2, <2>3 DEF NeverOvercounts
  <2>5. s \notin overlap => read[t] = counter[s]
    BY <2>1 DEF AloneInv
  <2>6. ExactUnlessOverlap'
    BY <2>1, <2>2, <2>5 DEF ExactUnlessOverlap
  <2> QED
    BY <2>4, <2>6
<1>2. ASSUME UNCHANGED <<counter, committed>>, overlap \subseteq overlap'
      PROVE NeverOvercounts' /\ ExactUnlessOverlap'
  BY <1>2 DEF NeverOvercounts, ExactUnlessOverlap
<1>3. ASSUME NEW t \in Threads, NEW s \in Sources, NEW d \in Offsets, Call(t, s, d)
      PROVE UNCHANGED <<counter, committed>> /\ overlap \subseteq overlap'
  BY <1>3 DEF Call
<1>4. ASSUME NEW t \in Threads, Query(t) \/ Merge(t) \/ Fail(t) \/ Add(t) \/ AddFails(t)
      PROVE UNCHANGED <<counter, committed>> /\ overlap \subseteq overlap'
  BY <1>4 DEF Query, Merge, Fail, Add, AddFails, Returned
<1>5. CASE OtherStep
  BY <1>5, <1>2, OtherStepsDoNotCount DEF counting
<1> QED
  BY <1>1, <1>2, <1>3, <1>4, <1>5 DEF Next, Increment, OtherStep

LEMMA CounterIInv == Spec => []IInv
<1>1. IInv /\ [Next]_vars => IInv'
  BY NextTypes, NextCallInv, NextAloneInv, NextCounts DEF IInv
<1> QED
  BY InitIInv, <1>1, PTL DEF Spec

(* However many sessions overlap, a counter of exchange_statistics never   *)
(* runs ahead of the increments that succeeded.                            *)
THEOREM CounterNeverOvercounts == Spec => []NeverOvercounts
<1>1. IInv => NeverOvercounts
  BY DEF IInv
<1> QED
  BY CounterIInv, <1>1, PTL

(* A counter for which no two calls of increment ever overlapped is exact, *)
(* whatever happens to other counters and whichever calls fail.            *)
THEOREM CounterExactUnlessOverlap == Spec => []ExactUnlessOverlap
<1>1. IInv => ExactUnlessOverlap
  BY DEF IInv
<1> QED
  BY CounterIInv, <1>1, PTL

(* Both together, for every number of threads and sources (increment of    *)
(* statistics.py, increment_statistics of sqldatabase.py).                 *)
THEOREM CountersAreTrue == Spec => []CountersTellTruth
BY CounterNeverOvercounts, CounterExactUnlessOverlap, PTL DEF CountersTellTruth

----------------------------------------------------------------------------
(* Cleanup is the only step that takes an entry away, and it takes what is *)
(* older than a whole minute that began no later than now - Age.           *)
LEMMA TooOldIsOlder ==
  ASSUME NEW e, e.entrytime \in Int, now \in Int, Zone <= 0, TooOld(e)
  PROVE  e.entrytime < now - Age
<1> DEFINE x == now + Zone - Age
<1>1. x \in Int /\ x <= now - Age
  BY StatisticsAssumption
<1>2. (x \div Minute) * Minute <= x
  BY <1>1, StatisticsAssumption
<1> QED
  BY <1>1, <1>2, StatisticsAssumption DEF TooOld

TimesInv == now \in Int /\ \A e \in entries : e.entrytime \in Int

LEMMA TimesAreNumbers == Spec => []TimesInv
<1>1. Init => TimesInv
  BY StatisticsAssumption DEF Init, TimesInv
<1>2. TimesInv /\ [Next]_vars => TimesInv'
  <2> SUFFICES ASSUME TimesInv, [Next]_vars PROVE TimesInv'
    OBVIOUS
  <2> USE DEF TimesInv
  <2>1. CASE Tick
    BY <2>1 DEF Tick, table
  <2>2. ASSUME NEW t \in Threads, Add(t) PROVE TimesInv'
    BY <2>2 DEF Add, Returned, Entry
  <2>3. CASE Cleanup
    BY <2>3 DEF Cleanup
  <2>4. ASSUME UNCHANGED <<now, entries>> PROVE TimesInv'
    BY <2>4
  <2>5. ASSUME NEW t \in Threads,
               \/ Query(t) \/ Merge(t) \/ Commit(t) \/ Fail(t) \/ AddFails(t)
               \/ \E s \in Sources, d \in Offsets : Call(t, s, d)
        PROVE UNCHANGED <<now, entries>>
    BY <2>5 DEF Query, Merge, Commit, Fail, AddFails, Returned, Call, table
  <2>6. CASE \/ Test \/ CleanupRaises \/ Wake \/ TimeIsUp \/ StopRunning \/ Stop
             \/ UNCHANGED vars
    BY <2>6, <2>4 DEF Test, CleanupRaises, Wake, TimeIsUp, StopRunning, Stop,
                      StopSet, StopJoin, table, vars
  <2> QED
    BY <2>1, <2>2, <2>3, <2>4, <2>5, <2>6 DEF Next, Increment, Run
<1> QED
  BY <1>1, <1>2, PTL DEF Spec

(* Nothing but what is older than Age is ever removed from                 *)
(* exchange_statentry where the local time is not ahead of UTC, for every  *)
(* age and however cleanup and the additions interleave.                   *)
THEOREM CleanupTakesOnlyOldEntries == Spec => OnlyOldEntriesRemoved
<1> DEFINE A == Zone <= 0 => \A e \in entries \ entries' : e.entrytime < now - Age
<1>1. TimesInv /\ [Next]_vars => [A]_vars
  <2> SUFFICES ASSUME TimesInv, Next, Zone <= 0, NEW e \in entries \ entries'
               PROVE  e.entrytime < now - Age
    OBVIOUS
  <2>1. CASE Cleanup
    BY <2>1, TooOldIsOlder DEF Cleanup, TimesInv
  <2>2. CASE Tick
    BY <2>2 DEF Tick, table
  <2>3. ASSUME NEW t \in Threads, Increment(t) PROVE FALSE
    BY <2>3 DEF Increment, Query, Merge, Commit, Fail, Add, AddFails, Returned, table
  <2>4. ASSUME NEW t \in Threads, NEW s \in Sources, NEW d \in Offsets, Call(t, s, d)
        PROVE FALSE
    BY <2>4 DEF Call, table
  <2>5. CASE Test \/ CleanupRaises \/ Wake \/ TimeIsUp \/ StopRunning \/ Stop
    BY <2>5 DEF Test, CleanupRaises, Wake, TimeIsUp, StopRunning, Stop,
                StopSet, StopJoin, table
  <2> QED
    BY <2>1, <2>2, <2>3, <2>4, <2>5 DEF Next, Run
<1> QED
  BY TimesAreNumbers, <1>1, PTL DEF Spec, OnlyOldEntriesRemoved

----------------------------------------------------------------------------
(* The queries see the files that arrived through their entries.           *)

Mark(a) ==
  [source |-> a.source, datetime |-> a.datetime, entrytime |-> a.entrytime,
   delay |-> a.delay % Day]

(* The files that arrived: never two of a source at one moment, because    *)
(* the table refuses the second entry while the first one is still there.  *)
ArrivedInv ==
  /\ now \in Int /\ nominal \in [Threads -> Int]
  /\ IsFiniteSet(arrived)
  /\ arrived \subseteq [source : Sources, datetime : Int, entrytime : Int, delay : Int]
  /\ \A a \in arrived : a.entrytime <= now /\ a.delay = a.entrytime - a.datetime
  /\ \A a, b \in arrived : a.source = b.source /\ a.entrytime = b.entrytime => a = b

(* Every entry is that of a file that arrived, and none of a file that     *)
(* arrived within Age is missing.                                          *)
EntriesInv ==
  /\ \A e \in entries : \E a \in arrived : e = Mark(a)
  /\ \A a \in arrived : a.entrytime >= now - Age => Mark(a) \in entries

QueryInv == ArrivedInv /\ EntriesInv

LEMMA InitQueryInv == Init => QueryInv
BY StatisticsAssumption, FS_EmptySet DEF Init, QueryInv, ArrivedInv, EntriesInv

LEMMA AddKeepsQueryInv ==
  ASSUME IInv, QueryInv, NEW t \in Threads, Add(t)
  PROVE  QueryInv'
<1> USE StatisticsAssumption DEF QueryInv
<1> DEFINE a == [source |-> source[t], datetime |-> nominal[t], entrytime |-> now,
                 delay |-> now - nominal[t]]
<1>1. source[t] \in Sources /\ nominal[t] \in Int /\ now \in Int
  BY DEF IInv, Types, CallInv, ArrivedInv, Add
<1>2. a \in [source : Sources, datetime : Int, entrytime : Int, delay : Int]
  BY <1>1
<1>3. /\ arrived' = arrived \cup {a} /\ entries' = entries \cup {Mark(a)}
      /\ now' = now /\ nominal' = [nominal EXCEPT ![t] = Start]
  BY DEF Add, Returned, Entry, Mark
<1>4. ASSUME NEW b \in arrived, b.source = source[t] PROVE b.entrytime # now
  <2>1. ASSUME b.entrytime = now PROVE Mark(b) \in entries
    BY <1>1, <2>1 DEF EntriesInv
  <2>2. Mark(b).source = source[t] /\ Mark(b).entrytime = b.entrytime
    BY <1>4 DEF Mark
  <2> QED
    BY <2>1, <2>2 DEF Add
<1>5. a.source = source[t] /\ a.entrytime = now /\ a.delay = a.entrytime - a.datetime
  OBVIOUS
<1> HIDE DEF a
<1>6. IsFiniteSet(arrived')
  BY <1>3, FS_AddElement DEF ArrivedInv
<1>7. ArrivedInv'
  BY <1>1, <1>2, <1>3, <1>4, <1>5, <1>6 DEF ArrivedInv
<1>8. EntriesInv'
  BY <1>1, <1>3, <1>5 DEF EntriesInv, Mark
<1> QED
  BY <1>7, <1>8

LEMMA NextQueryInv ==
  ASSUME IInv, QueryInv, Zone <= 0, [Next]_vars
  PROVE  QueryInv'
<1> USE StatisticsAssumption DEF QueryInv, ArrivedInv, EntriesInv
<1>1. CASE Tick
  <2>1. UNCHANGED <<nominal, arrived, entries>> /\ now' = now + 1
    BY <1>1 DEF Tick, counting, table
  <2> QED
    BY <2>1 DEF Mark
<1>2. ASSUME NEW t \in Threads, NEW s \in Sources, NEW d \in Offsets, Call(t, s, d)
      PROVE QueryInv'
  <2>1. UNCHANGED <<now, arrived, entries>> /\ nominal' = [nominal EXCEPT ![t] = now - d]
    BY <1>2 DEF Call, table
  <2> QED
    BY <2>1 DEF Mark
<1>3. ASSUME NEW t \in Threads, Add(t) PROVE QueryInv'
  BY <1>3, AddKeepsQueryInv
<1>4. ASSUME NEW t \in Threads, AddFails(t) PROVE QueryInv'
  <2>1. UNCHANGED <<now, arrived, entries>> /\ nominal' = [nominal EXCEPT ![t] = Start]
    BY <1>4 DEF AddFails, Returned, table
  <2> QED
    BY <2>1 DEF Mark
<1>5. CASE Cleanup
  <2>1. UNCHANGED <<now, arrived, nominal>> /\ entries' = {e \in entries : ~TooOld(e)}
    BY <1>5 DEF Cleanup, counting
  <2>2. ASSUME NEW a \in arrived, a.entrytime >= now - Age PROVE ~TooOld(Mark(a))
    <3>1. Mark(a).entrytime = a.entrytime /\ a.entrytime \in Int
      BY DEF Mark
    <3> QED
      BY <2>2, <3>1, Zone <= 0, TooOldIsOlder
  <2> QED
    BY <2>1, <2>2 DEF Mark
<1>6. ASSUME UNCHANGED <<now, nominal, arrived, entries>> PROVE QueryInv'
  BY <1>6 DEF Mark
<1>7. ASSUME NEW t \in Threads, Query(t) \/ Merge(t) \/ Commit(t) \/ Fail(t)
      PROVE UNCHANGED <<now, nominal, arrived, entries>>
  BY <1>7 DEF Query, Merge, Commit, Fail, table
<1>8. CASE \/ Test \/ CleanupRaises \/ Wake \/ TimeIsUp \/ StopRunning \/ Stop
           \/ UNCHANGED vars
  BY <1>8, <1>6 DEF Test, CleanupRaises, Wake, TimeIsUp, StopRunning, Stop,
                    StopSet, StopJoin, counting, table, vars
<1> QED
  BY <1>1, <1>2, <1>3, <1>4, <1>5, <1>6, <1>7, <1>8 DEF Next, Increment, Run

(* What the three criteria of supervise leave of the entries. *)
LEMMA CriteriaSelect ==
  ASSUME NEW s, NEW limit \in Int, NEW entrylimit \in Int, NEW delay \in Int
  PROVE  GetStatisticsEntries([sources |-> s, filter |-> Criteria(limit, entrylimit, delay)])
           = {e \in entries :
                /\ e.source = s
                /\ e.datetime >= now - limit
                /\ entrylimit > 0 => e.entrytime >= now - entrylimit
                /\ delay > 0 => e.delay <= delay}
<1> DEFINE filters == Criteria(limit, entrylimit, delay)
           q == [sources |-> s, filter |-> filters]
<1>1. "filter" \in DOMAIN q /\ q.filter = filters /\ q.sources = s
  OBVIOUS
<1>2. GetStatisticsEntries(q) = Filtered(s, filters)
  BY <1>1 DEF GetStatisticsEntries
<1>3. ASSUME NEW e
      PROVE (\A c \in filters : Holds(e, c)) <=>
              /\ e.datetime >= now - limit
              /\ entrylimit > 0 => e.entrytime >= now - entrylimit
              /\ delay > 0 => e.delay <= delay
  <2> DEFINE nominalAge == [name |-> "datetime", op |-> ">=", value |-> now - limit]
             entryAge == [name |-> "entrytime", op |-> ">=", value |-> now - entrylimit]
             late == [name |-> "delay", op |-> "<=", value |-> delay]
  <2>1. Holds(e, nominalAge) <=> e.datetime >= now - limit
    BY DEF Holds
  <2>2. Holds(e, entryAge) <=> e.entrytime >= now - entrylimit
    BY DEF Holds
  <2>3. Holds(e, late) <=> e.delay <= delay
    BY DEF Holds
  <2>4. filters = {nominalAge} \cup (IF entrylimit > 0 THEN {entryAge} ELSE {})
                    \cup (IF delay > 0 THEN {late} ELSE {})
    BY DEF Criteria
  <2> HIDE DEF nominalAge, entryAge, late, filters
  <2>5. (\A c \in filters : Holds(e, c)) <=>
          /\ Holds(e, nominalAge)
          /\ entrylimit > 0 => Holds(e, entryAge)
          /\ delay > 0 => Holds(e, late)
    BY <2>4
  <2> QED
    BY <2>1, <2>2, <2>3, <2>5
<1> HIDE DEF filters
<1>4. Filtered(s, filters) =
        {e \in entries :
           /\ e.source = s
           /\ e.datetime >= now - limit
           /\ entrylimit > 0 => e.entrytime >= now - entrylimit
           /\ delay > 0 => e.delay <= delay}
  BY <1>3 DEF Filtered
<1> QED
  BY <1>2, <1>4 DEF filters

(* The entry of a file that was not early, for a limit within Age, is there*)
(* and tells its delay, if the limit is within a day.                      *)
LEMMA MarkIsThere ==
  ASSUME QueryInv, NEW limit \in 0..Age, NEW a \in arrived,
         a.delay >= 0, a.datetime >= now - limit
  PROVE  /\ Mark(a) \in entries
         /\ Mark(a).source = a.source /\ Mark(a).datetime = a.datetime
         /\ Mark(a).entrytime = a.entrytime
         /\ limit < Day => Mark(a).delay = a.delay
<1>1. /\ a.datetime \in Int /\ a.entrytime \in Int /\ a.delay \in Int /\ now \in Int
      /\ a.delay = a.entrytime - a.datetime /\ a.entrytime <= now
  BY DEF QueryInv, ArrivedInv
<1>2. a.entrytime >= now - Age /\ a.delay <= limit
  BY <1>1, StatisticsAssumption
<1>3. Mark(a) \in entries
  BY <1>2 DEF QueryInv, EntriesInv
<1>4. \A n \in Nat : n < Day => n % Day = n
  BY StatisticsAssumption
<1>5. limit < Day => a.delay % Day = a.delay
  BY <1>1, <1>2, <1>4, StatisticsAssumption
<1> QED
  BY <1>3, <1>5 DEF Mark

(* The entries that supervise counts are those of the files it is about,   *)
(* one for one.                                                            *)
LEMMA OneEntryForEach ==
  ASSUME QueryInv, NEW s \in Sources, NoneEarly(s),
         NEW limit \in 0..Age, NEW entrylimit \in 0..Age, NEW delay \in 0..Age,
         delay = 0 \/ limit < Day
  PROVE  Cardinality(GetStatisticsEntries(
           [sources |-> s, filter |-> Criteria(limit, entrylimit, delay)]))
           = Cardinality(Within(s, limit, entrylimit, delay))
<1> DEFINE A == Within(s, limit, entrylimit, delay)
           E == {e \in entries :
                   /\ e.source = s
                   /\ e.datetime >= now - limit
                   /\ entrylimit > 0 => e.entrytime >= now - entrylimit
                   /\ delay > 0 => e.delay <= delay}
           f == [a \in A |-> Mark(a)]
<1>1. GetStatisticsEntries([sources |-> s, filter |-> Criteria(limit, entrylimit, delay)]) = E
  BY CriteriaSelect, StatisticsAssumption
<1>2. A \subseteq arrived /\ IsFiniteSet(A)
  BY FS_Subset DEF Within, QueryInv, ArrivedInv
<1>3. ASSUME NEW a \in arrived, a.source = s, a.datetime >= now - limit
      PROVE /\ Mark(a) \in entries
            /\ Mark(a).source = a.source /\ Mark(a).datetime = a.datetime
            /\ Mark(a).entrytime = a.entrytime
            /\ limit < Day => Mark(a).delay = a.delay
  BY <1>3, MarkIsThere DEF NoneEarly
<1>4. ASSUME NEW a \in A PROVE Mark(a) \in E
  BY <1>3, <1>4 DEF Within
<1>5. ASSUME NEW a \in A, NEW b \in A, Mark(a) = Mark(b) PROVE a = b
  BY <1>3, <1>5 DEF Within, QueryInv, ArrivedInv
<1>6. ASSUME NEW e \in E PROVE \E a \in A : Mark(a) = e
  <2>1. PICK a \in arrived : e = Mark(a)
    BY DEF QueryInv, EntriesInv
  <2>2. e.source = a.source /\ e.datetime = a.datetime
    BY <2>1 DEF Mark
  <2> QED
    BY <1>3, <2>1, <2>2 DEF Within
<1> HIDE DEF A, E
<1>7. f \in [A -> E] /\ \A a \in A : f[a] = Mark(a)
  BY <1>4
<1> HIDE DEF f
<1>8. f \in Bijection(A, E)
  BY <1>5, <1>6, <1>7 DEF Bijection, Injection, Surjection, IsInjective
<1>9. Cardinality(E) = Cardinality(A)
  BY <1>2, <1>8, FS_Bijection DEF ExistsBijection
<1> QED
  BY <1>1, <1>9 DEF A

LEMMA QueriesAreRight ==
  ASSUME QueryInv
  PROVE  SuperviseTellsTruth
<1> SUFFICES ASSUME NEW s \in Sources, NEW limit \in 0..Age, NEW entrylimit \in 0..Age,
                    NEW delay \in 0..Age, NEW count \in 0..2, NoneEarly(s)
             PROVE
      /\ (\E a \in arrived : a.source = s /\ a.datetime >= now - limit)
           => FileArrival(s, limit)
      /\ delay = 0 \/ limit < Day =>
           (Supervise(s, limit, entrylimit, delay, count)
              <=> Cardinality(Within(s, limit, entrylimit, delay))
                    >= (IF count = 0 THEN 1 ELSE count))
  BY DEF SuperviseTellsTruth
<1>1. ASSUME NEW a \in arrived, a.source = s, a.datetime >= now - limit
      PROVE FileArrival(s, limit)
  <2>1. Mark(a) \in entries /\ Mark(a).source = s
    BY <1>1, MarkIsThere DEF NoneEarly
  <2> DEFINE q == [sources |-> s,
       dtfilter |-> {[name |-> "datetime", op |-> ">=", value |-> now - limit]}]
  <2>2. "filter" \notin DOMAIN q /\ q.sources = s
    OBVIOUS
  <2>3. Mark(a) \in GetStatisticsEntries(q)
    BY <2>1, <2>2 DEF GetStatisticsEntries, Filtered
  <2> QED
    BY <2>3 DEF FileArrival
<1>2. ASSUME delay = 0 \/ limit < Day
      PROVE Supervise(s, limit, entrylimit, delay, count)
              <=> Cardinality(Within(s, limit, entrylimit, delay))
                    >= (IF count = 0 THEN 1 ELSE count)
  BY <1>2, OneEntryForEach DEF Supervise, Wanted
<1> QED
  BY <1>1, <1>2

(* Cleaning up, failing sessions and additions in any order never make     *)
(* supervise wrong about limits within the age that is kept, nor make      *)
(* file_arrival miss a file, for every age and set of sources.             *)
THEOREM QueriesTellTruth == Spec => []SuperviseTellsTruth
<1> DEFINE Kept == Zone <= 0 => QueryInv
<1>1. Init => Kept
  BY InitQueryInv
<1>2. IInv /\ Kept /\ [Next]_vars => Kept'
  BY NextQueryInv
<1>3. Kept => SuperviseTellsTruth
  BY QueriesAreRight DEF SuperviseTellsTruth
<1> QED
  BY CounterIInv, <1>1, <1>2, <1>3, PTL DEF Spec
=============================================================================
