----------------------------- MODULE BackendProofs -----------------------------
(***************************************************************************)
(* Backend, for every number of threads, files, subscriptions and          *)
(* publications, every relation between them and any sequence of           *)
(* configuration events.                                                   *)
(***************************************************************************)
EXTENDS Backend, SequenceTheorems, FiniteSetTheorems, TLAPS

Distinct(s) == \A i, j \in 1..Len(s) : s[i] = s[j] => i = j

(* list.remove: what is behind the element moves one place to the front. *)
LEMMA RemoveAtShifts ==
  ASSUME NEW S, NEW s \in Seq(S), NEW k \in 1..Len(s)
  PROVE  /\ RemoveAt(s, k) \in Seq(S)
         /\ Len(RemoveAt(s, k)) = Len(s) - 1
         /\ \A i \in 1..(Len(s) - 1) :
              RemoveAt(s, k)[i] = IF i < k THEN s[i] ELSE s[i + 1]
<1> DEFINE a == SubSeq(s, 1, k - 1)  b == SubSeq(s, k + 1, Len(s))
<1>1. Len(s) \in Nat
  OBVIOUS
<1>2. a \in Seq(S) /\ Len(a) = k - 1 /\ \A i \in 1..(k - 1) : a[i] = s[i]
  BY <1>1
<1>3. b \in Seq(S) /\ Len(b) = Len(s) - k /\ \A i \in 1..(Len(s) - k) : b[i] = s[k + i]
  BY <1>1
<1>4. RemoveAt(s, k) = a \o b
  BY DEF RemoveAt
<1> HIDE DEF a, b
<1>5. /\ a \o b \in Seq(S) /\ Len(a \o b) = Len(a) + Len(b)
      /\ \A i \in 1..(Len(a) + Len(b)) :
           (a \o b)[i] = IF i <= Len(a) THEN a[i] ELSE b[i - Len(a)]
  BY <1>2, <1>3, ConcatProperties
<1>6. Len(a) + Len(b) = Len(s) - 1
  BY <1>1, <1>2, <1>3
<1>7. ASSUME NEW i \in 1..(Len(s) - 1)
      PROVE  (a \o b)[i] = IF i < k THEN s[i] ELSE s[i + 1]
  <2>1. i \in 1..(Len(a) + Len(b))
    BY <1>6
  <2>2. (a \o b)[i] = IF i <= Len(a) THEN a[i] ELSE b[i - Len(a)]
    BY <1>5, <2>1
  <2>3. CASE i < k
    <3>1. i <= Len(a) /\ i \in 1..(k - 1)
      BY <1>1, <1>2, <2>3
    <3> QED
      BY <1>2, <2>2, <2>3, <3>1
  <2>4. CASE ~(i < k)
    <3>1. ~(i <= Len(a)) /\ i - Len(a) \in 1..(Len(s) - k) /\ k + (i - Len(a)) = i + 1
      BY <1>1, <1>2, <2>4
    <3> QED
      BY <1>3, <2>2, <2>4, <3>1
  <2> QED
    BY <2>3, <2>4
<1> QED
  BY <1>4, <1>5, <1>6, <1>7

(* In a list without repetitions there is one place to remove from. *)
LEMMA RemoveFirstIsRemoveAt ==
  ASSUME NEW S, NEW s \in Seq(S), Distinct(s), NEW k \in 1..Len(s)
  PROVE  RemoveFirst(s, s[k]) = RemoveAt(s, k)
<1>1. {i \in 1..Len(s) : s[i] = s[k]} = {k}
  BY DEF Distinct
<1>2. Min({k}) = k
  <2>1. \A y \in {k} : k <= y
    OBVIOUS
  <2> QED
    BY <2>1 DEF Min
<1>3. RemoveFirst(s, s[k]) = RemoveAt(s, SelectInSeq(s, LAMBDA v : v = s[k]))
  BY DEF RemoveFirst
<1>4. SelectInSeq(s, LAMBDA v : v = s[k]) = k
  BY <1>1, <1>2 DEF SelectInSeq
<1> QED
  BY <1>3, <1>4

LEMMA RemoveFirstShifts ==
  ASSUME NEW S, NEW s \in Seq(S), Distinct(s), NEW e
  PROVE  /\ RemoveFirst(s, e) \in Seq(S)
         /\ Distinct(RemoveFirst(s, e))
         /\ \A i \in 1..Len(RemoveFirst(s, e)) :
              \E j \in i..Len(s) : RemoveFirst(s, e)[i] = s[j]
<1>0. Len(s) \in Nat
  OBVIOUS
<1>1. CASE \E i \in 1..Len(s) : s[i] = e
  <2>1. PICK k \in 1..Len(s) : s[k] = e
    BY <1>1
  <2> DEFINE r == RemoveAt(s, k)
  <2>2. RemoveFirst(s, e) = r
    BY <2>1, RemoveFirstIsRemoveAt
  <2>3. /\ r \in Seq(S) /\ Len(r) = Len(s) - 1
        /\ \A i \in 1..(Len(s) - 1) : r[i] = IF i < k THEN s[i] ELSE s[i + 1]
    BY RemoveAtShifts
  <2> HIDE DEF r
  <2>4. ASSUME NEW i \in 1..Len(r) PROVE \E j \in i..Len(s) : r[i] = s[j]
    <3>1. i \in i..Len(s) /\ i + 1 \in i..Len(s)
      BY <1>0, <2>3
    <3> QED
      BY <2>3, <3>1
  <2>5. ASSUME NEW i \in 1..Len(r), NEW j \in 1..Len(r), r[i] = r[j] PROVE i = j
    BY <1>0, <2>3, <2>5 DEF Distinct
  <2> QED
    BY <2>2, <2>3, <2>4, <2>5 DEF Distinct
<1>2. CASE ~\E i \in 1..Len(s) : s[i] = e
  <2>1. RemoveFirst(s, e) = s
    BY <1>2 DEF RemoveFirst
  <2>2. \A i \in 1..Len(s) : i \in i..Len(s)
    BY <1>0
  <2> QED
    BY <2>1, <2>2
<1> QED
  BY <1>1, <1>2

LEMMA AppendGrows ==
  ASSUME NEW S, NEW s \in Seq(S), NEW x \in S
  PROVE  /\ Append(s, x) \in Seq(S) /\ Len(s) \in Nat
         /\ Len(Append(s, x)) = Len(s) + 1
         /\ \A i \in 1..Len(s) : Append(s, x)[i] = s[i]
         /\ Append(s, x)[Len(s) + 1] = x
OBVIOUS

LEMMA InList ==
  ASSUME NEW S, NEW s \in Seq(S)
  PROVE  \A x : x \in ToSet(s) <=> \E i \in 1..Len(s) : s[i] = x
BY DEF ToSet

LEMMA AppendDistinct ==
  ASSUME NEW S, NEW s \in Seq(S), NEW x \in S, Distinct(s), x \notin ToSet(s)
  PROVE  Distinct(Append(s, x))
<1>1. \A i \in 1..Len(s) : s[i] # x
  BY DEF ToSet
<1> QED
  BY <1>1, AppendGrows DEF Distinct

----------------------------------------------------------------------------
(* Types, and how far a call has come *)

Looping == {"loop", "store", "publish", "process"}
PCs == Looping \cup {"idle", "handled", "tolerate", "refused", "failed", "return"}

Jobs == [op : {"none", "add", "stop", "drop"}, conf : Confs \cup {"none"},
         object : Objects \cup {NoObject}, add : BOOLEAN]

ListTypes ==
  /\ subscriptions \in Seq(Objects) /\ Distinct(subscriptions)
  /\ publications \in Seq(Objects) /\ Distinct(publications)

MonitorTypes ==
  /\ current \in [Confs -> Objects \cup {NoObject}]
  /\ job \in Jobs /\ (job.op # "none" => job.conf \in Confs)
  /\ events \in 0..MaxEvents

CallTypes ==
  /\ pc \in [Threads -> PCs]
  /\ file \in [Threads -> Files \cup {NoHash}]
  /\ arg \in [Threads -> Files \cup {NoHash}]
  /\ answer \in [Threads -> {"none", "new", "duplicate"}]
  /\ dup \in [Threads -> BOOLEAN] /\ tolerated \in [Threads -> BOOLEAN]
  /\ pos \in [Threads -> Nat \ {0}] /\ ppos \in [Threads -> Nat \ {0}]
  /\ cur \in [Threads -> Objects \cup {NoObject}]

HistoryTypes ==
  /\ start \in [Threads -> SUBSET Objects] /\ done \in [Threads -> SUBSET Objects]
  /\ pstart \in [Threads -> SUBSET Objects] /\ pdone \in [Threads -> SUBSET Objects]
  /\ disturbed \in [Threads -> BOOLEAN] /\ pdisturbed \in [Threads -> BOOLEAN]
  /\ pskipped \in [Threads -> SUBSET Objects]

TallyTypes ==
  /\ count \in Nat
  /\ accepted \in [Files -> Nat]
  /\ handed \in [Files -> [Strict -> Nat]]

(* A thread is in the duplicate check exactly while it waits for its answer, *)
(* and only a subscription that may take a duplicate is given one.           *)
CallInv ==
  \A t \in Threads :
    /\ arg[t] # NoHash => pc[t] = "handled" /\ arg[t] = file[t]
    /\ answer[t] # "none" => pc[t] = "handled"
    /\ pc[t] # "idle" => file[t] \in Files
    /\ pc[t] = "idle" => start[t] = {}
    /\ pc[t] = "tolerate" => dup[t]
    /\ pc[t] = "store" => cur[t] \in Objects /\ (dup[t] => cur[t].conf \in AllowsDups)

TypeInv == ListTypes /\ MonitorTypes /\ CallTypes /\ HistoryTypes /\ TallyTypes

(* Whatever is, or was when a running loop began, in the lists is older than *)
(* the object that is added next.                                            *)
Fresh == IF job.op = "none" THEN events + 1 ELSE events
Old(S) == \A o \in S : o.version < Fresh

OldInv ==
  /\ Old(ToSet(subscriptions)) /\ Old(ToSet(publications))
  /\ \A t \in Threads :
       /\ Old(start[t]) /\ Old(done[t])
       /\ pc[t] = "store" => Old({cur[t]})

BaseInv == TypeInv /\ CallInv /\ OldInv

LEMMA InitBase == Init => BaseInv
<1> SUFFICES ASSUME Init PROVE BaseInv
  OBVIOUS
<1> USE BackendAssumption DEF Init
<1>1. \A f \in Confs : FirstOf(f) \in Objects
  BY DEF FirstOf, Objects
<1>2. ListTypes
  <2>1. \A q \in Seq(Confs) : [i \in 1..Len(q) |-> FirstOf(q[i])] \in Seq(Objects)
    BY <1>1
  <2>2. StartSubs \in Seq(Confs) /\ StartPubs \in Seq(Confs)
    BY DEF Confs
  <2>3. subscriptions \in Seq(Objects) /\ publications \in Seq(Objects)
    BY <2>1, <2>2
  <2>4. Distinct(subscriptions) /\ Distinct(publications)
    <3>1. \A f, g : FirstOf(f) = FirstOf(g) => f = g
      BY DEF FirstOf
    <3>2. /\ Len(subscriptions) = Len(StartSubs)
          /\ \A i \in 1..Len(StartSubs) : subscriptions[i] = FirstOf(StartSubs[i])
          /\ Len(publications) = Len(StartPubs)
          /\ \A i \in 1..Len(StartPubs) : publications[i] = FirstOf(StartPubs[i])
      BY <2>2
    <3> QED
      BY <3>1, <3>2 DEF Distinct
  <2> QED
    BY <2>3, <2>4 DEF ListTypes
<1>3. MonitorTypes
  <2>1. job \in Jobs /\ job.op = "none"
    BY DEF Idle, Jobs
  <2>2. current \in [Confs -> Objects \cup {NoObject}]
    BY <1>1
  <2> QED
    BY <2>1, <2>2 DEF MonitorTypes
<1>4. CallTypes
  BY DEF CallTypes, PCs, HandledFiles!Init
<1>5. HistoryTypes
  BY DEF HistoryTypes
<1>6. TallyTypes
  BY DEF TallyTypes, HandledFiles!Init
<1>7. CallInv
  BY DEF CallInv, HandledFiles!Init
<1>8. OldInv
  <2>1. Fresh = 1
    BY DEF Fresh, Idle
  <2>2. \A f : FirstOf(f).version = 0
    BY DEF FirstOf
  <2>3. \A q \in Seq(Confs) : \A i \in DOMAIN [j \in 1..Len(q) |-> FirstOf(q[j])] :
          [j \in 1..Len(q) |-> FirstOf(q[j])][i].version = 0
    BY <2>2
  <2>4. Old(ToSet(subscriptions)) /\ Old(ToSet(publications))
    <3>1. StartSubs \in Seq(Confs) /\ StartPubs \in Seq(Confs)
      BY DEF Confs
    <3>2. /\ \A i \in DOMAIN subscriptions : subscriptions[i].version = 0
          /\ \A i \in DOMAIN publications : publications[i].version = 0
      BY <2>3, <3>1
    <3> QED
      BY <2>1, <3>2 DEF Old, ToSet
  <2> QED
    BY <2>4 DEF OldInv, Old
<1> QED
  BY <1>2, <1>3, <1>4, <1>5, <1>6, <1>7, <1>8 DEF BaseInv, TypeInv

(* What the two kinds of actors leave alone. *)
LEMMA StoreFileFrame ==
  ASSUME NEW t \in Threads, StoreFile(t)
  PROVE  UNCHANGED lists /\ UNCHANGED monitor
BY DEF StoreFile, TurnAway, Arrive, AddHandled, IsNew, IsDuplicate, LookForTolerance,
       RaiseDuplicate, TolerateDuplicate, NextSubscription, HandOver, Process, EndLoop,
       PublishNext, PublishRaises, PublishEnds, Answer

LEMMA MonitorFrame ==
  ASSUME ConfMonitor
  PROVE  UNCHANGED <<window, call, tally>> /\ UNCHANGED <<start, done, pstart, pdone, pskipped>>
BY DEF ConfMonitor, Written, Deleted, RemoveSubscription, RemovePublication,
       StopPublication, DropPublication, AddConfiguration, AddFails, subHistory, pubHistory

(* The object that the monitor is about to add. *)
NewObject == [conf |-> job.conf, version |-> events]

LEMMA NewObjectType == BaseInv /\ job.op = "add" => NewObject \in Objects
BY DEF BaseInv, TypeInv, MonitorTypes, NewObject, Objects

LEMMA NewObjectIsNew ==
  ASSUME BaseInv, job.op = "add", NEW S, Old(S)
  PROVE  NewObject \notin S
<1>1. NewObject.version = Fresh /\ Fresh \in Nat
  BY DEF NewObject, Fresh, BaseInv, TypeInv, MonitorTypes
<1> QED
  BY <1>1 DEF Old

LEMMA NextListTypes ==
  ASSUME BaseInv, ConfMonitor
  PROVE  ListTypes'
<1> USE DEF BaseInv, TypeInv, ListTypes
<1>1. ASSUME UNCHANGED lists PROVE ListTypes'
  BY <1>1 DEF lists
<1>2. ASSUME NEW f, NEW add, RemoveSubscription(f, add) PROVE ListTypes'
  BY <1>2, RemoveFirstShifts DEF RemoveSubscription
<1>3. CASE DropPublication
  BY <1>3, RemoveFirstShifts DEF DropPublication
<1>4. CASE AddConfiguration
  <2>1. NewObject \in Objects /\ job.op = "add"
    BY <1>4, NewObjectType DEF AddConfiguration
  <2>2. /\ subscriptions' \in {subscriptions, Append(subscriptions, NewObject)}
        /\ publications' \in {publications, Append(publications, NewObject)}
    BY <1>4 DEF AddConfiguration, NewObject
  <2>3. \A s \in {subscriptions, publications} :
          Append(s, NewObject) \in Seq(Objects) /\ Distinct(Append(s, NewObject))
    BY <2>1, NewObjectIsNew, AppendGrows, AppendDistinct DEF OldInv
  <2> QED
    BY <2>2, <2>3
<1> QED
  BY <1>1, <1>2, <1>3, <1>4 DEF ConfMonitor, Written, Deleted, RemovePublication,
                               StopPublication, AddFails

LEMMA NextMonitorTypes == ASSUME BaseInv, ConfMonitor PROVE MonitorTypes'
<1> USE DEF BaseInv, TypeInv, MonitorTypes
<1>0. Idle \in Jobs /\ Idle.op = "none" /\ NoObject \in Objects \cup {NoObject}
  BY DEF Idle, Jobs
<1>1. ASSUME NEW f \in Confs, NEW add \in BOOLEAN,
             RemoveSubscription(f, add) \/ RemovePublication(f, add)
      PROVE  /\ current' \in [Confs -> Objects \cup {NoObject}]
             /\ job' \in Jobs /\ (job'.op # "none" => job'.conf \in Confs)
  <2>1. current' = [current EXCEPT ![f] = NoObject] /\ current[f] \in Objects
    BY <1>1 DEF RemoveSubscription, RemovePublication
  <2>2. \/ job' = [op |-> "add", conf |-> f, object |-> NoObject, add |-> FALSE]
        \/ job' = Idle
        \/ job' = [op |-> "stop", conf |-> f, object |-> current[f], add |-> add]
    BY <1>1 DEF RemoveSubscription, RemovePublication
  <2>3. current' \in [Confs -> Objects \cup {NoObject}]
    BY <1>0, <2>1
  <2>4. [op |-> "add", conf |-> f, object |-> NoObject, add |-> FALSE] \in Jobs
    BY <1>0 DEF Jobs
  <2>5. [op |-> "stop", conf |-> f, object |-> current[f], add |-> add] \in Jobs
    BY <2>1 DEF Jobs
  <2>6. CASE job' = [op |-> "add", conf |-> f, object |-> NoObject, add |-> FALSE]
    BY <2>3, <2>4, <2>6
  <2>7. CASE job' = Idle
    BY <1>0, <2>3, <2>7
  <2>8. CASE job' = [op |-> "stop", conf |-> f, object |-> current[f], add |-> add]
    BY <2>3, <2>5, <2>8
  <2> QED
    BY <2>2, <2>6, <2>7, <2>8
<1>2. ASSUME NEW f \in Confs, Written(f) PROVE MonitorTypes'
  <2>1. events' \in 0..MaxEvents
    BY <1>2, BackendAssumption DEF Written
  <2>2. CASE RemoveSubscription(f, TRUE) \/ RemovePublication(f, TRUE)
    BY <1>1, <2>1, <2>2
  <2>3. CASE UNCHANGED current /\ job' = [op |-> "add", conf |-> f, object |-> NoObject,
                                          add |-> FALSE]
    BY <1>0, <2>1, <2>3 DEF Jobs
  <2> QED
    BY <1>2, <2>2, <2>3 DEF Written
<1>3. ASSUME NEW f \in Confs, Deleted(f) PROVE MonitorTypes'
  <2>1. events' \in 0..MaxEvents
    BY <1>3, BackendAssumption DEF Deleted
  <2> QED
    BY <1>1, <1>3, <2>1 DEF Deleted
<1>4. CASE StopPublication
  BY <1>4 DEF StopPublication, Jobs
<1>5. CASE DropPublication
  BY <1>0, <1>5 DEF DropPublication, Jobs
<1>6. CASE AddConfiguration
  BY <1>0, <1>6, NewObjectType DEF AddConfiguration, NewObject
<1>7. CASE AddFails
  BY <1>0, <1>7 DEF AddFails
<1> QED
  BY <1>2, <1>3, <1>4, <1>5, <1>6, <1>7 DEF ConfMonitor

LEMMA StoreCallTypes == ASSUME BaseInv, NEW t \in Threads, StoreFile(t) PROVE CallTypes'
<1> USE DEF BaseInv, TypeInv, CallTypes, ListTypes, PCs, Looping, call, window
<1>0. ASSUME NEW i \in Nat, 0 < i, i <= Len(subscriptions) PROVE subscriptions[i] \in Objects
  BY <1>0
<1>1. ASSUME NEW x \in Files, TurnAway(t, x) PROVE CallTypes'
  BY <1>1 DEF TurnAway
<1>2. ASSUME NEW x \in Files, Arrive(t, x) PROVE CallTypes'
  BY <1>2 DEF Arrive, HandledFiles!Call
<1>3. CASE AddHandled(t)
  BY <1>3 DEF AddHandled, HandledFiles!Decide
<1>4. CASE IsNew(t) \/ IsDuplicate(t)
  <2>1. /\ UNCHANGED <<file, cur, ppos>>
        /\ pc' \in {[pc EXCEPT ![t] = "loop"], [pc EXCEPT ![t] = "tolerate"]}
        /\ dup' \in {[dup EXCEPT ![t] = TRUE], [dup EXCEPT ![t] = FALSE]}
        /\ tolerated' \in {tolerated, [tolerated EXCEPT ![t] = FALSE]}
        /\ pos' = [pos EXCEPT ![t] = 1]
        /\ arg' = [arg EXCEPT ![t] = NoHash]
        /\ answer' = [answer EXCEPT ![t] = "none"]
    BY <1>4 DEF IsNew, IsDuplicate, HandledFiles!Return, BeginLoop
  <2>2. /\ pc' \in [Threads -> PCs] /\ dup' \in [Threads -> BOOLEAN]
        /\ tolerated' \in [Threads -> BOOLEAN]
    BY <2>1
  <2> QED
    BY <2>1, <2>2
<1>5. CASE LookForTolerance(t)
  BY <1>5 DEF LookForTolerance
<1>6. CASE RaiseDuplicate(t) \/ TolerateDuplicate(t)
  <2>1. CASE RaiseDuplicate(t)
    BY <2>1 DEF RaiseDuplicate
  <2>2. CASE TolerateDuplicate(t)
    BY <2>2 DEF TolerateDuplicate, BeginLoop
  <2> QED
    BY <1>6, <2>1, <2>2
<1>7. CASE NextSubscription(t)
  BY <1>0, <1>7 DEF NextSubscription
<1>8. CASE HandOver(t)
  BY <1>8 DEF HandOver
<1>9. CASE Process(t) \/ EndLoop(t) \/ PublishRaises(t) \/ PublishEnds(t)
  BY <1>9 DEF Process, EndLoop, PublishRaises, PublishEnds
<1>10. CASE PublishNext(t)
  BY <1>10 DEF PublishNext
<1>11. CASE Answer(t)
  BY <1>11 DEF Answer
<1> QED
  BY <1>1, <1>2, <1>3, <1>4, <1>5, <1>6, <1>7, <1>8, <1>9, <1>10, <1>11 DEF StoreFile

LEMMA StoreHistoryTypes == ASSUME BaseInv, NEW t \in Threads, StoreFile(t) PROVE HistoryTypes'
<1> USE DEF BaseInv, TypeInv, HistoryTypes, subHistory, pubHistory
<1>1. ToSet(subscriptions) \subseteq Objects /\ ToSet(publications) \subseteq Objects
  BY DEF ListTypes, ToSet
<1>2. CASE IsNew(t) \/ IsDuplicate(t) \/ TolerateDuplicate(t)
  <2>1. BeginLoop(t) /\ UNCHANGED pubHistory
    BY <1>2 DEF IsNew, IsDuplicate, TolerateDuplicate
  <2> QED
    BY <1>1, <2>1 DEF BeginLoop
<1>3. CASE HandOver(t)
  BY <1>1, <1>3 DEF HandOver, CallInv
<1>4. CASE PublishNext(t)
  <2>1. publications[ppos[t]] \in Objects
    BY <1>4 DEF PublishNext, CallTypes, ListTypes
  <2> QED
    BY <1>4, <2>1 DEF PublishNext
<1>5. CASE Answer(t)
  BY <1>5 DEF Answer
<1>6. CASE PublishRaises(t)
  <2>1. \A i \in ppos[t]..Len(publications) : publications[i] \in Objects
    BY DEF CallTypes, ListTypes
  <2> QED
    BY <1>6, <2>1 DEF PublishRaises
<1>7. ASSUME UNCHANGED <<subHistory, pubHistory>> PROVE HistoryTypes'
  BY <1>7
<1> QED
  BY <1>2, <1>3, <1>4, <1>5, <1>6, <1>7
  DEF StoreFile, TurnAway, Arrive, AddHandled, LookForTolerance, RaiseDuplicate,
      NextSubscription, Process, EndLoop, PublishEnds

LEMMA StoreTallyTypes == ASSUME BaseInv, NEW t \in Threads, StoreFile(t) PROVE TallyTypes'
<1> USE DEF BaseInv, TypeInv, TallyTypes, tally
<1>1. CASE AddHandled(t)
  <2>1. count' \in Nat /\ count' - count \in Nat
    BY <1>1 DEF AddHandled, HandledFiles!Decide
  <2>2. PICK d \in Nat : accepted' = [accepted EXCEPT ![file[t]] = @ + d]
    BY <1>1, <2>1 DEF AddHandled
  <2>3. accepted' \in [Files -> Nat]
    <3>1. file[t] \in Files
      BY <1>1, BackendAssumption DEF AddHandled, HandledFiles!Decide, CallInv
    <3> DEFINE n == accepted[file[t]] + d
    <3>2. n \in Nat /\ accepted' = [accepted EXCEPT ![file[t]] = n]
      BY <2>2, <3>1
    <3> HIDE DEF n
    <3> QED
      BY <3>2
  <2> QED
    BY <1>1, <2>1, <2>3 DEF AddHandled
<1>2. CASE HandOver(t)
  <2>1. file[t] \in Files
    BY <1>2 DEF HandOver, CallInv
  <2>2. ASSUME NEW x \in Files
        PROVE  [o \in Strict |-> IF o = cur[t] THEN handed[x][o] + 1 ELSE handed[x][o]]
                 \in [Strict -> Nat]
    OBVIOUS
  <2>3. handed' = [handed EXCEPT ![file[t]] =
          [o \in Strict |-> IF o = cur[t] THEN handed[file[t]][o] + 1 ELSE handed[file[t]][o]]]
    BY <1>2 DEF HandOver
  <2>4. handed' \in [Files -> [Strict -> Nat]]
    <3> DEFINE row == [o \in Strict |-> IF o = cur[t] THEN handed[file[t]][o] + 1
                                                      ELSE handed[file[t]][o]]
    <3>1. row \in [Strict -> Nat]
      BY <2>1, <2>2
    <3>2. handed' = [handed EXCEPT ![file[t]] = row]
      BY <2>3
    <3> HIDE DEF row
    <3> QED
      BY <3>1, <3>2
  <2>5. UNCHANGED <<count, accepted>>
    BY <1>2 DEF HandOver, window
  <2> QED
    BY <2>4, <2>5
<1>3. ASSUME UNCHANGED tally, UNCHANGED count PROVE TallyTypes'
  BY <1>3
<1> QED
  BY <1>1, <1>2, <1>3
  DEF StoreFile, TurnAway, Arrive, IsNew, IsDuplicate, LookForTolerance, RaiseDuplicate,
      TolerateDuplicate, NextSubscription, Process, EndLoop, PublishNext, PublishRaises, PublishEnds, Answer,
      HandledFiles!Call, HandledFiles!Return, window

LEMMA MonitorHistoryTypes == ASSUME BaseInv, ConfMonitor PROVE HistoryTypes'
<1>1. /\ disturbed' \in [Threads -> BOOLEAN]
      /\ pdisturbed' \in [Threads -> BOOLEAN]
  BY DEF BaseInv, TypeInv, HistoryTypes, ConfMonitor, Written, Deleted, RemoveSubscription,
         RemovePublication, StopPublication, DropPublication, AddConfiguration, AddFails,
         RunningLoopsDisturbed, subHistory, pubHistory
<1> QED
  BY <1>1, MonitorFrame DEF BaseInv, TypeInv, HistoryTypes

LEMMA NextTypeInv == BaseInv /\ [Next]_vars => TypeInv'
<1> SUFFICES ASSUME BaseInv, [Next]_vars PROVE TypeInv'
  OBVIOUS
<1>1. ASSUME NEW t \in Threads, StoreFile(t) PROVE TypeInv'
  <2>1. ListTypes' /\ MonitorTypes'
    BY <1>1, StoreFileFrame DEF lists, monitor, BaseInv, TypeInv, ListTypes, MonitorTypes
  <2> QED
    BY <1>1, <2>1, StoreCallTypes, StoreHistoryTypes, StoreTallyTypes DEF TypeInv
<1>2. CASE ConfMonitor
  <2>1. CallTypes' /\ TallyTypes'
    BY <1>2, MonitorFrame
    DEF call, window, tally, BaseInv, TypeInv, CallTypes, TallyTypes
  <2> QED
    BY <1>2, <2>1, NextListTypes, NextMonitorTypes, MonitorHistoryTypes DEF TypeInv
<1>3. CASE UNCHANGED vars
  BY <1>3 DEF vars, BaseInv, TypeInv, ListTypes, MonitorTypes, CallTypes, HistoryTypes, TallyTypes
<1> QED
  BY <1>1, <1>2, <1>3 DEF Next

LEMMA NextCallInv == BaseInv /\ [Next]_vars => CallInv'
<1> SUFFICES ASSUME BaseInv, [Next]_vars PROVE CallInv'
  OBVIOUS
<1> USE DEF BaseInv, TypeInv, CallTypes, HistoryTypes, CallInv, call, window, subHistory
<1>1. ASSUME NEW t \in Threads, NEW x \in Files, TurnAway(t, x) PROVE CallInv'
  BY <1>1, BackendAssumption DEF TurnAway
<1>2. ASSUME NEW t \in Threads, NEW x \in Files, Arrive(t, x) PROVE CallInv'
  BY <1>2, BackendAssumption DEF Arrive, HandledFiles!Call
<1>3. ASSUME NEW t \in Threads, AddHandled(t) PROVE CallInv'
  BY <1>3, BackendAssumption DEF AddHandled, HandledFiles!Decide
<1>4. ASSUME NEW t \in Threads, IsNew(t) PROVE CallInv'
  BY <1>4 DEF IsNew, HandledFiles!Return, BeginLoop
<1>5. ASSUME NEW t \in Threads, IsDuplicate(t) PROVE CallInv'
  BY <1>5 DEF IsDuplicate, HandledFiles!Return, BeginLoop
<1>6. ASSUME NEW t \in Threads, LookForTolerance(t) \/ RaiseDuplicate(t) PROVE CallInv'
  BY <1>6 DEF LookForTolerance, RaiseDuplicate
<1>7. ASSUME NEW t \in Threads, TolerateDuplicate(t) PROVE CallInv'
  BY <1>7 DEF TolerateDuplicate, BeginLoop
<1>8. ASSUME NEW t \in Threads, NextSubscription(t) PROVE CallInv'
  <2>1. subscriptions[pos[t]] \in Objects
    BY <1>8 DEF NextSubscription, ListTypes
  <2> QED
    BY <1>8, <2>1 DEF NextSubscription, Eligible
<1>9. ASSUME NEW t \in Threads, HandOver(t) PROVE CallInv'
  BY <1>9 DEF HandOver
<1>10. ASSUME NEW t \in Threads, Process(t) \/ EndLoop(t) \/ PublishRaises(t) \/ PublishEnds(t)
       PROVE CallInv'
  BY <1>10 DEF Process, EndLoop, PublishRaises, PublishEnds
<1>11. ASSUME NEW t \in Threads, PublishNext(t) PROVE CallInv'
  BY <1>11 DEF PublishNext
<1>12. ASSUME NEW t \in Threads, Answer(t) PROVE CallInv'
  BY <1>12 DEF Answer
<1>13. CASE ConfMonitor
  BY <1>13, MonitorFrame
<1>14. CASE UNCHANGED vars
  BY <1>14 DEF vars
<1> QED
  BY <1>1, <1>2, <1>3, <1>4, <1>5, <1>6, <1>7, <1>8, <1>9, <1>10, <1>11, <1>12, <1>13, <1>14
  DEF Next, StoreFile

(* The next object to be added never gets older. *)
LEMMA FreshGrows == BaseInv /\ [Next]_vars => Fresh' >= Fresh
<1> SUFFICES ASSUME BaseInv, [Next]_vars PROVE Fresh' >= Fresh
  OBVIOUS
<1>1. events \in Nat
  BY DEF BaseInv, TypeInv, MonitorTypes
<1>2. CASE UNCHANGED <<job, events>>
  BY <1>1, <1>2 DEF Fresh
<1>3. CASE job = Idle /\ events' = events + 1
  BY <1>1, <1>3 DEF Fresh, Idle
<1>4. CASE UNCHANGED events /\ job.op # "none"
  BY <1>1, <1>4 DEF Fresh
<1>5. CASE ConfMonitor
  BY <1>2, <1>3, <1>4, <1>5
  DEF ConfMonitor, Written, Deleted, StopPublication, DropPublication, AddConfiguration, AddFails
<1>6. CASE UNCHANGED vars
  BY <1>2, <1>6 DEF vars
<1> QED
  BY <1>2, <1>5, <1>6, StoreFileFrame DEF Next, monitor

LEMMA OldStays ==
  ASSUME BaseInv, [Next]_vars, NEW S \in SUBSET Objects, Old(S)
  PROVE  \A o \in S : o.version < Fresh'
<1>1. Fresh \in Nat /\ Fresh' \in Nat /\ \A o \in S : o.version \in Nat
  BY NextTypeInv DEF Fresh, BaseInv, TypeInv, MonitorTypes, Objects
<1> QED
  BY <1>1, FreshGrows DEF Old

(* Where the objects come from that the lists and the calls know. *)
LEMMA RemovedFrom ==
  ASSUME NEW q \in Seq(Objects), Distinct(q), NEW e
  PROVE  ToSet(RemoveFirst(q, e)) \subseteq ToSet(q)
<1>1. \A i \in 1..Len(RemoveFirst(q, e)) : \A j \in i..Len(q) : j \in 1..Len(q)
  BY RemoveFirstShifts
<1>2. \A i \in 1..Len(RemoveFirst(q, e)) : RemoveFirst(q, e)[i] \in ToSet(q)
  BY SMTT(30), <1>1, RemoveFirstShifts, InList
<1> QED
  BY <1>2, RemoveFirstShifts, InList

LEMMA AppendedTo ==
  ASSUME NEW q \in Seq(Objects), NEW o \in Objects
  PROVE  ToSet(Append(q, o)) = ToSet(q) \cup {o}
<1> DEFINE r == Append(q, o)
<1>1. /\ r \in Seq(Objects) /\ Len(q) \in Nat /\ Len(r) = Len(q) + 1
      /\ \A i \in 1..Len(q) : r[i] = q[i]
      /\ r[Len(q) + 1] = o
  BY AppendGrows
<1> HIDE DEF r
<1>2. ASSUME NEW x PROVE x \in ToSet(r) <=> x \in ToSet(q) \cup {o}
  <2>1. x \in ToSet(q) => x \in ToSet(r)
    BY <1>1, InList
  <2>2. o \in ToSet(r)
    BY <1>1, InList
  <2>3. x \in ToSet(r) => x \in ToSet(q) \cup {o}
    BY <1>1, InList
  <2> QED
    BY <2>1, <2>2, <2>3
<1> QED
  BY <1>2 DEF r

LEMMA ListsKnow ==
  BaseInv /\ [Next]_vars
    => \/ /\ ToSet(subscriptions)' \subseteq ToSet(subscriptions)
          /\ ToSet(publications)' \subseteq ToSet(publications)
       \/ /\ job.op = "add" /\ job' = Idle /\ UNCHANGED events
          /\ ToSet(subscriptions)' \subseteq ToSet(subscriptions) \cup {NewObject}
          /\ ToSet(publications)' \subseteq ToSet(publications) \cup {NewObject}
<1> DEFINE Shrink == /\ ToSet(subscriptions)' \subseteq ToSet(subscriptions)
                     /\ ToSet(publications)' \subseteq ToSet(publications)
           Grow == /\ job.op = "add" /\ job' = Idle /\ UNCHANGED events
                   /\ ToSet(subscriptions)' \subseteq ToSet(subscriptions) \cup {NewObject}
                   /\ ToSet(publications)' \subseteq ToSet(publications) \cup {NewObject}
<1> SUFFICES ASSUME BaseInv, [Next]_vars PROVE Shrink \/ Grow
  OBVIOUS
<1> USE DEF BaseInv, TypeInv, ListTypes
<1>1. ASSUME UNCHANGED lists PROVE Shrink
  BY <1>1 DEF lists
<1>2. ASSUME NEW f, NEW add, RemoveSubscription(f, add) PROVE Shrink
  BY <1>2, RemovedFrom DEF RemoveSubscription
<1>3. ASSUME DropPublication PROVE Shrink
  BY <1>3, RemovedFrom DEF DropPublication
<1>4. ASSUME AddConfiguration PROVE Grow
  <2>1. NewObject \in Objects
    BY <1>4, NewObjectType DEF AddConfiguration
  <2>2. /\ subscriptions' \in {subscriptions, Append(subscriptions, NewObject)}
        /\ publications' \in {publications, Append(publications, NewObject)}
    BY <1>4 DEF AddConfiguration, NewObject
  <2>3. job.op = "add" /\ job' = Idle /\ UNCHANGED events
    BY <1>4 DEF AddConfiguration
  <2> QED
    BY <2>1, <2>2, <2>3, AppendedTo
<1>5. ASSUME ConfMonitor PROVE Shrink \/ Grow
  BY <1>1, <1>2, <1>3, <1>4, <1>5
  DEF ConfMonitor, Written, Deleted, RemovePublication, StopPublication, AddFails
<1> QED
  BY <1>1, <1>5, StoreFileFrame DEF Next, vars, lists

LEMMA CallsKnow ==
  ASSUME BaseInv, [Next]_vars, NEW t \in Threads
  PROVE  /\ start'[t] \in {start[t], {}, ToSet(subscriptions)}
         /\ \/ done'[t] \in {done[t], {}}
            \/ pc[t] = "store" /\ done'[t] = done[t] \cup {cur[t]}
         /\ pc'[t] = "store" => \/ cur'[t] \in ToSet(subscriptions)
                                \/ pc[t] = "store" /\ cur'[t] = cur[t]
<1> USE DEF BaseInv, TypeInv, CallTypes, HistoryTypes, call, subHistory
<1>1. ASSUME NEW u \in Threads, IsNew(u) \/ IsDuplicate(u) \/ TolerateDuplicate(u)
      PROVE  /\ start'[t] \in {start[t], ToSet(subscriptions)} /\ done'[t] \in {done[t], {}}
             /\ pc'[t] = "store" => pc[t] = "store" /\ cur'[t] = cur[t]
  <2>1. BeginLoop(u) /\ UNCHANGED cur
        /\ pc' \in {[pc EXCEPT ![u] = "loop"], [pc EXCEPT ![u] = "tolerate"]}
    BY <1>1 DEF IsNew, IsDuplicate, TolerateDuplicate
  <2> QED
    BY <2>1 DEF BeginLoop
<1>2. ASSUME NEW u \in Threads, NextSubscription(u)
      PROVE  /\ UNCHANGED <<start, done>>
             /\ pc'[t] = "store" => \/ cur'[t] \in ToSet(subscriptions)
                                    \/ pc[t] = "store" /\ cur'[t] = cur[t]
  <2>1. subscriptions[pos[u]] \in ToSet(subscriptions)
    BY <1>2, InList DEF NextSubscription, ListTypes
  <2>2. PICK f \in PCs : pc' = [pc EXCEPT ![u] = f]
    BY <1>2 DEF NextSubscription, PCs, Looping
  <2>3. UNCHANGED <<start, done>> /\ cur' = [cur EXCEPT ![u] = subscriptions[pos[u]]]
    BY <1>2 DEF NextSubscription
  <2>4. CASE t = u
    <3>1. cur'[t] = subscriptions[pos[u]]
      BY <2>3, <2>4
    <3> QED
      BY <2>1, <2>3, <3>1
  <2>5. CASE t # u
    <3>1. cur'[t] = cur[t] /\ pc'[t] = pc[t]
      BY <2>2, <2>3, <2>5
    <3> QED
      BY <2>3, <3>1
  <2> QED
    BY <2>4, <2>5
<1>3. ASSUME NEW u \in Threads, HandOver(u)
      PROVE  /\ UNCHANGED <<start, cur>> /\ (pc'[t] = "store" => pc[t] = "store")
             /\ done'[t] = done[t] \/ (pc[t] = "store" /\ done'[t] = done[t] \cup {cur[t]})
  BY <1>3 DEF HandOver
<1>4. ASSUME NEW u \in Threads, Answer(u)
      PROVE  /\ start'[t] \in {start[t], {}} /\ done'[t] \in {done[t], {}}
             /\ pc'[t] = "store" => pc[t] = "store" /\ cur'[t] = cur[t]
  BY <1>4 DEF Answer
<1>5. ASSUME NEW u \in Threads,
             \/ (\E x \in Files : TurnAway(u, x) \/ Arrive(u, x)) \/ AddHandled(u)
             \/ LookForTolerance(u) \/ RaiseDuplicate(u)
             \/ Process(u) \/ EndLoop(u) \/ PublishNext(u) \/ PublishRaises(u) \/ PublishEnds(u)
      PROVE  UNCHANGED <<start, done, cur>> /\ (pc'[t] = "store" => pc[t] = "store")
  BY <1>5 DEF TurnAway, Arrive, AddHandled, LookForTolerance, RaiseDuplicate, Process,
              EndLoop, PublishNext, PublishRaises, PublishEnds
<1>6. CASE ConfMonitor
  BY <1>6, MonitorFrame
<1>7. CASE UNCHANGED vars
  BY <1>7 DEF vars
<1> QED
  BY <1>1, <1>2, <1>3, <1>4, <1>5, <1>6, <1>7 DEF Next, StoreFile

LEMMA NextOldInv == BaseInv /\ [Next]_vars => OldInv'
<1> SUFFICES ASSUME BaseInv, [Next]_vars PROVE OldInv'
  OBVIOUS
<1>1. \A S \in SUBSET Objects : Old(S) => Old(S)'
  BY OldStays DEF Old
<1>2. /\ ToSet(subscriptions) \in SUBSET Objects /\ Old(ToSet(subscriptions))
      /\ ToSet(publications) \in SUBSET Objects /\ Old(ToSet(publications))
  BY DEF BaseInv, TypeInv, ListTypes, OldInv, ToSet
<1>3. \A t \in Threads : /\ start[t] \in SUBSET Objects /\ Old(start[t])
                         /\ done[t] \in SUBSET Objects /\ Old(done[t])
  BY DEF BaseInv, TypeInv, HistoryTypes, OldInv
<1>4. \A t \in Threads : pc[t] = "store" => {cur[t]} \in SUBSET Objects /\ Old({cur[t]})
  BY DEF BaseInv, CallInv, OldInv
<1>5. \A o \in ToSet(subscriptions) \cup ToSet(publications) : o.version < Fresh'
  BY <1>1, <1>2 DEF Old
<1>6. job.op = "add" /\ job' = Idle /\ UNCHANGED events => NewObject.version < Fresh'
  BY DEF NewObject, Fresh, Idle, BaseInv, TypeInv, MonitorTypes
<1>7. Old(ToSet(subscriptions))' /\ Old(ToSet(publications))'
  BY <1>5, <1>6, ListsKnow DEF Old
<1>8. ASSUME NEW t \in Threads
      PROVE  /\ \A o \in start'[t] \cup done'[t] : o.version < Fresh'
             /\ pc'[t] = "store" => cur'[t].version < Fresh'
  <2>1. /\ \A o \in start[t] \cup done[t] : o.version < Fresh'
        /\ pc[t] = "store" => cur[t].version < Fresh'
    BY <1>1, <1>3, <1>4 DEF Old
  <2> QED
    BY <1>5, <2>1, CallsKnow
<1> QED
  BY <1>7, <1>8 DEF OldInv, Old

LEMMA BaseInvariance == Spec => []BaseInv
<1>1. BaseInv /\ [Next]_vars => BaseInv'
  BY NextTypeInv, NextCallInv, NextOldInv DEF BaseInv
<1> QED
  BY <1>1, InitBase, PTL DEF Spec

----------------------------------------------------------------------------
(* How the lists move, and what a thread does not see of the others *)

LEMMA SubscriptionsMove ==
  ASSUME BaseInv, ConfMonitor
  PROVE  \/ UNCHANGED <<subscriptions, disturbed>>
         \/ RunningLoopsDisturbed /\ \E e : subscriptions' = RemoveFirst(subscriptions, e)
         \/ /\ job.op = "add" /\ NewObject \in Objects /\ UNCHANGED disturbed
            /\ subscriptions' = Append(subscriptions, NewObject)
<1>1. CASE AddConfiguration
  <2>1. job.op = "add" /\ UNCHANGED disturbed /\ NewObject \in Objects
    BY <1>1, NewObjectType DEF AddConfiguration, subHistory
  <2>2. subscriptions' = subscriptions \/ subscriptions' = Append(subscriptions, NewObject)
    BY <1>1 DEF AddConfiguration, NewObject
  <2> QED
    BY <2>1, <2>2
<1>2. ASSUME NEW f, NEW add, RemoveSubscription(f, add)
      PROVE  RunningLoopsDisturbed /\ \E e : subscriptions' = RemoveFirst(subscriptions, e)
  BY <1>2 DEF RemoveSubscription
<1>3. ASSUME UNCHANGED lists /\ UNCHANGED subHistory PROVE UNCHANGED <<subscriptions, disturbed>>
  BY <1>3 DEF lists, subHistory
<1>4. CASE DropPublication
  BY <1>4 DEF DropPublication, subHistory
<1> QED
  BY <1>1, <1>2, <1>3, <1>4
  DEF ConfMonitor, Written, Deleted, RemovePublication, StopPublication, AddFails

LEMMA PublicationsMove ==
  ASSUME BaseInv, ConfMonitor
  PROVE  /\ stopped \subseteq stopped'
         /\ \/ UNCHANGED <<publications, pdisturbed>>
            \/ pdisturbed' = [t \in Threads |-> pdisturbed[t] \/ pc[t] = "publish"]
            \/ /\ NewObject \in Objects /\ UNCHANGED pdisturbed
               /\ publications' = Append(publications, NewObject)
<1>1. CASE AddConfiguration
  <2>1. UNCHANGED <<stopped, pdisturbed>> /\ NewObject \in Objects
    BY <1>1, NewObjectType DEF AddConfiguration, pubHistory
  <2>2. publications' = publications \/ publications' = Append(publications, NewObject)
    BY <1>1 DEF AddConfiguration, NewObject
  <2> QED
    BY <2>1, <2>2
<1>2. ASSUME NEW f, NEW add, RemoveSubscription(f, add)
      PROVE  UNCHANGED <<stopped, publications, pdisturbed>>
  BY <1>2 DEF RemoveSubscription, pubHistory
<1>3. CASE DropPublication
  BY <1>3 DEF DropPublication
<1>4. CASE StopPublication
  BY <1>4 DEF StopPublication, lists, pubHistory
<1>5. ASSUME UNCHANGED lists /\ UNCHANGED stopped /\ UNCHANGED pubHistory
      PROVE  UNCHANGED <<stopped, publications, pdisturbed>>
  BY <1>5 DEF lists, pubHistory
<1> QED
  BY <1>1, <1>2, <1>3, <1>4, <1>5
  DEF ConfMonitor, Written, Deleted, RemovePublication, AddFails

LEMMA OtherThreads ==
  ASSUME BaseInv, NEW u \in Threads, StoreFile(u), NEW t \in Threads, t # u
  PROVE  /\ pc'[t] = pc[t] /\ file'[t] = file[t] /\ dup'[t] = dup[t]
         /\ tolerated'[t] = tolerated[t] /\ pos'[t] = pos[t] /\ cur'[t] = cur[t]
         /\ ppos'[t] = ppos[t] /\ arg'[t] = arg[t] /\ answer'[t] = answer[t]
         /\ start'[t] = start[t] /\ done'[t] = done[t] /\ disturbed'[t] = disturbed[t]
         /\ pstart'[t] = pstart[t] /\ pdone'[t] = pdone[t]
         /\ pdisturbed'[t] = pdisturbed[t] /\ pskipped'[t] = pskipped[t]
<1> USE DEF BaseInv, TypeInv, CallTypes, HistoryTypes, call, window, subHistory, pubHistory
<1>1. CASE \E x \in Files : TurnAway(u, x) \/ Arrive(u, x)
  BY <1>1 DEF TurnAway, Arrive, HandledFiles!Call
<1>2. CASE AddHandled(u)
  BY <1>2 DEF AddHandled, HandledFiles!Decide
<1>3. CASE IsNew(u) \/ IsDuplicate(u) \/ TolerateDuplicate(u)
  BY <1>3 DEF IsNew, IsDuplicate, TolerateDuplicate, HandledFiles!Return, BeginLoop
<1>4. CASE LookForTolerance(u) \/ RaiseDuplicate(u) \/ NextSubscription(u)
  BY <1>4 DEF LookForTolerance, RaiseDuplicate, NextSubscription
<1>5. CASE HandOver(u) \/ Process(u) \/ EndLoop(u)
  BY <1>5 DEF HandOver, Process, EndLoop
<1>6. CASE PublishNext(u) \/ PublishRaises(u) \/ PublishEnds(u) \/ Answer(u)
  BY <1>6 DEF PublishNext, PublishRaises, PublishEnds, Answer
<1> QED
  BY <1>1, <1>2, <1>3, <1>4, <1>5, <1>6 DEF StoreFile

----------------------------------------------------------------------------
(* The loop of t does not come back to a subscription: what is still ahead  *)
(* of it has not had the file, however the list moves.                      *)
Ahead(t) == {subscriptions[i] : i \in pos[t]..Len(subscriptions)}

NotTwice(t) ==
  /\ pc[t] \in Looping => Ahead(t) \cap done[t] = {}
  /\ pc[t] = "store" => cur[t] \notin done[t] /\ cur[t] \notin Ahead(t)

LEMMA AheadRemoved ==
  ASSUME BaseInv, NEW t \in Threads, NEW e, subscriptions' = RemoveFirst(subscriptions, e),
         UNCHANGED pos
  PROVE  Ahead(t)' \subseteq Ahead(t)
<1>1. pos[t] \in Nat /\ pos[t] >= 1 /\ subscriptions \in Seq(Objects) /\ Distinct(subscriptions)
  BY DEF BaseInv, TypeInv, CallTypes, ListTypes
<1>2. ASSUME NEW i \in pos[t]..Len(subscriptions')
      PROVE  subscriptions'[i] \in Ahead(t)
  <2>1. Len(subscriptions') \in Nat /\ i \in 1..Len(subscriptions')
    BY <1>1, RemoveFirstShifts
  <2>2. PICK j \in i..Len(subscriptions) : subscriptions'[i] = subscriptions[j]
    BY <1>1, <2>1, RemoveFirstShifts
  <2>3. j \in pos[t]..Len(subscriptions)
    BY <1>1, <2>1
  <2> QED
    BY <2>2, <2>3 DEF Ahead
<1> QED
  BY <1>2 DEF Ahead

LEMMA AheadAppended ==
  ASSUME BaseInv, NEW t \in Threads, NEW o \in Objects, UNCHANGED pos,
         subscriptions' = Append(subscriptions, o)
  PROVE  Ahead(t) \subseteq Ahead(t)' /\ Ahead(t)' \subseteq Ahead(t) \cup {o}
<1>1. /\ pos[t] \in Nat /\ pos[t] >= 1
      /\ subscriptions \in Seq(Objects) /\ Len(subscriptions) \in Nat
  BY DEF BaseInv, TypeInv, CallTypes, ListTypes
<1>2. /\ Len(subscriptions') = Len(subscriptions) + 1
      /\ \A i \in 1..Len(subscriptions) : subscriptions'[i] = subscriptions[i]
      /\ subscriptions'[Len(subscriptions) + 1] = o
  BY <1>1, AppendGrows
<1>3. ASSUME NEW i \in pos[t]..Len(subscriptions)
      PROVE  subscriptions[i] \in Ahead(t)'
  BY <1>1, <1>2 DEF Ahead
<1>4. ASSUME NEW i \in pos[t]..Len(subscriptions')
      PROVE  subscriptions'[i] \in Ahead(t) \cup {o}
  <2>1. CASE i = Len(subscriptions) + 1
    BY <1>2, <2>1
  <2>2. CASE i \in pos[t]..Len(subscriptions)
    BY <1>1, <1>2, <2>2 DEF Ahead
  <2> QED
    BY <1>1, <1>2, <2>1, <2>2
<1> QED
  BY <1>3, <1>4 DEF Ahead

(* One turn of a loop over the list. *)
LEMMA AheadNext ==
  ASSUME BaseInv, NEW t \in Threads, pos[t] <= Len(subscriptions),
         pos' = [pos EXCEPT ![t] = @ + 1], UNCHANGED subscriptions
  PROVE  /\ subscriptions[pos[t]] \in Ahead(t)
         /\ Ahead(t) = Ahead(t)' \cup {subscriptions[pos[t]]}
         /\ subscriptions[pos[t]] \notin Ahead(t)'
<1>1. /\ pos[t] \in Nat /\ pos[t] >= 1 /\ pos'[t] = pos[t] + 1
      /\ subscriptions \in Seq(Objects) /\ Len(subscriptions) \in Nat
      /\ Distinct(subscriptions)
  BY DEF BaseInv, TypeInv, CallTypes, ListTypes
<1>2. Ahead(t)' = {subscriptions[i] : i \in (pos[t] + 1)..Len(subscriptions)}
  BY <1>1 DEF Ahead
<1>3. /\ pos[t] \in pos[t]..Len(subscriptions)
      /\ \A i \in pos[t]..Len(subscriptions) :
           i = pos[t] \/ i \in (pos[t] + 1)..Len(subscriptions)
      /\ \A i \in (pos[t] + 1)..Len(subscriptions) :
           i # pos[t] /\ i \in pos[t]..Len(subscriptions) /\ i \in 1..Len(subscriptions)
  BY <1>1
<1>4. pos[t] \in 1..Len(subscriptions)
  BY <1>1
<1> QED
  BY <1>2, <1>3, <1>4, <1>1 DEF Ahead, Distinct

LEMMA AheadAtStart ==
  ASSUME BaseInv, NEW t \in Threads, pos'[t] = 1, UNCHANGED subscriptions
  PROVE  Ahead(t)' = ToSet(subscriptions)
BY DEF Ahead, ToSet, BaseInv, TypeInv, ListTypes

LEMMA AheadAtEnd ==
  ASSUME BaseInv, NEW t \in Threads, pos[t] > Len(subscriptions)
  PROVE  Ahead(t) = {}
<1>1. pos[t] \in Nat /\ Len(subscriptions) \in Nat
  BY DEF BaseInv, TypeInv, CallTypes, ListTypes
<1> QED
  BY <1>1 DEF Ahead

LEMMA AheadStands ==
  ASSUME NEW t \in Threads, UNCHANGED subscriptions, pos'[t] = pos[t]
  PROVE  Ahead(t)' = Ahead(t)
BY DEF Ahead

NotTwiceInv == \A t \in Threads : NotTwice(t)

LEMMA MonitorNotTwice ==
  ASSUME BaseInv, NEW t \in Threads, NotTwice(t), ConfMonitor
  PROVE  NotTwice(t)'
<1>1. UNCHANGED <<pc, pos, cur, done>>
  BY MonitorFrame DEF call
<1>2. CASE Ahead(t)' \subseteq Ahead(t)
  BY <1>1, <1>2 DEF NotTwice
<1>3. CASE /\ job.op = "add" /\ NewObject \in Objects
           /\ subscriptions' = Append(subscriptions, NewObject)
  <2>1. Ahead(t)' \subseteq Ahead(t) \cup {NewObject}
    BY <1>1, <1>3, AheadAppended
  <2>2. NewObject \notin done[t] /\ (pc[t] = "store" => NewObject # cur[t])
    <3>1. Old(done[t]) /\ (pc[t] = "store" => Old({cur[t]}))
      BY DEF BaseInv, OldInv
    <3>2. NewObject \notin done[t] /\ (pc[t] = "store" => NewObject \notin {cur[t]})
      BY <1>3, <3>1, NewObjectIsNew
    <3> QED
      BY <3>2
  <2> QED
    BY <1>1, <2>1, <2>2 DEF NotTwice
<1> QED
  BY <1>1, <1>2, <1>3, SubscriptionsMove, AheadRemoved, AheadStands

LEMMA StoreNotTwice ==
  ASSUME BaseInv, NEW t \in Threads, NotTwice(t), StoreFile(t)
  PROVE  NotTwice(t)'
<1> USE DEF BaseInv, TypeInv, CallTypes, HistoryTypes, call, subHistory, NotTwice, Looping
<1>0. UNCHANGED subscriptions
  BY StoreFileFrame DEF lists
<1>1. CASE IsNew(t) \/ IsDuplicate(t) \/ TolerateDuplicate(t)
  <2>1. pc'[t] \in {"loop", "tolerate"} /\ done'[t] = {}
    BY <1>1 DEF IsNew, IsDuplicate, TolerateDuplicate, BeginLoop
  <2> QED
    BY <2>1
<1>2. CASE NextSubscription(t)
  <2> DEFINE s == subscriptions[pos[t]]
  <2>1. /\ pc[t] = "loop" /\ pc'[t] \in {"failed", "store", "loop"}
        /\ cur'[t] = s /\ UNCHANGED done
    BY <1>2 DEF NextSubscription
  <2>2. s \in Ahead(t) /\ Ahead(t) = Ahead(t)' \cup {s} /\ s \notin Ahead(t)'
    BY <1>0, <1>2, AheadNext DEF NextSubscription
  <2> HIDE DEF s
  <2> QED
    BY <2>1, <2>2
<1>3. CASE HandOver(t)
  <2>1. /\ pc[t] = "store" /\ pc'[t] = "publish" /\ done'[t] = done[t] \cup {cur[t]}
        /\ pos'[t] = pos[t]
    BY <1>3 DEF HandOver
  <2> QED
    BY <1>0, <2>1, AheadStands
<1>4. CASE Process(t) \/ EndLoop(t) \/ PublishRaises(t) \/ PublishEnds(t) \/ PublishNext(t)
  <2>1. /\ pc[t] \in Looping /\ pc'[t] # "store" /\ UNCHANGED done /\ pos'[t] = pos[t]
    BY <1>4 DEF Process, EndLoop, PublishRaises, PublishEnds, PublishNext
  <2> QED
    BY <1>0, <2>1, AheadStands
<1>5. CASE \/ \E x \in Files : TurnAway(t, x) \/ Arrive(t, x)
           \/ LookForTolerance(t) \/ RaiseDuplicate(t) \/ Answer(t)
  <2>1. pc'[t] \notin Looping
    BY <1>5 DEF TurnAway, Arrive, LookForTolerance, RaiseDuplicate, Answer
  <2> QED
    BY <2>1
<1>6. CASE AddHandled(t)
  BY <1>0, <1>6, AheadStands DEF AddHandled
<1> QED
  BY <1>1, <1>2, <1>3, <1>4, <1>5, <1>6 DEF StoreFile

LEMMA NextNotTwice == BaseInv /\ NotTwiceInv /\ [Next]_vars => NotTwiceInv'
<1> SUFFICES ASSUME BaseInv, NotTwiceInv, [Next]_vars, NEW t \in Threads PROVE NotTwice(t)'
  BY DEF NotTwiceInv
<1>1. NotTwice(t)
  BY DEF NotTwiceInv
<1>2. ASSUME NEW u \in Threads, StoreFile(u), u # t PROVE NotTwice(t)'
  <2>1. UNCHANGED subscriptions
    BY <1>2, StoreFileFrame DEF lists
  <2>2. pc'[t] = pc[t] /\ pos'[t] = pos[t] /\ cur'[t] = cur[t] /\ done'[t] = done[t]
    BY <1>2, OtherThreads
  <2> QED
    BY <1>1, <2>1, <2>2, AheadStands DEF NotTwice
<1>3. CASE UNCHANGED vars
  BY <1>1, <1>3 DEF vars, NotTwice, Ahead
<1> QED
  BY <1>1, <1>2, <1>3, StoreNotTwice, MonitorNotTwice DEF Next

LEMMA NotTwiceInvariance == Spec => []NotTwiceInv
<1>1. Init => NotTwiceInv
  BY DEF Init, NotTwiceInv, NotTwice, Looping
<1> QED
  BY <1>1, NextNotTwice, BaseInvariance, PTL DEF Spec

(* No call gives its file twice to one subscription, whatever the monitor   *)
(* does to the list that the loop of the call reads (store_file).           *)
THEOREM NothingIsHandedOverTwice == Spec => []HandedOverOnce
<1>1. NotTwiceInv => HandedOverOnce
  BY DEF NotTwiceInv, NotTwice, HandedOverOnce
<1> QED
  BY <1>1, NotTwiceInvariance, PTL

----------------------------------------------------------------------------
(* As long as no subscription was removed, those of the beginning of a loop *)
(* that let the file pass have it, are about to get it, or are ahead.       *)
InHand(t) == IF pc[t] = "store" THEN {cur[t]} ELSE {}

NoneMissed(t) ==
  ~disturbed[t] =>
    /\ pc[t] \in Looping =>
         \A s \in start[t] : Eligible(t, s) => s \in done[t] \cup InHand(t) \cup Ahead(t)
    /\ pc[t] = "return" => \A s \in start[t] : Eligible(t, s) => s \in done[t]

NoneUnasked(t) ==
  ~disturbed[t] =>
    /\ pc[t] = "tolerate" /\ ~tolerated[t] =>
         \A s \in start[t] : s.conf \in AllowsDups => s \in Ahead(t)
    /\ pc[t] = "refused" => \A s \in start[t] : s.conf \notin AllowsDups

CoverInv == \A t \in Threads : NoneMissed(t) /\ NoneUnasked(t)

(* What a thread finds as it left it, a removed subscription apart. *)
LEMMA CoverStands ==
  ASSUME NEW t \in Threads, NoneMissed(t), NoneUnasked(t),
         pc'[t] = pc[t], file'[t] = file[t], dup'[t] = dup[t], tolerated'[t] = tolerated[t],
         cur'[t] = cur[t], start'[t] = start[t], done'[t] = done[t],
         disturbed'[t] = disturbed[t], Ahead(t) \subseteq Ahead(t)'
  PROVE  NoneMissed(t)' /\ NoneUnasked(t)'
BY DEF NoneMissed, NoneUnasked, InHand, Eligible, Looping

LEMMA MonitorCover ==
  ASSUME BaseInv, NEW t \in Threads, NoneMissed(t), NoneUnasked(t), ConfMonitor
  PROVE  NoneMissed(t)' /\ NoneUnasked(t)'
<1>1. UNCHANGED <<pc, file, dup, tolerated, pos, cur, start, done>>
  BY MonitorFrame DEF call
<1>2. CASE RunningLoopsDisturbed
  <2>1. pc[t] = "idle" \/ disturbed'[t]
    BY <1>2 DEF RunningLoopsDisturbed
  <2> QED
    BY <1>1, <2>1 DEF NoneMissed, NoneUnasked, Looping
<1>3. CASE Ahead(t) \subseteq Ahead(t)' /\ UNCHANGED disturbed
  BY <1>1, <1>3, CoverStands
<1> QED
  BY <1>1, <1>2, <1>3, SubscriptionsMove, AheadAppended, AheadStands

LEMMA StoreNoneMissed ==
  ASSUME BaseInv, NEW t \in Threads, NoneMissed(t), StoreFile(t)
  PROVE  NoneMissed(t)'
<1> USE DEF BaseInv, TypeInv, CallTypes, HistoryTypes, call, subHistory, Looping, InHand,
            Eligible
<1>0. UNCHANGED subscriptions
  BY StoreFileFrame DEF lists
<1>1. CASE IsNew(t) \/ TolerateDuplicate(t)
  <2>1. pc'[t] = "loop" /\ start'[t] = ToSet(subscriptions) /\ pos'[t] = 1
    BY <1>1 DEF IsNew, TolerateDuplicate, BeginLoop
  <2> QED
    BY <1>0, <2>1, AheadAtStart DEF NoneMissed
<1>2. CASE NextSubscription(t)
  <2> DEFINE s == subscriptions[pos[t]]
  <2>1. /\ pc[t] = "loop" /\ pc'[t] \in {"failed", "store", "loop"}
        /\ pc'[t] = "loop" => ~Eligible(t, s)
        /\ cur'[t] = s /\ UNCHANGED <<file, dup, start, done, disturbed>>
    BY <1>2 DEF NextSubscription
  <2>2. Ahead(t) = Ahead(t)' \cup {s}
    BY <1>0, <1>2, AheadNext DEF NextSubscription
  <2> HIDE DEF s
  <2> QED
    BY <2>1, <2>2 DEF NoneMissed
<1>3. CASE HandOver(t)
  <2>1. /\ pc[t] = "store" /\ pc'[t] = "publish" /\ done'[t] = done[t] \cup {cur[t]}
        /\ pos'[t] = pos[t] /\ UNCHANGED <<file, dup, start, disturbed>>
    BY <1>3 DEF HandOver
  <2> QED
    BY <1>0, <2>1, AheadStands DEF NoneMissed
<1>4. CASE Process(t) \/ PublishRaises(t) \/ PublishEnds(t) \/ PublishNext(t)
  <2>1. /\ pc[t] \in Looping /\ pc[t] # "store" /\ pc'[t] \in Looping /\ pc'[t] # "store"
        /\ pos'[t] = pos[t] /\ UNCHANGED <<file, dup, start, done, disturbed>>
    BY <1>4 DEF Process, PublishRaises, PublishEnds, PublishNext
  <2> QED
    BY <1>0, <2>1, AheadStands DEF NoneMissed
<1>5. CASE EndLoop(t)
  <2>1. /\ pc[t] = "loop" /\ pc'[t] = "return" /\ Ahead(t) = {}
        /\ UNCHANGED <<file, dup, start, done, disturbed>>
    BY <1>5, AheadAtEnd DEF EndLoop
  <2> QED
    BY <2>1 DEF NoneMissed
<1>6. CASE \E x \in Files : TurnAway(t, x)
  <2>1. start'[t] = {} /\ pc'[t] = "return"
    BY <1>6 DEF TurnAway, CallInv
  <2> QED
    BY <2>1 DEF NoneMissed
<1>7. CASE \/ \E x \in Files : Arrive(t, x)
           \/ IsDuplicate(t) \/ LookForTolerance(t) \/ RaiseDuplicate(t) \/ Answer(t)
  <2>1. pc'[t] \notin Looping \cup {"return"}
    BY <1>7 DEF Arrive, IsDuplicate, LookForTolerance, RaiseDuplicate, Answer
  <2> QED
    BY <2>1 DEF NoneMissed
<1>8. CASE AddHandled(t)
  BY <1>0, <1>8, AheadStands DEF AddHandled, NoneMissed
<1> QED
  BY <1>1, <1>2, <1>3, <1>4, <1>5, <1>6, <1>7, <1>8 DEF StoreFile

LEMMA StoreNoneUnasked ==
  ASSUME BaseInv, NEW t \in Threads, NoneUnasked(t), StoreFile(t)
  PROVE  NoneUnasked(t)'
<1> USE DEF BaseInv, TypeInv, CallTypes, HistoryTypes, call, subHistory
<1>0. UNCHANGED subscriptions
  BY StoreFileFrame DEF lists
<1>1. CASE IsDuplicate(t)
  <2>1. pc'[t] = "tolerate" /\ start'[t] = ToSet(subscriptions) /\ pos'[t] = 1
    BY <1>1 DEF IsDuplicate, BeginLoop
  <2> QED
    BY <1>0, <2>1, AheadAtStart DEF NoneUnasked
<1>2. CASE LookForTolerance(t)
  <2> DEFINE s == subscriptions[pos[t]]
  <2>1. /\ pc[t] = "tolerate" /\ pc'[t] = "tolerate"
        /\ ~tolerated'[t] => ~tolerated[t] /\ s.conf \notin AllowsDups
        /\ UNCHANGED <<start, disturbed>>
    BY <1>2 DEF LookForTolerance
  <2>2. Ahead(t) = Ahead(t)' \cup {s}
    BY <1>0, <1>2, AheadNext DEF LookForTolerance
  <2> HIDE DEF s
  <2> QED
    BY <2>1, <2>2 DEF NoneUnasked
<1>3. CASE RaiseDuplicate(t)
  <2>1. /\ pc[t] = "tolerate" /\ pc'[t] = "refused" /\ ~tolerated[t] /\ Ahead(t) = {}
        /\ UNCHANGED <<start, disturbed>>
    BY <1>3, AheadAtEnd DEF RaiseDuplicate
  <2> QED
    BY <2>1 DEF NoneUnasked
<1>4. CASE AddHandled(t)
  BY <1>0, <1>4, AheadStands DEF AddHandled, NoneUnasked
<1>5. CASE \/ \E x \in Files : TurnAway(t, x) \/ Arrive(t, x)
           \/ IsNew(t) \/ TolerateDuplicate(t) \/ NextSubscription(t) \/ HandOver(t)
           \/ Process(t) \/ EndLoop(t) \/ PublishNext(t) \/ PublishRaises(t) \/ PublishEnds(t) \/ Answer(t)
  <2>1. pc'[t] \notin {"tolerate", "refused"}
    BY <1>5
    DEF TurnAway, Arrive, IsNew, TolerateDuplicate, NextSubscription, HandOver, Process,
        EndLoop, PublishNext, PublishRaises, PublishEnds, Answer
  <2> QED
    BY <2>1 DEF NoneUnasked
<1> QED
  BY <1>1, <1>2, <1>3, <1>4, <1>5 DEF StoreFile

LEMMA NextCover == BaseInv /\ CoverInv /\ [Next]_vars => CoverInv'
<1> SUFFICES ASSUME BaseInv, CoverInv, [Next]_vars, NEW t \in Threads
             PROVE  NoneMissed(t)' /\ NoneUnasked(t)'
  BY DEF CoverInv
<1>1. NoneMissed(t) /\ NoneUnasked(t)
  BY DEF CoverInv
<1>2. ASSUME NEW u \in Threads, StoreFile(u), u # t
      PROVE  NoneMissed(t)' /\ NoneUnasked(t)'
  <2>1. UNCHANGED subscriptions
    BY <1>2, StoreFileFrame DEF lists
  <2>2. Ahead(t)' = Ahead(t)
    BY <1>2, <2>1, OtherThreads, AheadStands
  <2> QED
    BY <1>1, <1>2, <2>2, OtherThreads, CoverStands
<1>3. CASE UNCHANGED vars
  <2>1. Ahead(t)' = Ahead(t)
    BY <1>3 DEF vars, Ahead
  <2> QED
    BY <1>1, <1>3, <2>1, CoverStands DEF vars
<1> QED
  BY <1>1, <1>2, <1>3, StoreNoneMissed, StoreNoneUnasked, MonitorCover DEF Next

LEMMA CoverInvariance == Spec => []CoverInv
<1>1. Init => CoverInv
  BY DEF Init, CoverInv, NoneMissed, NoneUnasked, Looping
<1> QED
  BY <1>1, NextCover, BaseInvariance, PTL DEF Spec

(* A call that returns has given its file to every subscription that was    *)
(* there at the beginning and lets it pass, unless one was removed.         *)
THEOREM EverySubscriptionIsServed == Spec => []AllHandleUnlessDisturbed
<1>1. CoverInv => AllHandleUnlessDisturbed
  BY DEF CoverInv, NoneMissed, AllHandleUnlessDisturbed, Missed
<1> QED
  BY <1>1, CoverInvariance, PTL

(* A refused duplicate was tolerated by no subscription that was there when *)
(* the check of them began, unless one was removed.                         *)
THEOREM RefusalsAreJustified == Spec => []RefusalJustified
<1>1. CoverInv => RefusalJustified
  BY DEF CoverInv, NoneUnasked, RefusalJustified
<1> QED
  BY <1>1, CoverInvariance, PTL

----------------------------------------------------------------------------
(* The same for the loop of publish: a publication that takes the file has  *)
(* it, is ahead of the loop, or was stopped.                                *)
PubAhead(t) == {publications[i] : i \in ppos[t]..Len(publications)}

Published(t) ==
  ~pdisturbed[t] =>
    /\ pc[t] = "publish" =>
         \A p \in pstart[t] \ stopped : Routed(t, p) => p \in pdone[t] \cup PubAhead(t)
    /\ pc[t] = "process" =>
         \A p \in pstart[t] \ stopped : Routed(t, p) => p \in pdone[t] \cup pskipped[t]

PublishInv == \A t \in Threads : Published(t)

LEMMA PublishedStands ==
  ASSUME NEW t \in Threads, Published(t), pc'[t] = pc[t], file'[t] = file[t],
         cur'[t] = cur[t], pstart'[t] = pstart[t], pdone'[t] = pdone[t],
         pdisturbed'[t] = pdisturbed[t], pskipped'[t] = pskipped[t],
         stopped \subseteq stopped',
         PubAhead(t) \subseteq PubAhead(t)'
  PROVE  Published(t)'
BY DEF Published, Routed

LEMMA PubAheadStands ==
  ASSUME NEW t \in Threads, UNCHANGED publications, ppos'[t] = ppos[t]
  PROVE  PubAhead(t)' = PubAhead(t)
BY DEF PubAhead

LEMMA MonitorPublished ==
  ASSUME BaseInv, NEW t \in Threads, Published(t), ConfMonitor
  PROVE  Published(t)'
<1>1. UNCHANGED <<pc, file, cur, ppos, pstart, pdone, pskipped>> /\ stopped \subseteq stopped'
  BY MonitorFrame, PublicationsMove DEF call
<1>2. CASE UNCHANGED <<publications, pdisturbed>>
  BY <1>1, <1>2, PubAheadStands, PublishedStands
<1>3. CASE pdisturbed' = [u \in Threads |-> pdisturbed[u] \/ pc[u] = "publish"]
  <2>1. pdisturbed'[t] \/ (pc[t] # "publish" /\ pdisturbed'[t] = pdisturbed[t])
    BY <1>3 DEF BaseInv, TypeInv, HistoryTypes
  <2> QED
    BY <1>1, <2>1 DEF Published, Routed
<1>4. CASE /\ NewObject \in Objects /\ UNCHANGED pdisturbed
           /\ publications' = Append(publications, NewObject)
  <2>1. /\ ppos[t] \in Nat /\ ppos[t] >= 1
        /\ publications \in Seq(Objects) /\ Len(publications) \in Nat
    BY DEF BaseInv, TypeInv, CallTypes, ListTypes
  <2>2. /\ Len(publications') = Len(publications) + 1
        /\ \A i \in 1..Len(publications) : publications'[i] = publications[i]
    BY <1>4, <2>1, AppendGrows
  <2>3. ASSUME NEW i \in ppos[t]..Len(publications)
        PROVE  publications[i] \in PubAhead(t)'
    BY <1>1, <2>1, <2>2 DEF PubAhead
  <2>4. PubAhead(t) \subseteq PubAhead(t)'
    BY <2>3 DEF PubAhead
  <2> QED
    BY <1>1, <1>4, <2>4, PublishedStands
<1> QED
  BY <1>2, <1>3, <1>4, PublicationsMove

LEMMA StorePublished ==
  ASSUME BaseInv, NEW t \in Threads, Published(t), StoreFile(t)
  PROVE  Published(t)'
<1> USE DEF BaseInv, TypeInv, CallTypes, HistoryTypes, call, pubHistory
<1>0. UNCHANGED <<publications, stopped>>
  BY StoreFileFrame DEF lists, monitor
<1>1. CASE HandOver(t)
  <2>1. /\ pc'[t] = "publish" /\ pstart'[t] = ToSet(publications) /\ ppos'[t] = 1
    BY <1>1 DEF HandOver
  <2>2. PubAhead(t)' = ToSet(publications)
    <3>1. publications \in Seq(Objects) /\ publications' = publications
      BY <1>0 DEF ListTypes
    <3>2. DOMAIN publications = 1..Len(publications)
      BY <3>1
    <3> QED
      BY <2>1, <3>1, <3>2, SMT DEF PubAhead, ToSet
  <2> QED
    BY <2>1, <2>2 DEF Published
<1>2. CASE PublishNext(t)
  <2> DEFINE p == publications[ppos[t]]
  <2>1. /\ pc[t] = "publish" /\ pc'[t] = "publish" /\ ppos'[t] = ppos[t] + 1
        /\ ppos[t] <= Len(publications)
        /\ pdone'[t] = IF Routed(t, p) /\ p \notin stopped THEN pdone[t] \cup {p} ELSE pdone[t]
        /\ UNCHANGED <<file, cur, pstart, pdisturbed>>
    BY <1>2 DEF PublishNext
  <2>2. PubAhead(t) \subseteq PubAhead(t)' \cup {p}
    <3>1. ppos[t] \in Nat /\ Len(publications) \in Nat
      BY DEF ListTypes
    <3>2. \A i \in ppos[t]..Len(publications) :
            i = ppos[t] \/ i \in (ppos[t] + 1)..Len(publications)
      BY <3>1
    <3>3. PubAhead(t)' = {publications[i] : i \in (ppos[t] + 1)..Len(publications)}
      BY <1>0, <2>1 DEF PubAhead
    <3> QED
      BY <3>2, <3>3 DEF PubAhead
  <2> HIDE DEF p
  <2>3. ASSUME ~pdisturbed[t], NEW q \in pstart[t] \ stopped, Routed(t, q)
        PROVE  q \in pdone'[t] \cup PubAhead(t)'
    <3>1. q \in pdone[t] \cup PubAhead(t)
      BY <2>1, <2>3 DEF Published
    <3> QED
      BY <2>1, <2>2, <2>3, <3>1
  <2> QED
    BY <1>0, <2>1, <2>3 DEF Published, Routed
<1>3. CASE PublishEnds(t)
  <2>1. /\ pc[t] = "publish" /\ pc'[t] = "process" /\ ppos[t] > Len(publications)
        /\ UNCHANGED <<file, cur, pstart, pdone, pdisturbed>>
    BY <1>3 DEF PublishEnds
  <2>2. PubAhead(t) = {}
    <3>1. ppos[t] \in Nat /\ Len(publications) \in Nat
      BY DEF ListTypes
    <3> QED
      BY <2>1, <3>1 DEF PubAhead
  <2> QED
    BY <1>0, <2>1, <2>2 DEF Published, Routed
<1>4. CASE PublishRaises(t)
  <2>1. /\ pc[t] = "publish" /\ pc'[t] = "process" /\ pskipped'[t] = PubAhead(t)
        /\ UNCHANGED <<file, cur, pstart, pdone, pdisturbed>>
    BY <1>4 DEF PublishRaises, PubAhead
  <2> QED
    BY <1>0, <2>1 DEF Published, Routed
<1>5. CASE AddHandled(t)
  BY <1>0, <1>5, PubAheadStands DEF AddHandled, Published, Routed
<1>6. CASE \/ \E x \in Files : TurnAway(t, x) \/ Arrive(t, x)
           \/ IsNew(t) \/ IsDuplicate(t) \/ LookForTolerance(t) \/ RaiseDuplicate(t)
           \/ TolerateDuplicate(t) \/ NextSubscription(t) \/ Process(t) \/ EndLoop(t)
           \/ Answer(t)
  <2>1. pc'[t] \notin {"publish", "process"}
    BY <1>6
    DEF TurnAway, Arrive, IsNew, IsDuplicate, LookForTolerance, RaiseDuplicate,
        TolerateDuplicate, NextSubscription, Process, EndLoop, Answer
  <2> QED
    BY <2>1 DEF Published
<1> QED
  BY <1>1, <1>2, <1>3, <1>4, <1>5, <1>6 DEF StoreFile

LEMMA NextPublish == BaseInv /\ PublishInv /\ [Next]_vars => PublishInv'
<1> SUFFICES ASSUME BaseInv, PublishInv, [Next]_vars, NEW t \in Threads PROVE Published(t)'
  BY DEF PublishInv
<1>1. Published(t)
  BY DEF PublishInv
<1>2. ASSUME NEW u \in Threads, StoreFile(u), u # t PROVE Published(t)'
  <2>1. UNCHANGED <<publications, stopped>>
    BY <1>2, StoreFileFrame DEF lists, monitor
  <2>2. PubAhead(t)' = PubAhead(t)
    BY <1>2, <2>1, OtherThreads, PubAheadStands
  <2> QED
    BY <1>1, <1>2, <2>1, <2>2, OtherThreads, PublishedStands
<1>3. CASE UNCHANGED vars
  BY <1>1, <1>3 DEF vars, Published, Routed, PubAhead
<1> QED
  BY <1>1, <1>2, <1>3, StorePublished, MonitorPublished DEF Next

(* publish leaves out no publication that was there when it began and is    *)
(* still open, unless one was removed under it or the filter of one before  *)
(* it, or its own, raised.                                                  *)
THEOREM EveryPublicationIsServed == Spec => []AllPublishUnlessDisturbed
<1>1. Init => PublishInv
  BY DEF Init, PublishInv, Published
<1>2. PublishInv => AllPublishUnlessDisturbed
  BY DEF PublishInv, Published, AllPublishUnlessDisturbed
<1> QED
  BY <1>1, <1>2, NextPublish, BaseInvariance, PTL DEF Spec

----------------------------------------------------------------------------
(* Every acceptance of a file is worth one handing over to each strict      *)
(* subscription: the calls that may still hand file x to o are counted as   *)
(* if they had.                                                             *)
MayHand(t, x, o) ==
  /\ file[t] = x
  /\ \/ pc[t] = "handled" /\ answer[t] = "new"
     \/ pc[t] \in Looping /\ ~dup[t] /\ o \notin done[t]

Holders(x, o) == {t \in Threads : MayHand(t, x, o)}

CreditInv ==
  \A x \in Files, o \in Strict : handed[x][o] + Cardinality(Holders(x, o)) <= accepted[x]

LEMMA HoldersFinite ==
  ASSUME NEW x, NEW o
  PROVE  IsFiniteSet(Holders(x, o)) /\ Cardinality(Holders(x, o)) \in Nat
BY BackendAssumption, FS_Subset, FS_CardinalityType DEF Holders

(* What a step does to the calls that may still hand x to o. *)
LEMMA HoldersMove ==
  ASSUME BaseInv, NotTwiceInv, NEW t \in Threads, StoreFile(t), NEW x \in Files, NEW o \in Strict
  PROVE  /\ Holders(x, o)' \subseteq Holders(x, o) \cup {t}
         /\ t \in Holders(x, o)' /\ t \notin Holders(x, o)
              => AddHandled(t) /\ accepted'[x] = accepted[x] + 1
         /\ handed'[x][o] = handed[x][o]
              \/ /\ handed'[x][o] = handed[x][o] + 1 /\ UNCHANGED accepted
                 /\ t \in Holders(x, o) /\ t \notin Holders(x, o)'
         /\ accepted'[x] >= accepted[x]
<1> USE DEF BaseInv, TypeInv, CallTypes, HistoryTypes, TallyTypes, call, window, tally,
            subHistory
<1>1. Holders(x, o)' \subseteq Holders(x, o) \cup {t}
  BY OtherThreads DEF Holders, MayHand
<1> USE DEF Holders, MayHand, Looping
<1>2. CASE AddHandled(t)
  <2>1. /\ file[t] \in Files /\ pc[t] = "handled" /\ UNCHANGED <<pc, file, handed>>
    BY <1>2, BackendAssumption DEF AddHandled, HandledFiles!Decide, CallInv
  <2>2. \/ answer'[t] = "duplicate" /\ count' = count
        \/ answer'[t] = "new" /\ count' = count + 1
    BY <1>2 DEF AddHandled, HandledFiles!Decide
  <2>3. accepted'[x] = IF x = file[t] THEN accepted[x] + (count' - count) ELSE accepted[x]
    BY <1>2, <2>1 DEF AddHandled
  <2> QED
    BY <1>1, <1>2, <2>1, <2>2, <2>3
<1>3. CASE HandOver(t)
  <2>1. /\ pc[t] = "store" /\ pc'[t] = "publish" /\ done'[t] = done[t] \cup {cur[t]}
        /\ file[t] \in Files /\ UNCHANGED <<file, dup, accepted>>
    BY <1>3 DEF HandOver, CallInv
  <2>2. cur[t] \notin done[t]
    BY <2>1 DEF NotTwiceInv, NotTwice
  <2>3. cur[t] = o => ~dup[t]
    BY <2>1 DEF CallInv, Strict
  <2>4. handed'[x][o] = IF x = file[t] /\ o = cur[t] THEN handed[x][o] + 1 ELSE handed[x][o]
    BY <1>3, <2>1 DEF HandOver
  <2> QED
    BY <1>1, <2>1, <2>2, <2>3, <2>4
<1>4. CASE IsNew(t)
  <2>1. /\ pc[t] = "handled" /\ answer[t] = "new" /\ UNCHANGED <<file, accepted, handed>>
    BY <1>4 DEF IsNew
  <2> QED
    BY <1>1, <2>1
<1>5. CASE IsDuplicate(t) \/ TolerateDuplicate(t)
  <2>1. UNCHANGED <<accepted, handed>>
    BY <1>5 DEF IsDuplicate, TolerateDuplicate
  <2>2. pc'[t] \in {"tolerate", "loop"} /\ dup'[t]
    BY <1>5 DEF IsDuplicate, TolerateDuplicate, CallInv
  <2> QED
    BY <1>1, <2>1, <2>2
<1>6. CASE Answer(t) \/ LookForTolerance(t) \/ RaiseDuplicate(t)
           \/ \E y \in Files : TurnAway(t, y) \/ Arrive(t, y)
  <2>1. UNCHANGED <<accepted, handed>>
    BY <1>6 DEF Answer, LookForTolerance, RaiseDuplicate, TurnAway, Arrive
  <2>2. t \notin Holders(x, o)'
    BY <1>6 DEF Answer, LookForTolerance, RaiseDuplicate, TurnAway, Arrive, CallInv,
                HandledFiles!Call
  <2> QED
    BY <1>1, <2>1, <2>2
<1>7. CASE NextSubscription(t) \/ Process(t) \/ EndLoop(t) \/ PublishNext(t) \/ PublishRaises(t) \/ PublishEnds(t)
  <2>1. /\ pc[t] \in Looping /\ pc'[t] # "handled"
        /\ UNCHANGED <<file, dup, done, accepted, handed>>
    BY <1>7 DEF NextSubscription, Process, EndLoop, PublishNext, PublishRaises, PublishEnds
  <2> QED
    BY <1>1, <2>1
<1> QED
  BY <1>2, <1>3, <1>4, <1>5, <1>6, <1>7 DEF StoreFile

LEMMA NextCredit == BaseInv /\ NotTwiceInv /\ CreditInv /\ [Next]_vars => CreditInv'
<1> SUFFICES ASSUME BaseInv, NotTwiceInv, CreditInv, [Next]_vars,
                    NEW x \in Files, NEW o \in Strict
             PROVE  handed'[x][o] + Cardinality(Holders(x, o)') <= accepted'[x]
  BY DEF CreditInv, Holders, MayHand
<1> DEFINE H == Holders(x, o)
<1>1. IsFiniteSet(H) /\ Cardinality(H) \in Nat
  BY HoldersFinite
<1>2. IsFiniteSet(H') /\ Cardinality(H') \in Nat
  BY BackendAssumption, FS_Subset, FS_CardinalityType DEF Holders
<1>3. /\ handed[x][o] \in Nat /\ accepted[x] \in Nat
      /\ handed'[x][o] \in Nat /\ accepted'[x] \in Nat
      /\ handed[x][o] + Cardinality(H) <= accepted[x]
  BY NextTypeInv DEF BaseInv, TypeInv, TallyTypes, CreditInv
<1>4. ASSUME NEW t \in Threads, StoreFile(t)
      PROVE  handed'[x][o] + Cardinality(H') <= accepted'[x]
  <2> HIDE DEF H
  <2>1. /\ H' \subseteq H \cup {t}
        /\ t \in H' /\ t \notin H => accepted'[x] = accepted[x] + 1 /\ UNCHANGED handed
        /\ handed'[x][o] = handed[x][o]
             \/ /\ handed'[x][o] = handed[x][o] + 1 /\ UNCHANGED accepted
                /\ t \in H /\ t \notin H'
        /\ accepted'[x] >= accepted[x]
    BY <1>4, HoldersMove DEF H, AddHandled
  <2>2. CASE t \in H' /\ t \notin H
    <3>1. Cardinality(H \cup {t}) = Cardinality(H) + 1
      BY <1>1, <2>2, FS_AddElement
    <3>2. IsFiniteSet(H \cup {t})
      BY <1>1, FS_AddElement
    <3>3. Cardinality(H') <= Cardinality(H \cup {t})
      BY <2>1, <3>2, FS_Subset
    <3> QED
      BY <1>1, <1>2, <1>3, <2>1, <2>2, <3>1, <3>3
  <2>3. CASE H' \subseteq H /\ handed'[x][o] = handed[x][o]
    <3>1. Cardinality(H') <= Cardinality(H)
      BY <1>1, <2>3, FS_Subset
    <3> QED
      BY <1>1, <1>2, <1>3, <2>1, <2>3, <3>1
  <2>4. CASE t \in H /\ t \notin H' /\ handed'[x][o] = handed[x][o] + 1 /\ UNCHANGED accepted
    <3>1. IsFiniteSet(H \ {t}) /\ Cardinality(H \ {t}) = Cardinality(H) - 1
      BY <1>1, <2>4, FS_RemoveElement
    <3>2. H' \subseteq H \ {t}
      BY <2>1, <2>4
    <3>3. Cardinality(H') <= Cardinality(H \ {t})
      BY <3>1, <3>2, FS_Subset
    <3> QED
      BY <1>1, <1>2, <1>3, <2>4, <3>1, <3>3
  <2> QED
    BY <2>1, <2>2, <2>3, <2>4
<1>5. ASSUME UNCHANGED <<pc, file, answer, dup, done, accepted, handed>>
      PROVE  handed'[x][o] + Cardinality(H') <= accepted'[x]
  <2>1. H' = H
    BY <1>5 DEF Holders, MayHand
  <2> HIDE DEF H
  <2> QED
    BY <1>3, <1>5, <2>1
<1> QED
  BY <1>4, <1>5, MonitorFrame DEF Next, vars, call, window, tally

(* However calls of the same file overlap, with each other and with changes *)
(* of the configuration, a subscription that does not allow duplicates has  *)
(* a file no more often than the duplicate check let it through.            *)
THEOREM DuplicatesAreCharged == Spec => []AtMostOncePerAcceptance
<1>1. Init => CreditInv
  <2> SUFFICES ASSUME Init, NEW x \in Files, NEW o \in Strict
               PROVE  handed[x][o] + Cardinality(Holders(x, o)) <= accepted[x]
    BY DEF CreditInv
  <2>1. Holders(x, o) = {}
    BY DEF Init, Holders, MayHand, Looping
  <2>2. handed[x][o] = 0 /\ accepted[x] = 0
    BY DEF Init
  <2> QED
    BY <2>1, <2>2, FS_EmptySet
<1>2. BaseInv /\ CreditInv => AtMostOncePerAcceptance
  <2> SUFFICES ASSUME BaseInv, CreditInv, NEW x \in Files, NEW o \in Strict
               PROVE  handed[x][o] <= accepted[x]
    BY DEF AtMostOncePerAcceptance
  <2>1. handed[x][o] \in Nat /\ accepted[x] \in Nat /\ Cardinality(Holders(x, o)) \in Nat
    BY HoldersFinite DEF BaseInv, TypeInv, TallyTypes
  <2>2. handed[x][o] + Cardinality(Holders(x, o)) <= accepted[x]
    BY DEF CreditInv
  <2> QED
    BY <2>1, <2>2
<1> QED
  BY <1>1, <1>2, NextCredit, BaseInvariance, NotTwiceInvariance, PTL DEF Spec

=============================================================================
