-------------------------- MODULE HandledFilesProofs -------------------------
(***************************************************************************)
(* Files that arrive are taken once.  HandledFiles, for every number of    *)
(* threads, hashes and every limit: the list is exactly the window, and    *)
(* add implements DuplicateWindow.  FolderWatch, for every folder: what is *)
(* handed over twice or unfinished, and what is left, has its reason.      *)
(***************************************************************************)
EXTENDS HandledFiles, FolderWatch, SequenceTheorems, FunctionTheorems, FiniteSetTheorems,
        TLAPS

(* The lock is held by the one thread whose program counter says so. *)
LockInv == \A t \in Threads : pc[t] \in Locked <=> lock = t

(* What a thread carries from one step of its call to the next. *)
CallInv ==
  \A t \in Threads :
    /\ arg[t] = NoHash <=> pc[t] = "idle"
    /\ answer[t] = "none" <=> pc[t] \in {"idle", "enter", "search", "insert"}
    /\ pc[t] = "insert" => \A i \in 1..Len(handled) : handled[i] # arg[t]

(* The list against the history, at every step, inside the lock or not. *)
WindowInv ==
  /\ Len(handled) <= count
  /\ \A i \in 1..Len(handled) : stamp[handled[i]] = count + 1 - i
  /\ \A h \in Hashes :
       (\A i \in 1..Len(handled) : handled[i] # h)
         => stamp[h] = 0 \/ count - stamp[h] >= Limit
  /\ Len(handled) <= Limit + 1
  /\ (\A t \in Threads : pc[t] # "trim") => Len(handled) <= Limit

Types ==
  /\ handled \in Seq(Hashes)
  /\ lock \in Threads \cup {NoThread}
  /\ pc \in [Threads -> Places]
  /\ arg \in [Threads -> Hashes \cup {NoHash}]
  /\ answer \in [Threads -> {"none", "new", "duplicate"}]
  /\ count \in Nat
  /\ stamp \in [Hashes -> 0..count]

IInv == Types /\ LockInv /\ CallInv /\ WindowInv

LEMMA InitIInv == Init => IInv
BY HandledFilesAssumption
DEF Init, IInv, Types, LockInv, CallInv, WindowInv, Places, Locked

(* A thread that may look at the list is alone with it: nobody is trimming. *)
LEMMA NobodyTrims ==
  ASSUME Types, LockInv, NEW t \in Threads, pc[t] \in Locked, pc[t] # "trim"
  PROVE  \A u \in Threads : pc[u] # "trim"
BY HandledFilesAssumption DEF Types, LockInv, Locked

LEMMA NextTypes == IInv /\ [Next]_vars => Types'
<1> SUFFICES ASSUME IInv, [Next]_vars PROVE Types'
  OBVIOUS
<1> USE HandledFilesAssumption DEF IInv, Types, Places
<1>1. ASSUME NEW t \in Threads, NEW h \in Hashes, Call(t, h) PROVE Types'
  BY <1>1 DEF Call, history
<1>2. ASSUME NEW t \in Threads, Acquire(t) PROVE Types'
  BY <1>2 DEF Acquire, history
<1>3. ASSUME NEW t \in Threads, Found(t) PROVE Types'
  BY <1>3 DEF Found, history
<1>4. ASSUME NEW t \in Threads, NotFound(t) PROVE Types'
  BY <1>4 DEF NotFound, history
<1>5. ASSUME NEW t \in Threads, Insert(t) PROVE Types'
  <2>1. arg[t] \in Hashes
    BY <1>5 DEF Insert, CallInv
  <2> QED
    BY <1>5, <2>1 DEF Insert
<1>6. ASSUME NEW t \in Threads, Trim(t) PROVE Types'
  <2>1. Trimmed(handled) \in Seq(Hashes)
    BY DEF Trimmed
  <2> QED
    BY <1>6, <2>1 DEF Trim, history
<1>7. ASSUME NEW t \in Threads, Release(t) PROVE Types'
  BY <1>7 DEF Release, history
<1>8. CASE Restart
  BY <1>8 DEF Restart
<1>9. CASE UNCHANGED vars
  BY <1>9 DEF vars
<1> QED
  BY <1>1, <1>2, <1>3, <1>4, <1>5, <1>6, <1>7, <1>8, <1>9 DEF Next, Step

LEMMA NextLockInv == IInv /\ [Next]_vars => LockInv'
<1> SUFFICES ASSUME IInv, [Next]_vars PROVE LockInv'
  OBVIOUS
<1> USE HandledFilesAssumption DEF IInv, Types, Places, LockInv, Locked
<1>1. ASSUME NEW t \in Threads, NEW h \in Hashes, Call(t, h) PROVE LockInv'
  BY <1>1 DEF Call
<1>2. ASSUME NEW t \in Threads, Acquire(t) PROVE LockInv'
  BY <1>2 DEF Acquire
<1>3. ASSUME NEW t \in Threads, Found(t) PROVE LockInv'
  BY <1>3 DEF Found
<1>4. ASSUME NEW t \in Threads, NotFound(t) PROVE LockInv'
  BY <1>4 DEF NotFound
<1>5. ASSUME NEW t \in Threads, Insert(t) PROVE LockInv'
  BY <1>5 DEF Insert
<1>6. ASSUME NEW t \in Threads, Trim(t) PROVE LockInv'
  BY <1>6 DEF Trim
<1>7. ASSUME NEW t \in Threads, Release(t) PROVE LockInv'
  BY <1>7 DEF Release
<1>8. CASE Restart
  BY <1>8 DEF Restart
<1>9. CASE UNCHANGED vars
  BY <1>9 DEF vars
<1> QED
  BY <1>1, <1>2, <1>3, <1>4, <1>5, <1>6, <1>7, <1>8, <1>9 DEF Next, Step

LEMMA NextCallInv == IInv /\ [Next]_vars => CallInv'
<1> SUFFICES ASSUME IInv, [Next]_vars PROVE CallInv'
  OBVIOUS
<1> USE HandledFilesAssumption DEF IInv, Types, Places, CallInv
<1>1. ASSUME NEW t \in Threads, NEW h \in Hashes, Call(t, h) PROVE CallInv'
  BY <1>1 DEF Call
<1>2. ASSUME NEW t \in Threads, Acquire(t) PROVE CallInv'
  BY <1>2 DEF Acquire
<1>3. ASSUME NEW t \in Threads, Found(t) PROVE CallInv'
  BY <1>3 DEF Found
<1>4. ASSUME NEW t \in Threads, NotFound(t) PROVE CallInv'
  BY <1>4 DEF NotFound, Elements
<1>5. ASSUME NEW t \in Threads, Insert(t) PROVE CallInv'
  <2>1. \A u \in Threads \ {t} : pc[u] # "insert"
    BY <1>5 DEF Insert, LockInv, Locked
  <2> QED
    BY <1>5, <2>1 DEF Insert
<1>6. ASSUME NEW t \in Threads, Trim(t) PROVE CallInv'
  <2>1. \A u \in Threads : pc[u] # "insert"
    BY <1>6 DEF Trim, LockInv, Locked
  <2> QED
    BY <1>6, <2>1 DEF Trim
<1>7. ASSUME NEW t \in Threads, Release(t) PROVE CallInv'
  BY <1>7 DEF Release
<1>8. CASE Restart
  BY <1>8 DEF Restart
<1>9. CASE UNCHANGED vars
  BY <1>9 DEF vars
<1> QED
  BY <1>1, <1>2, <1>3, <1>4, <1>5, <1>6, <1>7, <1>8, <1>9 DEF Next, Step

(* Putting a hash in front moves every other one back by one place. *)
LEMMA FrontInserted ==
  ASSUME NEW s \in Seq(Hashes), NEW h \in Hashes
  PROVE  /\ Len(<<h>> \o s) = Len(s) + 1
         /\ (<<h>> \o s)[1] = h
         /\ \A i \in 1..Len(s) : (<<h>> \o s)[i + 1] = s[i]
         /\ \A i \in 2..(Len(s) + 1) : (<<h>> \o s)[i] = s[i - 1]
OBVIOUS

LEMMA NextWindowInv == IInv /\ [Next]_vars => WindowInv'
<1> SUFFICES ASSUME IInv, [Next]_vars PROVE WindowInv'
  OBVIOUS
<1> USE HandledFilesAssumption DEF IInv, Types, Places, WindowInv
<1>1. ASSUME NEW t \in Threads, NEW h \in Hashes, Call(t, h) PROVE WindowInv'
  BY <1>1 DEF Call, history
<1>2. ASSUME NEW t \in Threads, Acquire(t) PROVE WindowInv'
  BY <1>2 DEF Acquire, history
<1>3. ASSUME NEW t \in Threads, Found(t) PROVE WindowInv'
  BY <1>3 DEF Found, history
<1>4. ASSUME NEW t \in Threads, NotFound(t) PROVE WindowInv'
  BY <1>4 DEF NotFound, history
<1>5. ASSUME NEW t \in Threads, Insert(t) PROVE WindowInv'
  <2>1. arg[t] \in Hashes
    BY <1>5 DEF Insert, CallInv
  <2>2. /\ Len(handled') = Len(handled) + 1
        /\ handled'[1] = arg[t]
        /\ \A i \in 1..Len(handled) : handled'[i + 1] = handled[i]
        /\ \A i \in 2..(Len(handled) + 1) : handled'[i] = handled[i - 1]
    BY <1>5, <2>1, FrontInserted DEF Insert
  <2>3. \A i \in 1..Len(handled) : handled[i] # arg[t]
    BY <1>5 DEF Insert, CallInv
  <2>4. Len(handled) <= Limit
    BY <1>5, NobodyTrims DEF Insert, Locked
  <2>5. Len(handled') <= count'
    BY <1>5, <2>2 DEF Insert
  <2>6. \A i \in 1..Len(handled') : stamp'[handled'[i]] = count' + 1 - i
    <3> TAKE i \in 1..Len(handled')
    <3>1. CASE i = 1
      BY <1>5, <2>1, <2>2, <3>1 DEF Insert
    <3>2. CASE i # 1
      <4>1. i - 1 \in 1..Len(handled) /\ handled'[i] = handled[i - 1]
        <5>1. Len(handled) \in Nat /\ i \in 2..(Len(handled) + 1)
          BY <2>2, <3>2
        <5> QED
          BY <2>2, <5>1
      <4>2. stamp'[handled'[i]] = stamp[handled[i - 1]]
        BY <1>5, <2>3, <4>1 DEF Insert
      <4> QED
        BY <1>5, <4>1, <4>2 DEF Insert
    <3> QED
      BY <3>1, <3>2
  <2>7. \A h \in Hashes :
          (\A i \in 1..Len(handled') : handled'[i] # h)
            => stamp'[h] = 0 \/ count' - stamp'[h] >= Limit
    <3> SUFFICES ASSUME NEW h \in Hashes,
                        \A i \in 1..Len(handled') : handled'[i] # h
                 PROVE  stamp'[h] = 0 \/ count' - stamp'[h] >= Limit
      OBVIOUS
    <3>1. h # arg[t]
      BY <2>2
    <3>2. \A i \in 1..Len(handled) : handled[i] # h
      <4> TAKE i \in 1..Len(handled)
      <4>1. i + 1 \in 1..Len(handled') /\ handled'[i + 1] = handled[i]
        BY <2>2
      <4> QED
        BY <4>1
    <3>3. stamp'[h] = stamp[h] /\ count' = count + 1
      BY <1>5, <3>1 DEF Insert
    <3>4. stamp[h] = 0 \/ count - stamp[h] >= Limit
      BY <3>2
    <3>5. stamp[h] \in Nat /\ count \in Nat /\ Limit \in Nat
      OBVIOUS
    <3> HIDE DEF WindowInv
    <3> QED
      BY <3>3, <3>4, <3>5
  <2>8. Len(handled') <= Limit + 1 /\ pc'[t] = "trim"
    BY <1>5, <2>2, <2>4 DEF Insert
  <2> QED
    BY <2>5, <2>6, <2>7, <2>8
<1>6. ASSUME NEW t \in Threads, Trim(t) PROVE WindowInv'
  <2>1. CASE Len(handled) > Limit
    <3>1. Len(handled) = Limit + 1
      BY <2>1
    <3>2. /\ Len(handled') = Limit
          /\ \A i \in 1..Limit : handled'[i] = handled[i]
      BY <1>6, <2>1, <3>1 DEF Trim, Trimmed
    <3>3. \A h \in Hashes :
            (\A i \in 1..Limit : handled[i] # h)
              => stamp[h] = 0 \/ count - stamp[h] >= Limit
      <4> SUFFICES ASSUME NEW h \in Hashes, \A i \in 1..Limit : handled[i] # h
                   PROVE  stamp[h] = 0 \/ count - stamp[h] >= Limit
        OBVIOUS
      <4>1. CASE handled[Limit + 1] = h
        <5>1. stamp[h] = count - Limit
          BY <3>1, <4>1
        <5> QED
          BY <5>1
      <4>2. CASE handled[Limit + 1] # h
        BY <3>1, <4>2
      <4> QED
        BY <4>1, <4>2
    <3>4. UNCHANGED <<count, stamp>>
      BY <1>6 DEF Trim, history
    <3>5. \A i \in 1..Len(handled') : stamp'[handled'[i]] = count' + 1 - i
      BY <3>1, <3>2, <3>4
    <3>6. \A h \in Hashes :
            (\A i \in 1..Len(handled') : handled'[i] # h)
              => stamp'[h] = 0 \/ count' - stamp'[h] >= Limit
      <4> SUFFICES ASSUME NEW h \in Hashes,
                          \A i \in 1..Len(handled') : handled'[i] # h
                   PROVE  stamp'[h] = 0 \/ count' - stamp'[h] >= Limit
        OBVIOUS
      <4>1. \A i \in 1..Limit : handled[i] # h
        BY <3>2
      <4>2. stamp[h] = 0 \/ count - stamp[h] >= Limit
        BY <3>3, <4>1
      <4> QED
        BY <3>4, <4>2
    <3>7. Len(handled') <= count' /\ Len(handled') <= Limit
      BY <3>1, <3>2, <3>4
    <3> QED
      BY <3>5, <3>6, <3>7
  <2>2. CASE ~(Len(handled) > Limit)
    <3>1. UNCHANGED <<handled, history>>
      BY <1>6, <2>2 DEF Trim, Trimmed
    <3> QED
      BY <2>2, <3>1 DEF history
  <2> QED
    BY <2>1, <2>2
<1>7. ASSUME NEW t \in Threads, Release(t) PROVE WindowInv'
  BY <1>7 DEF Release, history
<1>8. CASE Restart
  BY <1>8 DEF Restart
<1>9. CASE UNCHANGED vars
  BY <1>9 DEF vars
<1> QED
  BY <1>1, <1>2, <1>3, <1>4, <1>5, <1>6, <1>7, <1>8, <1>9 DEF Next, Step

LEMMA NextIInv == IInv /\ [Next]_vars => IInv'
BY NextTypes, NextLockInv, NextCallInv, NextWindowInv DEF IInv

THEOREM Invariance == Spec => []IInv
BY InitIInv, NextIInv, PTL DEF Spec

(* The types of the state, and the list never more than one over its limit *)
(* (HandledFiles.add), for every number of threads and every limit.        *)
THEOREM TypeCorrect == Spec => []TypeOK
<1>1. IInv => TypeOK
  <2> SUFFICES ASSUME IInv PROVE TypeOK
    OBVIOUS
  <2>1. Len(handled) <= Limit + (IF \E t \in Threads : pc[t] = "trim" THEN 1 ELSE 0)
    BY HandledFilesAssumption DEF IInv, Types, WindowInv
  <2> QED
    BY <2>1 DEF IInv, Types, TypeOK
<1> QED
  BY <1>1, Invariance, PTL

(* A remembered hash is recent. *)
LEMMA RememberedIsRecent ==
  ASSUME IInv, \A t \in Threads : pc[t] # "trim", NEW i \in 1..Len(handled)
  PROVE  Recent(handled[i])
BY HandledFilesAssumption DEF IInv, Types, WindowInv, Recent

(* A forgotten or never accepted hash is not. *)
LEMMA ForgottenIsNotRecent ==
  ASSUME IInv, NEW h \in Hashes, h \notin Elements(handled)
  PROVE  ~Recent(h)
<1>1. \A i \in 1..Len(handled) : handled[i] # h
  BY DEF Elements
<1>2. stamp[h] = 0 \/ count - stamp[h] >= Limit
  BY <1>1 DEF IInv, WindowInv
<1>3. stamp[h] \in Nat /\ count \in Nat /\ Limit \in Nat
  BY HandledFilesAssumption DEF IInv, Types
<1> QED
  BY <1>2, <1>3 DEF Recent

(* Outside the lock the list is exactly the window of the last Limit        *)
(* accepted hashes, newest first (HandledFiles.add).                        *)
THEOREM ListIsAlwaysTheWindow == Spec => []ListIsWindow
<1>1. IInv => ListIsWindow
  <2> SUFFICES ASSUME IInv, lock = NoThread PROVE ListIsWindow
    BY DEF ListIsWindow
  <2>1. \A t \in Threads : pc[t] # "trim"
    BY HandledFilesAssumption DEF IInv, LockInv, Locked
  <2>2. \A i \in 1..Len(handled) : stamp[handled[i]] = count + 1 - i
    BY DEF IInv, WindowInv
  <2>3. ASSUME NEW h \in Hashes PROVE h \in Elements(handled) <=> Recent(h)
    BY <2>1, RememberedIsRecent, ForgottenIsNotRecent DEF Elements
  <2> QED
    BY <2>2, <2>3 DEF ListIsWindow
<1> QED
  BY <1>1, Invariance, PTL

(* The search, made inside the lock, answers for the window: add is the     *)
(* atomic duplicate test that SimpleBackend.store_file takes it for.        *)
LEMMA StepSimulation == IInv /\ [Next]_vars => [Window!Next]_(Window!vars)
<1> SUFFICES ASSUME IInv, [Next]_vars PROVE [Window!Next]_(Window!vars)
  OBVIOUS
<1> USE DEF Window!vars
<1>1. ASSUME NEW t \in Threads, NEW h \in Hashes, Call(t, h) PROVE Window!Next
  <2>1. arg[t] = NoHash
    BY <1>1 DEF Call, IInv, CallInv
  <2> QED
    BY <1>1, <2>1 DEF Call, history, Window!Next, Window!Call
<1>2. ASSUME NEW t \in Threads, Acquire(t) PROVE UNCHANGED Window!vars
  BY <1>2 DEF Acquire, history
<1>3. ASSUME NEW t \in Threads, Found(t) PROVE Window!Next
  <2>1. arg[t] \in Hashes /\ answer[t] = "none"
    BY <1>3 DEF Found, IInv, CallInv, Types
  <2>2. Recent(arg[t])
    BY <1>3, NobodyTrims, RememberedIsRecent DEF Found, Elements, Locked, IInv
  <2>3. Window!Decide(t)
    BY <1>3, <2>1, <2>2 DEF Found, history, Window!Decide, Window!Recent, Recent
  <2> QED
    BY <2>3 DEF Window!Next
<1>4. ASSUME NEW t \in Threads, NotFound(t) PROVE UNCHANGED Window!vars
  BY <1>4 DEF NotFound, history
<1>5. ASSUME NEW t \in Threads, Insert(t) PROVE Window!Next
  <2>1. arg[t] \in Hashes /\ answer[t] = "none"
    BY <1>5 DEF Insert, IInv, CallInv, Types
  <2>2. ~Recent(arg[t])
    BY <1>5, <2>1, ForgottenIsNotRecent DEF Insert, IInv, CallInv, Elements
  <2>3. Window!Decide(t)
    BY <1>5, <2>1, <2>2 DEF Insert, Window!Decide, Window!Recent, Recent
  <2> QED
    BY <2>3 DEF Window!Next
<1>6. ASSUME NEW t \in Threads, Trim(t) PROVE UNCHANGED Window!vars
  BY <1>6 DEF Trim, history
<1>7. ASSUME NEW t \in Threads, Release(t) PROVE Window!Next
  <2>1. answer[t] # "none"
    BY <1>7 DEF Release, IInv, CallInv
  <2> QED
    BY <1>7, <2>1 DEF Release, history, Window!Next, Window!Return
<1>8. CASE Restart
  BY <1>8 DEF Restart, Window!Next, Window!Restart
<1>9. CASE UNCHANGED vars
  BY <1>9 DEF vars
<1> QED
  BY <1>1, <1>2, <1>3, <1>4, <1>5, <1>6, <1>7, <1>8, <1>9 DEF Next, Step

(* HandledFiles.add implements the abstract duplicate window: whatever the  *)
(* interleaving of the storing threads, a hash is answered "duplicate"      *)
(* exactly when it is one of the last Limit accepted ones.                  *)
THEOREM AddImplementsWindow == Spec => ImplementsWindow
<1>1. Init => Window!Init
  BY DEF Init, Window!Init
<1> QED
  BY <1>1, Invariance, StepSimulation, PTL DEF Spec, ImplementsWindow, Window!Spec

----------------------------------------------------------------------------
(* FolderWatch, the runner that gives the files of a folder to store_file, *)
(* for any finite set of files, either package, any pattern and both       *)
(* arguments.                                                              *)

WatchTypes ==
  /\ disk \in [Files -> {"none", "open", "whole"}]
  /\ spc \in {"new", "listed", "up", "stopping", "down"}
  /\ events \in Seq({"closed", "moved"} \X Files)
  /\ pending \in Seq(Files)
  /\ hand \in [{"watch", "pending"} -> Files \cup {NoFile}]
  /\ alive \in BOOLEAN /\ watchdog \in BOOLEAN
  /\ listed \subseteq Files
  /\ landed \in [Files -> {"not", "writing", "watched", "gap", "unwatched", "moved"}]
  /\ stored \in [Files -> Seq({"open", "whole"})]

(* A file lands once, and what landed while the watch was up was not there *)
(* when start() listed the folder, unless it was being written.            *)
FolderInv ==
  \A f \in Files :
    /\ landed[f] = "not" => disk[f] = "none" /\ stored[f] = <<>> /\ f \notin listed
    /\ disk[f] = "open" => landed[f] = "writing"
    /\ disk[f] = "whole" => landed[f] \notin {"not", "writing"}
    /\ landed[f] \in {"watched", "moved"} => spc \in {"up", "stopping", "down"}
    /\ landed[f] = "moved" => f \notin listed

(* There is one event for each file that landed, and it tells how.         *)
How(kind) == IF kind = "closed" THEN "watched" ELSE "moved"
NoticedInv ==
  /\ \A i \in 1..Len(events) : landed[events[i][2]] = How(events[i][1])
  /\ \A i, j \in 1..Len(events) : events[i][2] = events[j][2] => i = j
  /\ spc \notin {"up", "stopping"} => events = <<>>

Distinct(s) == \A i, j \in 1..Len(s) : s[i] = s[j] => i = j

PendingInv ==
  /\ \A i \in 1..Len(pending) : pending[i] \in listed
  /\ Distinct(pending)
  /\ spc = "new" => listed = {} /\ ~alive /\ hand["watch"] = NoFile /\ hand["pending"] = NoFile

(* An event names f; f is left for pending_run; the watch, or pending_run, *)
(* is past f.                                                              *)
Noticed(f) == \E i \in 1..Len(events) : events[i][2] = f
Left(f) == \E i \in 1..Len(pending) : pending[i] = f
PastWatch(f) == landed[f] \in {"watched", "moved"} /\ ~Noticed(f)
PastPending(f) == f \in listed /\ ~Left(f)

(* Each of the two threads gives a file to store_file once, after which it *)
(* is past it.                                                             *)
StoredInv ==
  \A f \in Files :
    /\ \A i \in 1..Len(stored[f]) : stored[f][i] = "open" => f \in listed
    /\ Len(stored[f]) <= 2
    /\ Len(stored[f]) >= 1 => PastWatch(f) \/ PastPending(f)
    /\ Len(stored[f]) = 2 => PastWatch(f) /\ PastPending(f)

(* Who still has to see a file that lies in the folder. *)
LeftInv ==
  /\ \A f \in Files : disk[f] # "none" /\ ~IsIgnored(f) =>
       /\ landed[f] = "watched" => Noticed(f) \/ hand["watch"] = f \/ spc = "down"
       /\ landed[f] = "moved" /\ ~watchdog => Noticed(f) \/ hand["watch"] = f \/ spc = "down"
       /\ landed[f] = "unwatched" /\ spc \in {"listed", "up"} => f \in listed
  /\ \A f \in listed : ProcessPending => Left(f) \/ hand["pending"] = f \/ disk[f] = "none"

WatchInv == WatchTypes /\ FolderInv /\ NoticedInv /\ PendingInv /\ StoredInv /\ LeftInv

LEMMA TailPlaces ==
  ASSUME NEW S, NEW s \in Seq(S), s # <<>>
  PROVE  /\ Tail(s) \in Seq(S) /\ Head(s) \in S /\ Head(s) = s[1]
         /\ Len(s) \in Nat /\ Len(s) >= 1 /\ 1 \in 1..Len(s) /\ Len(Tail(s)) = Len(s) - 1
         /\ \A i \in 1..Len(Tail(s)) : i + 1 \in 1..Len(s) /\ i + 1 # 1 /\ Tail(s)[i] = s[i + 1]
         /\ \A i \in 1..Len(s) : i = 1 \/ (i - 1 \in 1..Len(Tail(s)) /\ Tail(s)[i - 1] = s[i])
<1>1. Len(s) \in Nat /\ Len(s) >= 1 /\ Head(s) = s[1]
  OBVIOUS
<1>2. /\ Tail(s) \in Seq(S) /\ Head(s) \in S /\ Len(Tail(s)) = Len(s) - 1
      /\ \A i \in 1..Len(Tail(s)) : Tail(s)[i] = s[i + 1]
  BY HeadTailProperties
<1>3. \A i \in 1..Len(Tail(s)) : i + 1 \in 1..Len(s) /\ i + 1 # 1
  BY <1>1, <1>2
<1>4. ASSUME NEW i \in 1..Len(s), i # 1
      PROVE  i - 1 \in 1..Len(Tail(s)) /\ Tail(s)[i - 1] = s[i]
  <2>1. i - 1 \in 1..Len(Tail(s)) /\ (i - 1) + 1 = i
    BY <1>1, <1>2, <1>4
  <2> QED
    BY <1>2, <2>1
<1> QED
  BY <1>1, <1>2, <1>3, <1>4

LEMMA InitWatch == WatchInit => WatchInv
<1> SUFFICES ASSUME WatchInit PROVE WatchInv
  OBVIOUS
<1>1. /\ watchdog \in BOOLEAN /\ disk = [f \in Files |-> "none"] /\ spc = "new"
      /\ events = <<>> /\ pending = <<>> /\ hand = [w \in {"watch", "pending"} |-> NoFile]
      /\ alive = FALSE /\ listed = {} /\ landed = [f \in Files |-> "not"]
      /\ stored = [f \in Files |-> <<>>]
  BY DEF WatchInit, Workers
<1>2. \A S : <<>> \in Seq(S) /\ Len(<<>>) = 0
  OBVIOUS
<1>3. WatchTypes
  BY <1>1, <1>2 DEF WatchTypes
<1>4. 1..0 = {} /\ 0 <= 2 /\ ~(0 >= 1) /\ 0 # 2
  OBVIOUS
<1>5. FolderInv /\ NoticedInv /\ PendingInv
  BY <1>1, <1>2, <1>4 DEF FolderInv, NoticedInv, PendingInv, Distinct
<1>6. \A f \in Files : Len(stored[f]) = 0
  BY <1>1, <1>2
<1>7. StoredInv
  BY <1>4, <1>6 DEF StoredInv
<1>8. LeftInv
  BY <1>1 DEF LeftInv
<1> QED
  BY <1>3, <1>5, <1>7, <1>8 DEF WatchInv

LEMMA WatchCreates ==
  ASSUME WatchInv, NEW f \in Files, Create(f)
  PROVE  WatchInv'
<1>1. /\ disk[f] = "none" /\ landed[f] = "not"
      /\ disk' = [disk EXCEPT ![f] = "open"] /\ landed' = [landed EXCEPT ![f] = "writing"]
      /\ UNCHANGED <<watchdog, spc, events, pending, hand, alive, listed, stored>>
  BY DEF Create, workers
<1>2. WatchTypes'
  BY <1>1 DEF WatchInv, WatchTypes
<1>3. \A g \in Files : /\ disk'[g] = IF g = f THEN "open" ELSE disk[g]
                       /\ landed'[g] = IF g = f THEN "writing" ELSE landed[g]
  BY <1>1 DEF WatchInv, WatchTypes
<1>4. f \notin listed /\ Len(stored[f]) = 0
  BY <1>1 DEF WatchInv, FolderInv
<1>5. FolderInv'
  BY <1>1, <1>3, <1>4 DEF WatchInv, FolderInv
<1>6. \A i \in 1..Len(events) : events[i] \in {"closed", "moved"} \X Files
  BY DEF WatchInv, WatchTypes
<1>7. \A i \in 1..Len(events) : events[i][2] \in Files /\ events[i][2] # f
  BY <1>1, <1>6 DEF WatchInv, NoticedInv, How
<1>8. NoticedInv'
  BY <1>1, <1>3, <1>7 DEF WatchInv, NoticedInv, How
<1>9. PendingInv'
  BY <1>1 DEF WatchInv, PendingInv, Distinct
<1>10. \A g \in Files : /\ Noticed(g)' <=> Noticed(g)
                        /\ Left(g)' <=> Left(g)
                        /\ g # f => (PastWatch(g)' <=> PastWatch(g))
                        /\ PastPending(g)' <=> PastPending(g)
  BY <1>1, <1>3 DEF Noticed, Left, PastWatch, PastPending
<1>11. StoredInv'
  <2> SUFFICES ASSUME NEW g \in Files
               PROVE  /\ \A i \in 1..Len(stored[g]) : stored[g][i] = "open" => g \in listed
                      /\ Len(stored[g]) <= 2
                      /\ Len(stored[g]) >= 1 => PastWatch(g)' \/ PastPending(g)'
                      /\ Len(stored[g]) = 2 => PastWatch(g)' /\ PastPending(g)'
    BY <1>1 DEF StoredInv
  <2>1. CASE g = f
    BY <1>4, <2>1
  <2>2. CASE g # f
    BY <1>10, <2>2 DEF WatchInv, StoredInv
  <2> QED
    BY <2>1, <2>2
<1>12. LeftInv'
  <2>1. ASSUME NEW g \in Files, disk'[g] # "none", ~IsIgnored(g)
        PROVE  /\ landed'[g] = "watched" => Noticed(g)' \/ hand["watch"] = g \/ spc = "down"
               /\ landed'[g] = "moved" /\ ~watchdog => Noticed(g)' \/ hand["watch"] = g \/ spc = "down"
               /\ landed'[g] = "unwatched" /\ spc \in {"listed", "up"} => g \in listed
    BY <1>3, <1>10, <2>1 DEF WatchInv, LeftInv
  <2>2. ASSUME NEW g \in listed, ProcessPending
        PROVE  Left(g)' \/ hand["pending"] = g \/ disk'[g] = "none"
    <3>1. g \in Files /\ g # f
      BY <1>4 DEF WatchInv, WatchTypes
    <3> QED
      BY <1>3, <1>10, <2>2, <3>1 DEF WatchInv, LeftInv
  <2> QED
    BY <1>1, <2>1, <2>2 DEF LeftInv, IsIgnored
<1> QED
  BY <1>2, <1>5, <1>8, <1>9, <1>11, <1>12 DEF WatchInv

(* A file lands: its writer closes it, or it is moved into the folder. *)
LEMMA FileLands ==
  ASSUME WatchInv, NEW f \in Files, NEW kind \in {"closed", "moved"}, NEW d \in {"none", "whole"},
         NEW l, l = IF spc = "up" THEN (IF kind = "closed" THEN "watched" ELSE "moved")
                    ELSE IF spc = "listed" THEN "gap" ELSE "unwatched",
         landed[f] = (IF kind = "closed" THEN "writing" ELSE "not"),
         kind = "closed" /\ disk[f] = "none" => d = "none",
         disk' = [disk EXCEPT ![f] = d], landed' = [landed EXCEPT ![f] = l],
         events' = IF spc = "up" THEN Append(events, <<kind, f>>) ELSE events,
         UNCHANGED <<watchdog, spc, pending, hand, alive, listed, stored>>
  PROVE  WatchInv'
<1>1. l \in {"watched", "gap", "unwatched", "moved"}
  OBVIOUS
<1>2. /\ events \in Seq({"closed", "moved"} \X Files) /\ Len(events) \in Nat
      /\ <<kind, f>> \in {"closed", "moved"} \X Files
  BY DEF WatchInv, WatchTypes
<1>3. \A i \in 1..Len(events) : events[i] \in {"closed", "moved"} \X Files
  BY <1>2
<1>4. \A g \in Files : /\ disk'[g] = IF g = f THEN d ELSE disk[g]
                       /\ landed'[g] = IF g = f THEN l ELSE landed[g]
  BY DEF WatchInv, WatchTypes
<1>5. \A i \in 1..Len(events) : events[i][2] \in Files /\ events[i][2] # f
  BY <1>3 DEF WatchInv, NoticedInv, How
<1>6. ~Noticed(f)
  BY <1>5 DEF Noticed
<1>7. /\ events' \in Seq({"closed", "moved"} \X Files)
      /\ Len(events') = Len(events) \/ (spc = "up" /\ Len(events') = Len(events) + 1)
      /\ \A i \in 1..Len(events) : i \in 1..Len(events') /\ events'[i] = events[i]
      /\ \A i \in 1..Len(events') : i \in 1..Len(events) \/ (i = Len(events) + 1 /\ events'[i] = <<kind, f>>)
      /\ spc = "up" => Len(events) + 1 \in 1..Len(events') /\ events'[Len(events) + 1] = <<kind, f>>
  <2>1. CASE spc = "up"
    <3>1. events' = Append(events, <<kind, f>>)
      BY <2>1
    <3>2. /\ events' \in Seq({"closed", "moved"} \X Files) /\ Len(events') = Len(events) + 1
          /\ \A i \in 1..Len(events) : events'[i] = events[i]
          /\ events'[Len(events) + 1] = <<kind, f>>
      BY <1>2, <3>1, AppendProperties
    <3> QED
      BY <1>2, <2>1, <3>2
  <2>2. CASE spc # "up"
    BY <1>2, <2>2
  <2> QED
    BY <2>1, <2>2
<1>8. WatchTypes'
  <2>1. disk' \in [Files -> {"none", "open", "whole"}]
    BY DEF WatchInv, WatchTypes
  <2>2. landed' \in [Files -> {"not", "writing", "watched", "gap", "unwatched", "moved"}]
    BY <1>1 DEF WatchInv, WatchTypes
  <2> QED
    BY <1>7, <2>1, <2>2 DEF WatchInv, WatchTypes
<1>9. landed[f] = "not" => f \notin listed
  BY DEF WatchInv, FolderInv
<1>10. FolderInv'
  BY <1>1, <1>4, <1>9 DEF WatchInv, FolderInv
<1>11. NoticedInv'
  <2>1. \A i \in 1..Len(events') : landed'[events'[i][2]] = How(events'[i][1])
    <3> TAKE i \in 1..Len(events')
    <3>1. CASE i \in 1..Len(events)
      BY <1>4, <1>5, <1>7, <3>1 DEF WatchInv, NoticedInv, How
    <3>2. CASE i \notin 1..Len(events)
      <4>1. events'[i] = <<kind, f>> /\ spc = "up"
        BY <1>2, <1>7, <3>2
      <4> QED
        BY <1>4, <4>1 DEF How
    <3> QED
      BY <3>1, <3>2
  <2>2. ASSUME NEW i \in 1..Len(events'), NEW j \in 1..Len(events'), events'[i][2] = events'[j][2]
        PROVE  i = j
    <3>1. \A k \in 1..Len(events') : k \in 1..Len(events) \/ events'[k][2] = f
      BY <1>7
    <3>2. CASE i \in 1..Len(events) /\ j \in 1..Len(events)
      BY <1>7, <2>2, <3>2 DEF WatchInv, NoticedInv
    <3>3. CASE i \notin 1..Len(events) /\ j \notin 1..Len(events)
      BY <1>7, <3>3
    <3>4. CASE i \in 1..Len(events) <=> j \notin 1..Len(events)
      BY <1>5, <1>7, <2>2, <3>1, <3>4
    <3> QED
      BY <3>2, <3>3, <3>4
  <2>3. spc \notin {"up", "stopping"} => events' = <<>>
    BY DEF WatchInv, NoticedInv
  <2> QED
    BY <2>1, <2>2, <2>3 DEF NoticedInv
<1>12. PendingInv'
  BY DEF WatchInv, PendingInv, Distinct
<1>13. \A g \in Files : /\ Noticed(g)' <=> Noticed(g) \/ (g = f /\ spc = "up")
                        /\ Left(g)' <=> Left(g)
                        /\ PastPending(g)' <=> PastPending(g)
  BY <1>7 DEF Noticed, Left, PastPending
<1>14. \A g \in Files : PastWatch(g) => PastWatch(g)'
  BY <1>4, <1>13 DEF PastWatch
<1>15. StoredInv'
  BY <1>13, <1>14 DEF WatchInv, StoredInv
<1>16. LeftInv'
  <2>1. ASSUME NEW g \in Files, disk'[g] # "none", ~IsIgnored(g)
        PROVE  /\ landed'[g] = "watched" => Noticed(g)' \/ hand["watch"] = g \/ spc = "down"
               /\ landed'[g] = "moved" /\ ~watchdog => Noticed(g)' \/ hand["watch"] = g \/ spc = "down"
               /\ landed'[g] = "unwatched" /\ spc \in {"listed", "up"} => g \in listed
    <3>1. CASE g = f
      BY <1>4, <1>13, <3>1
    <3>2. CASE g # f
      BY <1>4, <1>13, <2>1, <3>2 DEF WatchInv, LeftInv
    <3> QED
      BY <3>1, <3>2
  <2>2. ASSUME NEW g \in listed, ProcessPending
        PROVE  Left(g)' \/ hand["pending"] = g \/ disk'[g] = "none"
    <3>1. g \in Files
      BY DEF WatchInv, WatchTypes
    <3>2. Left(g) \/ hand["pending"] = g \/ disk[g] = "none"
      BY <2>2 DEF WatchInv, LeftInv
    <3> QED
      BY <1>4, <1>9, <1>13, <3>1, <3>2
  <2> QED
    BY <2>1, <2>2 DEF LeftInv, IsIgnored
<1> QED
  BY <1>8, <1>10, <1>11, <1>12, <1>15, <1>16 DEF WatchInv

LEMMA WatchLands ==
  ASSUME WatchInv, NEW f \in Files, Close(f) \/ MoveIn(f)
  PROVE  WatchInv'
<1>1. CASE Close(f)
  <2> DEFINE d == IF disk[f] = "open" THEN "whole" ELSE disk[f]
             l == IF spc = "up" THEN "watched" ELSE IF spc = "listed" THEN "gap" ELSE "unwatched"
  <2>1. /\ landed[f] = "writing"
        /\ disk' = [disk EXCEPT ![f] = d] /\ landed' = [landed EXCEPT ![f] = l]
        /\ events' = IF spc = "up" THEN Append(events, <<"closed", f>>) ELSE events
        /\ UNCHANGED <<watchdog, spc, pending, hand, alive, listed, stored>>
    BY <1>1 DEF Close, Moment, Watching, Notify, workers
  <2>2. d \in {"none", "whole"} /\ (disk[f] = "none" => d = "none")
    BY DEF WatchInv, WatchTypes
  <2>3. l = IF spc = "up" THEN (IF "closed" = "closed" THEN "watched" ELSE "moved")
            ELSE IF spc = "listed" THEN "gap" ELSE "unwatched"
    OBVIOUS
  <2> HIDE DEF d, l
  <2> QED
    BY <2>1, <2>2, <2>3, FileLands
<1>2. CASE MoveIn(f)
  <2> DEFINE l == IF spc = "up" THEN "moved" ELSE IF spc = "listed" THEN "gap" ELSE "unwatched"
  <2>1. /\ landed[f] = "not"
        /\ disk' = [disk EXCEPT ![f] = "whole"] /\ landed' = [landed EXCEPT ![f] = l]
        /\ events' = IF spc = "up" THEN Append(events, <<"moved", f>>) ELSE events
        /\ UNCHANGED <<watchdog, spc, pending, hand, alive, listed, stored>>
    BY <1>2 DEF MoveIn, Moment, Watching, Notify, workers
  <2>2. l = IF spc = "up" THEN (IF "moved" = "closed" THEN "watched" ELSE "moved")
            ELSE IF spc = "listed" THEN "gap" ELSE "unwatched"
    OBVIOUS
  <2> HIDE DEF l
  <2> QED
    BY <2>1, <2>2, FileLands
<1> QED
  BY <1>1, <1>2

(* A sequence of SetToSeqs has each element of the set at one place. *)
LEMMA SetToSeqsOrders ==
  ASSUME NEW S, IsFiniteSet(S), NEW s \in SetToSeqs(S)
  PROVE  s \in Seq(S) /\ Distinct(s) /\ \A x \in S : \E i \in 1..Len(s) : s[i] = x
<1> DEFINE n == Cardinality(S)
<1>1. n \in Nat
  BY FS_CardinalityType
<1>2. s \in [1..n -> S] /\ \A i, j \in 1..n : i # j => s[i] # s[j]
  BY DEF SetToSeqs
<1>3. s \in Seq(S) /\ Len(s) = n
  BY <1>1, <1>2
<1>4. s \in Injection(1..n, S)
  BY <1>2, Fun_IsInj
<1>5. IsFiniteSet(1..n) /\ Cardinality(1..n) = n
  BY <1>1, FS_Interval
<1>6. s \in Surjection(1..n, S)
  BY <1>4, <1>5, FS_Injection
<1>7. \A x \in S : \E i \in 1..n : s[i] = x
  BY <1>6 DEF Surjection
<1> QED
  BY <1>2, <1>3, <1>7 DEF Distinct

LEMMA WatchLists ==
  ASSUME WatchInv, List
  PROVE  WatchInv'
<1>0. List
  OBVIOUS
<1>1. /\ spc = "new" /\ spc' = "listed"
      /\ listed' = {f \in Files : disk[f] # "none" /\ ~IsIgnored(f)}
      /\ alive' = (listed' # {} /\ ProcessPending)
      /\ pending' \in IF alive' THEN SetToSeqs(listed') ELSE {<<>>}
      /\ UNCHANGED <<watchdog, disk, events, hand, landed, stored>>
  <2>1. /\ spc = "new" /\ spc' = "listed"
        /\ UNCHANGED <<watchdog, disk, events, hand, landed, stored>>
    BY <1>0 DEF List
  <2>2. listed' = {f \in Files : disk[f] # "none" /\ ~IsIgnored(f)}
    BY <1>0 DEF List
  <2>3. alive' = (listed' # {} /\ ProcessPending)
    BY <1>0 DEF List
  <2>4. pending' \in IF alive' THEN SetToSeqs(listed') ELSE {<<>>}
    BY <1>0 DEF List
  <2> QED
    BY <2>1, <2>2, <2>3, <2>4
<1>2. /\ listed' \subseteq Files /\ IsFiniteSet(listed') /\ alive' \in BOOLEAN
      /\ \A f \in listed' : disk[f] # "none" /\ ~IsIgnored(f)
  <2>1. listed' \subseteq Files /\ \A f \in listed' : disk[f] # "none" /\ ~IsIgnored(f)
    BY <1>1
  <2>2. alive' \in BOOLEAN
    BY <1>1
  <2>3. IsFiniteSet(listed')
    <3>1. IsFiniteSet(Files) /\ listed' \in SUBSET Files
      BY <2>1, WatchAssumption
    <3> QED
      BY <3>1, FS_Subset
  <2> QED
    BY <2>1, <2>2, <2>3
<1>3. /\ pending' \in Seq(listed') /\ Distinct(pending')
      /\ ProcessPending => \A f \in listed' : Left(f)'
  <2>1. CASE alive'
    <3>1. pending' \in SetToSeqs(listed')
      BY <1>1, <2>1
    <3>2. /\ pending' \in Seq(listed') /\ Distinct(pending')
          /\ \A x \in listed' : \E i \in 1..Len(pending') : pending'[i] = x
      BY <1>2, <3>1, SetToSeqsOrders
    <3> QED
      BY <3>2 DEF Left
  <2>2. CASE ~alive'
    <3>1. pending' = <<>> /\ (ProcessPending => listed' = {})
      BY <1>1, <2>2
    <3>2. <<>> \in Seq(listed') /\ Len(<<>>) = 0 /\ 1..0 = {}
      OBVIOUS
    <3> QED
      BY <3>1, <3>2 DEF Distinct
  <2> QED
    BY <2>1, <2>2
<1>4. pending' \in Seq(Files) /\ \A i \in 1..Len(pending') : pending'[i] \in listed'
  BY <1>2, <1>3
<1>5. WatchTypes'
  BY <1>1, <1>2, <1>4 DEF WatchInv, WatchTypes
<1>6. listed = {} /\ events = <<>> /\ \A f \in Files : landed[f] \notin {"watched", "moved"}
  BY <1>1 DEF WatchInv, PendingInv, NoticedInv, FolderInv
<1>7. FolderInv'
  BY <1>1, <1>2, <1>6 DEF WatchInv, FolderInv
<1>8. NoticedInv' /\ PendingInv'
  BY <1>1, <1>3, <1>4 DEF WatchInv, NoticedInv, PendingInv
<1>9. \A f \in Files : ~PastWatch(f) /\ ~PastPending(f)
  BY <1>6 DEF PastWatch, PastPending
<1>10. \A f \in Files : Len(stored[f]) \in Nat /\ ~(Len(stored[f]) >= 1)
  BY <1>9 DEF WatchInv, StoredInv, WatchTypes
<1>11. StoredInv'
  BY <1>1, <1>10 DEF StoredInv
<1>12. LeftInv'
  BY <1>1, <1>2, <1>3, <1>6 DEF LeftInv, IsIgnored
<1> QED
  BY <1>5, <1>7, <1>8, <1>11, <1>12 DEF WatchInv

LEMMA WatchSwitches ==
  ASSUME WatchInv, Watch \/ StopWatch \/ StopJoin
  PROVE  WatchInv'
<1>1. /\ UNCHANGED <<watchdog, disk, pending, hand, alive, listed, landed, stored>>
      /\ \/ spc = "listed" /\ spc' = "up" /\ UNCHANGED events
         \/ spc = "up" /\ spc' = "stopping" /\ UNCHANGED events
         \/ spc = "stopping" /\ spc' = "down" /\ events' = <<>>
  BY DEF Watch, StopWatch, StopJoin, workers
<1>2. \A S : <<>> \in Seq(S) /\ Len(<<>>) = 0 /\ 1..0 = {}
  OBVIOUS
<1>3. WatchTypes'
  BY <1>1, <1>2 DEF WatchInv, WatchTypes
<1>4. FolderInv' /\ PendingInv'
  BY <1>1 DEF WatchInv, FolderInv, PendingInv
<1>5. NoticedInv'
  BY <1>1, <1>2 DEF WatchInv, NoticedInv
<1>6. \A f : /\ Left(f)' <=> Left(f)
             /\ Noticed(f)' => Noticed(f)
             /\ spc' # "down" => (Noticed(f)' <=> Noticed(f))
             /\ PastPending(f)' <=> PastPending(f)
             /\ PastWatch(f) => PastWatch(f)'
  BY <1>1, <1>2 DEF Left, Noticed, PastPending, PastWatch
<1>7. StoredInv'
  BY <1>1, <1>6 DEF WatchInv, StoredInv
<1>8. LeftInv'
  BY <1>1, <1>6 DEF WatchInv, LeftInv, IsIgnored
<1> QED
  BY <1>3, <1>4, <1>5, <1>7, <1>8 DEF WatchInv

(* The thread of the watch takes the next event. *)
LEMMA NextEvent ==
  ASSUME WatchInv, events # <<>>, events' = Tail(events), UNCHANGED landed
  PROVE  /\ Head(events) \in {"closed", "moved"} \X Files
         /\ landed[Head(events)[2]] = How(Head(events)[1])
         /\ events' \in Seq({"closed", "moved"} \X Files)
         /\ spc \in {"up", "stopping"} /\ spc' = spc => NoticedInv'
         /\ Noticed(Head(events)[2])
         /\ \A g \in Files : Noticed(g)' <=> Noticed(g) /\ g # Head(events)[2]
<1> DEFINE t == Tail(events)  e == Head(events)
<1>1. events \in Seq({"closed", "moved"} \X Files)
  BY DEF WatchInv, WatchTypes
<1>2. /\ t \in Seq({"closed", "moved"} \X Files) /\ e \in {"closed", "moved"} \X Files
      /\ e = events[1] /\ 1 \in 1..Len(events) /\ Len(events) \in Nat /\ Len(t) = Len(events) - 1
      /\ \A i \in 1..Len(t) : i + 1 \in 1..Len(events) /\ i + 1 # 1 /\ t[i] = events[i + 1]
      /\ \A i \in 1..Len(events) : i = 1 \/ (i - 1 \in 1..Len(t) /\ t[i - 1] = events[i])
  BY <1>1, TailPlaces
<1> HIDE DEF t, e
<1>3. landed[e[2]] = How(e[1]) /\ Noticed(e[2])
  BY <1>2 DEF WatchInv, NoticedInv, Noticed
<1>4. \A i, j \in 1..Len(t) : t[i][2] = t[j][2] => i = j
  <2> TAKE i, j \in 1..Len(t)
  <2> HAVE t[i][2] = t[j][2]
  <2>1. i + 1 = j + 1
    BY <1>2 DEF WatchInv, NoticedInv
  <2> QED
    BY <2>1
<1>5. \A i \in 1..Len(t) : landed[t[i][2]] = How(t[i][1])
  BY <1>2 DEF WatchInv, NoticedInv
<1>6. events' = t /\ landed' = landed
  BY DEF t
<1>7. spc \in {"up", "stopping"} /\ spc' = spc => NoticedInv'
  BY <1>4, <1>5, <1>6 DEF NoticedInv
<1>8. ASSUME NEW g \in Files PROVE Noticed(g)' <=> Noticed(g) /\ g # e[2]
  <2>1. ASSUME NEW i \in 1..Len(t), t[i][2] = g PROVE Noticed(g) /\ g # e[2]
    <3>1. i + 1 \in 1..Len(events) /\ events[i + 1][2] = g /\ i + 1 # 1
      BY <1>2, <2>1
    <3> QED
      BY <1>2, <3>1 DEF Noticed, WatchInv, NoticedInv
  <2>2. ASSUME NEW i \in 1..Len(events), events[i][2] = g, g # e[2]
        PROVE  \E j \in 1..Len(t) : t[j][2] = g
    BY <1>2, <2>2
  <2> QED
    BY <1>6, <2>1, <2>2 DEF Noticed
<1> QED
  BY <1>2, <1>3, <1>6, <1>7, <1>8 DEF t, e

LEMMA WatchSkips ==
  ASSUME WatchInv, Skip
  PROVE  WatchInv'
<1> DEFINE f == Head(events)[2]
<1>1. /\ spc \in {"up", "stopping"} /\ events # <<>> /\ events' = Tail(events)
      /\ ~Forwards(Head(events)[1]) \/ IsIgnored(f)
      /\ UNCHANGED <<watchdog, disk, spc, pending, hand, alive, listed, landed, stored>>
  BY DEF Skip, workers
<1>2. /\ f \in Files /\ Head(events)[1] \in {"closed", "moved"}
      /\ landed[f] = How(Head(events)[1]) /\ NoticedInv'
      /\ events' \in Seq({"closed", "moved"} \X Files)
      /\ Noticed(f) /\ \A g \in Files : Noticed(g)' <=> Noticed(g) /\ g # f
  BY <1>1, NextEvent
<1>3. IsIgnored(f) \/ (landed[f] = "moved" /\ watchdog)
  BY <1>1, <1>2 DEF Forwards, How
<1> HIDE DEF f
<1>4. WatchTypes' /\ FolderInv' /\ PendingInv'
  BY <1>1, <1>2 DEF WatchInv, WatchTypes, FolderInv, PendingInv
<1>5. \A g \in Files : /\ PastPending(g)' <=> PastPending(g)
                       /\ Left(g)' <=> Left(g)
                       /\ PastWatch(g) => PastWatch(g)'
  BY <1>1, <1>2 DEF PastPending, Left, PastWatch
<1>6. StoredInv'
  BY <1>1, <1>5 DEF WatchInv, StoredInv
<1>7. LeftInv'
  <2>1. ASSUME NEW g \in Files, disk[g] # "none", ~IsIgnored(g)
        PROVE  /\ landed[g] = "watched" => Noticed(g)' \/ hand["watch"] = g \/ spc = "down"
               /\ landed[g] = "moved" /\ ~watchdog => Noticed(g)' \/ hand["watch"] = g \/ spc = "down"
               /\ landed[g] = "unwatched" /\ spc \in {"listed", "up"} => g \in listed
    BY <1>2, <1>3, <2>1 DEF WatchInv, LeftInv
  <2>2. \A g \in listed : ProcessPending => Left(g)' \/ hand["pending"] = g \/ disk[g] = "none"
    BY <1>5 DEF WatchInv, LeftInv, WatchTypes
  <2> QED
    BY <1>1, <2>1, <2>2 DEF LeftInv, IsIgnored
<1> QED
  BY <1>2, <1>4, <1>6, <1>7 DEF WatchInv

(* store_file reads the file, if it is there. *)
LEMMA FileIsStored ==
  ASSUME WatchInv, NEW f \in Files, StoreFile(f)
  PROVE  /\ stored' \in [Files -> Seq({"open", "whole"})]
         /\ \A g \in Files : g # f => stored'[g] = stored[g]
         /\ Len(stored[f]) \in Nat /\ Len(stored'[f]) \in Nat
         /\ Len(stored'[f]) <= Len(stored[f]) + 1
         /\ \A i \in 1..Len(stored'[f]) : stored'[f][i] = "open" =>
              disk[f] = "open" \/ \E j \in 1..Len(stored[f]) : stored[f][j] = "open"
<1> DEFINE s == stored[f]
<1>1. /\ stored \in [Files -> Seq({"open", "whole"})] /\ s \in Seq({"open", "whole"})
      /\ Len(s) \in Nat /\ disk[f] \in {"none", "open", "whole"}
  BY DEF WatchInv, WatchTypes
<1>2. CASE disk[f] = "none"
  <2>1. stored' = [stored EXCEPT ![f] = s]
    BY <1>2 DEF StoreFile
  <2>2. stored' \in [Files -> Seq({"open", "whole"})] /\ \A g \in Files : stored'[g] = stored[g]
    BY <1>1, <2>1
  <2> QED
    BY <1>1, <2>2
<1>3. CASE disk[f] # "none"
  <2> DEFINE t == Append(s, disk[f])
  <2>1. stored' = [stored EXCEPT ![f] = t]
    BY <1>3 DEF StoreFile
  <2>2. disk[f] \in {"open", "whole"}
    BY <1>1, <1>3
  <2>3. /\ t \in Seq({"open", "whole"}) /\ Len(t) = Len(s) + 1
        /\ \A i \in 1..Len(s) : t[i] = s[i]
        /\ t[Len(s) + 1] = disk[f]
    BY <1>1, <2>2, AppendProperties
  <2>4. \A i \in 1..Len(t) : i \in 1..Len(s) \/ i = Len(s) + 1
    BY <1>1, <2>3
  <2> HIDE DEF t
  <2>5. stored' \in [Files -> Seq({"open", "whole"})] /\ stored'[f] = t
        /\ \A g \in Files : g # f => stored'[g] = stored[g]
    BY <1>1, <2>1, <2>3
  <2> QED
    BY <1>1, <2>3, <2>4, <2>5
<1> QED
  BY <1>2, <1>3

LEMMA WatchDelivers ==
  ASSUME WatchInv, Deliver
  PROVE  WatchInv'
<1>0. PICK f : f = Head(events)[2]
  OBVIOUS
<1>1. /\ spc \in {"up", "stopping"} /\ events # <<>> /\ events' = Tail(events)
      /\ hand["watch"] = NoFile /\ hand' = [hand EXCEPT !["watch"] = f]
      /\ StoreFile(f)
      /\ UNCHANGED <<watchdog, disk, spc, pending, alive, listed, landed>>
  BY <1>0 DEF Deliver
<1>2. /\ f \in Files /\ Head(events)[1] \in {"closed", "moved"}
      /\ landed[f] = How(Head(events)[1]) /\ NoticedInv'
      /\ events' \in Seq({"closed", "moved"} \X Files)
      /\ Noticed(f) /\ \A g \in Files : Noticed(g)' <=> Noticed(g) /\ g # f
  BY <1>0, <1>1, NextEvent
<1>3. landed[f] \in {"watched", "moved"} /\ disk[f] # "open"
  BY <1>2 DEF How, WatchInv, FolderInv
<1>4. /\ stored' \in [Files -> Seq({"open", "whole"})]
      /\ \A g \in Files : g # f => stored'[g] = stored[g]
      /\ Len(stored[f]) \in Nat /\ Len(stored'[f]) \in Nat
      /\ Len(stored'[f]) <= Len(stored[f]) + 1
      /\ \A i \in 1..Len(stored'[f]) : stored'[f][i] = "open" =>
           \E j \in 1..Len(stored[f]) : stored[f][j] = "open"
  BY <1>1, <1>2, <1>3, FileIsStored
<1>5. /\ hand' \in [{"watch", "pending"} -> Files \cup {NoFile}]
      /\ hand'["watch"] = f /\ hand'["pending"] = hand["pending"]
  BY <1>1, <1>2 DEF WatchInv, WatchTypes
<1>6. WatchTypes'
  BY <1>1, <1>2, <1>4, <1>5 DEF WatchInv, WatchTypes
<1>7. FolderInv'
  BY <1>1, <1>3, <1>4 DEF WatchInv, FolderInv
<1>8. PendingInv'
  BY <1>1 DEF WatchInv, PendingInv, Distinct
<1>9. /\ \A g \in Files : PastPending(g)' <=> PastPending(g)
      /\ \A g \in Files : Left(g)' <=> Left(g)
      /\ \A g \in Files : PastWatch(g) => PastWatch(g)'
      /\ ~PastWatch(f) /\ PastWatch(f)'
  <2>1. \A g \in Files : (PastPending(g)' <=> PastPending(g)) /\ (Left(g)' <=> Left(g))
    BY <1>1 DEF PastPending, Left
  <2>2. \A g \in Files : PastWatch(g) => PastWatch(g)'
    BY <1>1, <1>2 DEF PastWatch
  <2>3. ~PastWatch(f) /\ PastWatch(f)'
    BY <1>1, <1>2, <1>3 DEF PastWatch
  <2> QED
    BY <2>1, <2>2, <2>3
<1>10. StoredInv'
  <2> SUFFICES ASSUME NEW g \in Files
               PROVE  /\ \A i \in 1..Len(stored'[g]) : stored'[g][i] = "open" => g \in listed
                      /\ Len(stored'[g]) <= 2
                      /\ Len(stored'[g]) >= 1 => PastWatch(g)' \/ PastPending(g)'
                      /\ Len(stored'[g]) = 2 => PastWatch(g)' /\ PastPending(g)'
    BY <1>1 DEF StoredInv
  <2>1. CASE g = f
    <3>1. /\ \A j \in 1..Len(stored[f]) : stored[f][j] = "open" => f \in listed
          /\ Len(stored[f]) <= 2 /\ Len(stored[f]) # 2
          /\ Len(stored[f]) >= 1 => PastPending(f)
      BY <1>2, <1>9 DEF WatchInv, StoredInv
    <3> DEFINE m == Len(stored[f])  k == Len(stored'[f])
    <3>2. m \in Nat /\ k \in Nat /\ k <= m + 1 /\ m <= 2 /\ m # 2
      BY <1>4, <3>1
    <3> HIDE DEF m, k
    <3>3. k <= 2 /\ (k = 2 => m >= 1)
      BY <3>2
    <3> USE DEF m, k
    <3>4. \A i \in 1..k : stored'[f][i] = "open" => f \in listed
      BY <1>4, <3>1
    <3>5. k = 2 => PastPending(f)
      BY <3>1, <3>3
    <3> HIDE DEF m, k
    <3>6. /\ \A i \in 1..k : stored'[f][i] = "open" => f \in listed
          /\ k <= 2 /\ (k >= 1 => PastWatch(f)' \/ PastPending(f)')
          /\ k = 2 => PastWatch(f)' /\ PastPending(f)'
      BY <1>2, <1>9, <3>3, <3>4, <3>5
    <3> QED
      BY <2>1, <3>6 DEF k
  <2>2. CASE g # f
    BY <1>4, <1>9, <2>2 DEF WatchInv, StoredInv
  <2> QED
    BY <2>1, <2>2
<1>11. LeftInv'
  <2>1. ASSUME NEW g \in Files, disk[g] # "none", ~IsIgnored(g)
        PROVE  /\ landed[g] = "watched" => Noticed(g)' \/ hand'["watch"] = g \/ spc = "down"
               /\ landed[g] = "moved" /\ ~watchdog => Noticed(g)' \/ hand'["watch"] = g \/ spc = "down"
               /\ landed[g] = "unwatched" /\ spc \in {"listed", "up"} => g \in listed
    <3>1. hand["watch"] # g
      BY <1>1, WatchAssumption
    <3> QED
      BY <1>2, <1>5, <2>1, <3>1 DEF WatchInv, LeftInv
  <2>2. \A g \in listed : ProcessPending => Left(g)' \/ hand'["pending"] = g \/ disk[g] = "none"
    BY <1>5, <1>9 DEF WatchInv, LeftInv, WatchTypes
  <2> QED
    BY <1>1, <2>1, <2>2 DEF LeftInv, IsIgnored
<1> QED
  BY <1>2, <1>6, <1>7, <1>8, <1>10, <1>11 DEF WatchInv

LEMMA PendingTakes ==
  ASSUME WatchInv, TakePending
  PROVE  WatchInv'
<1>0. PICK f : f = Head(pending)
  OBVIOUS
<1> DEFINE t == Tail(pending)
<1>1. /\ hand["pending"] = NoFile /\ hand' = [hand EXCEPT !["pending"] = f]
      /\ pending # <<>> /\ pending' = t
      /\ StoreFile(f)
      /\ UNCHANGED <<watchdog, disk, spc, events, alive, listed, landed>>
  BY <1>0 DEF TakePending
<1>2. pending \in Seq(Files)
  BY DEF WatchInv, WatchTypes
<1>3. /\ t \in Seq(Files) /\ f \in Files /\ f = pending[1] /\ 1 \in 1..Len(pending)
      /\ Len(pending) \in Nat /\ Len(t) = Len(pending) - 1
      /\ \A i \in 1..Len(t) : i + 1 \in 1..Len(pending) /\ i + 1 # 1 /\ t[i] = pending[i + 1]
      /\ \A i \in 1..Len(pending) : i = 1 \/ (i - 1 \in 1..Len(t) /\ t[i - 1] = pending[i])
  BY <1>0, <1>1, <1>2, TailPlaces
<1> HIDE DEF t
<1>4. f \in listed /\ spc # "new"
  BY <1>3 DEF WatchInv, PendingInv
<1>5. Left(f) /\ \A g \in Files : Left(g)' <=> Left(g) /\ g # f
  <2>1. ASSUME NEW g \in Files, NEW i \in 1..Len(t), t[i] = g PROVE Left(g) /\ g # f
    <3>1. i + 1 \in 1..Len(pending) /\ pending[i + 1] = g /\ i + 1 # 1
      BY <1>3, <2>1
    <3> QED
      BY <1>3, <3>1 DEF Left, WatchInv, PendingInv, Distinct
  <2>2. ASSUME NEW g \in Files, NEW i \in 1..Len(pending), pending[i] = g, g # f
        PROVE  \E j \in 1..Len(t) : t[j] = g
    BY <1>3, <2>2
  <2> QED
    BY <1>1, <1>3, <2>1, <2>2 DEF Left
<1>6. PendingInv'
  <2>1. \A i \in 1..Len(t) : t[i] \in listed
    BY <1>3 DEF WatchInv, PendingInv
  <2>2. ASSUME NEW i \in 1..Len(t), NEW j \in 1..Len(t), t[i] = t[j] PROVE i = j
    <3>1. i + 1 = j + 1
      BY <1>3, <2>2 DEF WatchInv, PendingInv, Distinct
    <3> QED
      BY <3>1
  <2> QED
    BY <1>1, <1>4, <2>1, <2>2 DEF PendingInv, Distinct
<1>7. /\ stored' \in [Files -> Seq({"open", "whole"})]
      /\ \A g \in Files : g # f => stored'[g] = stored[g]
      /\ Len(stored[f]) \in Nat /\ Len(stored'[f]) \in Nat
      /\ Len(stored'[f]) <= Len(stored[f]) + 1
  BY <1>1, <1>3, FileIsStored
<1>8. /\ hand' \in [{"watch", "pending"} -> Files \cup {NoFile}]
      /\ hand'["pending"] = f /\ hand'["watch"] = hand["watch"]
  BY <1>1, <1>3 DEF WatchInv, WatchTypes
<1>9. WatchTypes'
  BY <1>1, <1>3, <1>7, <1>8 DEF WatchInv, WatchTypes
<1>10. FolderInv'
  BY <1>1, <1>4, <1>7 DEF WatchInv, FolderInv
<1>11. NoticedInv'
  BY <1>1 DEF WatchInv, NoticedInv
<1>12. /\ \A g \in Files : Noticed(g)' <=> Noticed(g)
       /\ \A g \in Files : PastWatch(g)' <=> PastWatch(g)
       /\ \A g \in Files : PastPending(g) => PastPending(g)'
       /\ ~PastPending(f) /\ PastPending(f)'
  <2>1. \A g \in Files : (Noticed(g)' <=> Noticed(g)) /\ (PastWatch(g)' <=> PastWatch(g))
    BY <1>1 DEF Noticed, PastWatch
  <2>2. \A g \in Files : PastPending(g) => PastPending(g)'
    BY <1>1, <1>5 DEF PastPending
  <2>3. ~PastPending(f) /\ PastPending(f)'
    BY <1>1, <1>3, <1>4, <1>5 DEF PastPending
  <2> QED
    BY <2>1, <2>2, <2>3
<1>13. StoredInv'
  <2> SUFFICES ASSUME NEW g \in Files
               PROVE  /\ \A i \in 1..Len(stored'[g]) : stored'[g][i] = "open" => g \in listed
                      /\ Len(stored'[g]) <= 2
                      /\ Len(stored'[g]) >= 1 => PastWatch(g)' \/ PastPending(g)'
                      /\ Len(stored'[g]) = 2 => PastWatch(g)' /\ PastPending(g)'
    BY <1>1 DEF StoredInv
  <2>1. CASE g = f
    <3>1. /\ Len(stored[f]) <= 2 /\ Len(stored[f]) # 2
          /\ Len(stored[f]) >= 1 => PastWatch(f)
      BY <1>3, <1>12 DEF WatchInv, StoredInv
    <3> DEFINE m == Len(stored[f])  k == Len(stored'[f])
    <3>2. m \in Nat /\ k \in Nat /\ k <= m + 1 /\ m <= 2 /\ m # 2
      BY <1>7, <3>1
    <3> HIDE DEF m, k
    <3>3. k <= 2 /\ (k = 2 => m >= 1)
      BY <3>2
    <3> USE DEF m, k
    <3>4. k = 2 => PastWatch(f)
      BY <3>1, <3>3
    <3> HIDE DEF m, k
    <3>5. /\ k <= 2 /\ (k >= 1 => PastWatch(f)' \/ PastPending(f)')
          /\ k = 2 => PastWatch(f)' /\ PastPending(f)'
      BY <1>3, <1>12, <3>3, <3>4
    <3> QED
      BY <1>4, <2>1, <3>5 DEF k
  <2>2. CASE g # f
    BY <1>7, <1>12, <2>2 DEF WatchInv, StoredInv
  <2> QED
    BY <2>1, <2>2
<1>14. LeftInv'
  <2>1. ASSUME NEW g \in Files, disk[g] # "none", ~IsIgnored(g)
        PROVE  /\ landed[g] = "watched" => Noticed(g)' \/ hand'["watch"] = g \/ spc = "down"
               /\ landed[g] = "moved" /\ ~watchdog => Noticed(g)' \/ hand'["watch"] = g \/ spc = "down"
               /\ landed[g] = "unwatched" /\ spc \in {"listed", "up"} => g \in listed
    BY <1>8, <1>12, <2>1 DEF WatchInv, LeftInv
  <2>2. ASSUME NEW g \in listed, ProcessPending
        PROVE  Left(g)' \/ hand'["pending"] = g \/ disk[g] = "none"
    <3>1. g \in Files /\ hand["pending"] # g
      BY <1>1, WatchAssumption DEF WatchInv, WatchTypes
    <3> QED
      BY <1>5, <1>8, <2>2, <3>1 DEF WatchInv, LeftInv
  <2> QED
    BY <1>1, <2>1, <2>2 DEF LeftInv, IsIgnored
<1> QED
  BY <1>6, <1>9, <1>10, <1>11, <1>13, <1>14 DEF WatchInv

LEMMA WatchUnlinks ==
  ASSUME WatchInv, NEW w \in {"watch", "pending"}, Unlink(w)
  PROVE  WatchInv'
<1>1. /\ hand[w] # NoFile /\ hand' = [hand EXCEPT ![w] = NoFile]
      /\ disk' = [disk EXCEPT ![hand[w]] = "none"]
      /\ UNCHANGED <<watchdog, spc, events, pending, listed, landed, stored>>
      /\ \E raised \in BOOLEAN : alive' = Alive(w, raised)
  BY DEF Unlink
<1>2. hand[w] \in Files /\ spc # "new" /\ alive' \in BOOLEAN
  BY <1>1 DEF Alive, WatchInv, WatchTypes, PendingInv
<1>3. /\ hand' \in [{"watch", "pending"} -> Files \cup {NoFile}]
      /\ \A v \in {"watch", "pending"} : v # w => hand'[v] = hand[v]
  BY <1>1 DEF WatchInv, WatchTypes
<1>4. /\ disk' \in [Files -> {"none", "open", "whole"}]
      /\ \A g \in Files : disk'[g] = IF g = hand[w] THEN "none" ELSE disk[g]
  BY <1>1, <1>2 DEF WatchInv, WatchTypes
<1>5. WatchTypes'
  BY <1>1, <1>2, <1>3, <1>4 DEF WatchInv, WatchTypes
<1>6. FolderInv'
  BY <1>1, <1>4 DEF WatchInv, FolderInv
<1>7. NoticedInv' /\ PendingInv'
  BY <1>1, <1>2 DEF WatchInv, NoticedInv, PendingInv, Distinct
<1>8. \A g \in Files : /\ PastPending(g)' <=> PastPending(g)
                       /\ Left(g)' <=> Left(g)
                       /\ Noticed(g)' <=> Noticed(g)
                       /\ PastWatch(g)' <=> PastWatch(g)
  BY <1>1 DEF PastPending, Left, Noticed, PastWatch
<1>9. StoredInv'
  BY <1>1, <1>8 DEF WatchInv, StoredInv
<1>10. ASSUME NEW g \in Files, disk'[g] # "none"
       PROVE  /\ disk[g] # "none"
              /\ \A v \in {"watch", "pending"} : hand[v] = g => hand'[v] = g
  BY <1>3, <1>4, <1>10
<1>11. LeftInv'
  <2>1. ASSUME NEW g \in Files, disk'[g] # "none", ~IsIgnored(g)
        PROVE  /\ landed[g] = "watched" => Noticed(g)' \/ hand'["watch"] = g \/ spc = "down"
               /\ landed[g] = "moved" /\ ~watchdog => Noticed(g)' \/ hand'["watch"] = g \/ spc = "down"
               /\ landed[g] = "unwatched" /\ spc \in {"listed", "up"} => g \in listed
    BY <1>8, <1>10, <2>1 DEF WatchInv, LeftInv
  <2>2. ASSUME NEW g \in listed, ProcessPending
        PROVE  Left(g)' \/ hand'["pending"] = g \/ disk'[g] = "none"
    <3>1. g \in Files
      BY DEF WatchInv, WatchTypes
    <3> QED
      BY <1>8, <1>10, <2>2, <3>1 DEF WatchInv, LeftInv
  <2> QED
    BY <1>1, <2>1, <2>2 DEF LeftInv, IsIgnored
<1> QED
  BY <1>5, <1>6, <1>7, <1>9, <1>11 DEF WatchInv

LEMMA WatchStutters ==
  ASSUME WatchInv, UNCHANGED watchVars
  PROVE  WatchInv'
BY DEF watchVars, WatchInv, WatchTypes, FolderInv, NoticedInv, PendingInv, StoredInv, LeftInv,
       Distinct, PastWatch, PastPending, Noticed, Left, IsIgnored

LEMMA WatchInvariance == WatchSpec => []WatchInv
<1>1. WatchInv /\ [WatchNext]_watchVars => WatchInv'
  BY WatchCreates, WatchLands, WatchLists, WatchSwitches, WatchSkips, WatchDelivers,
     PendingTakes, WatchUnlinks, WatchStutters
  DEF WatchNext, Handle, PendingRun
<1> QED
  BY <1>1, InitWatch, PTL DEF WatchSpec

(* A file reaches store_file before its writer closed it only if start()   *)
(* found it in the folder, and twice only if, besides, it was closed while *)
(* the folder was watched: the watch alone hands over each file once,      *)
(* whole.                                                                  *)
THEOREM WatchIsExact == WatchSpec => []WatchHandsOverOnceAndWhole
<1>1. WatchInv => WatchHandsOverOnceAndWhole
  <2> SUFFICES ASSUME WatchInv, NEW f \in Files
               PROVE  /\ "open" \in ToSet(stored[f]) => f \in listed
                      /\ Len(stored[f]) <= 2
                      /\ Len(stored[f]) = 2 => f \in listed /\ landed[f] = "watched"
    BY DEF WatchHandsOverOnceAndWhole
  <2>1. DOMAIN stored[f] = 1..Len(stored[f])
    BY DEF WatchInv, WatchTypes
  <2>2. "open" \in ToSet(stored[f]) => f \in listed
    BY <2>1 DEF ToSet, WatchInv, StoredInv
  <2>3. Len(stored[f]) = 2 => f \in listed /\ landed[f] = "watched"
    BY DEF WatchInv, StoredInv, PastWatch, PastPending, FolderInv
  <2> QED
    BY <2>2, <2>3 DEF WatchInv, StoredInv
<1> QED
  BY <1>1, WatchInvariance, PTL

(* A whole file that lies in the folder of a runner with nothing to do is  *)
(* one that matches the pattern, that landed between the listing and the   *)
(* watch, that was moved there while watchdog watched, or that start()     *)
(* found and pending_run was not asked for or did not come to: the runner  *)
(* leaves a file behind in no other way.                                   *)
THEOREM NothingElseIsLeft == WatchSpec => []LeftoversExplained
<1>1. WatchInv => LeftoversExplained
  <2> SUFFICES ASSUME WatchInv, Quiet, NEW f \in Files, disk[f] = "whole", f \notin Matching,
                      landed[f] # "gap", ~(landed[f] = "moved" /\ watchdog)
               PROVE  f \in listed /\ (~ProcessPending \/ f \in ToSet(pending))
    BY DEF LeftoversExplained
  <2>1. /\ spc = "up" /\ events = <<>> /\ hand["watch"] = NoFile /\ hand["pending"] = NoFile
        /\ NoFile \notin Files
    BY WatchAssumption DEF Quiet, Workers
  <2>2. ~Noticed(f)
    <3>1. Len(events) = 0 /\ 1..0 = {}
      BY <2>1
    <3> QED
      BY <3>1 DEF Noticed
  <2>3. ~IsIgnored(f)
    BY DEF IsIgnored
  <2>4. landed[f] \in {"watched", "unwatched", "moved"}
    BY DEF WatchInv, WatchTypes, FolderInv
  <2>5. f \in listed
    BY <2>1, <2>2, <2>3, <2>4 DEF WatchInv, LeftInv
  <2>6. ProcessPending => Left(f)
    BY <2>1, <2>5 DEF WatchInv, LeftInv
  <2>7. DOMAIN pending = 1..Len(pending)
    BY DEF WatchInv, WatchTypes
  <2> QED
    BY <2>5, <2>6, <2>7 DEF Left, ToSet
<1> QED
  BY <1>1, WatchInvariance, PTL
=============================================================================
