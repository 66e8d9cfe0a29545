------------------------ MODULE RotatingStorageProofs ------------------------
(***************************************************************************)
(* The rotating storage for every number of threads, files and every       *)
(* number_of_files: the folder stays within its limit whatever the threads *)
(* do to each other and whichever calls fail, and calls one after the      *)
(* other keep the newest files.                                            *)
(***************************************************************************)
EXTENDS RotatingStorage, SequenceTheorems, FiniteSetTheorems, TLAPS

Places == {"idle", "name", "open", "copy", "wait", "list", "trim"}

TypeInv ==
  /\ folder \subseteq Paths /\ IsFiniteSet(folder) /\ debris \subseteq folder
  /\ pc \in [Threads -> Places]
  /\ item \in [Threads -> Items \cup {NoItem}]
  /\ path \in [Threads -> Paths \cup {NoItem}]
  /\ paths \in [Threads -> Seq(Paths)]
  /\ \A t \in Threads :
       /\ pc[t] # "idle" => item[t] \in Items
       /\ pc[t] \in {"open", "copy"} => path[t] \in Paths

(* One thread trims at a time. *)
LockInv ==
  /\ \A t \in Threads : t \in lock <=> pc[t] \in {"list", "trim"}
  /\ \A t, u \in Threads : t \in lock /\ u \in lock => t = u

(* What is left of a listing is in the folder, and each file once. *)
ListingInv ==
  \A t \in Threads :
    /\ pc[t] # "trim" => paths[t] = <<>>
    /\ \A j \in DOMAIN paths[t] : paths[t][j] \in folder
    /\ \A j, k \in DOMAIN paths[t] : paths[t][j] = paths[t][k] => j = k

(* A file that came into the folder after the listing belongs to a thread  *)
(* that will trim in its turn, or was left by one that raised.             *)
LaterInv ==
  \A t \in Threads, p \in folder : pc[t] = "trim" /\ p \notin ToSet(paths[t]) =>
    \/ p \in debris
    \/ \E u \in Threads : u # t /\ pc[u] \in {"copy", "wait"} /\ path[u] = p

(* The files that no trimming has counted: those of the threads that store *)
(* and those of calls that raised.                                         *)
Untrimmed ==
  debris \cup {p \in folder : \E t \in Threads : t \in Storing /\ path[t] = p}

BoundInv == Cardinality(folder) <= Room + Cardinality(Untrimmed)

IInv == TypeInv /\ LockInv /\ ListingInv /\ LaterInv /\ BoundInv

----------------------------------------------------------------------------
LEMMA LimitIsNumber == Limit \in Int /\ Room \in Nat
BY RotatingAssumption DEF Limit, Room

(* sorted() gives every path of the folder once. *)
LEMMA ListedOnce ==
  ASSUME IsFiniteSet(folder), NEW s \in SetToSeqs(folder)
  PROVE  /\ s \in Seq(folder) /\ Len(s) = Cardinality(folder)
         /\ \A j, k \in DOMAIN s : s[j] = s[k] => j = k
         /\ ToSet(s) = folder
<1> DEFINE n == Cardinality(folder)
<1>1. n \in Nat
  BY FS_CardinalityType
<1>2. s \in [1..n -> folder] /\ \A j, k \in 1..n : j # k => s[j] # s[k]
  BY DEF SetToSeqs
<1> HIDE DEF n
<1>3. s \in Seq(folder) /\ Len(s) = n /\ DOMAIN s = 1..n
  BY <1>1, <1>2
<1>4. s \in Injection(1..n, folder)
  BY <1>2, <1>3 DEF Injection, IsInjective
<1>5. IsFiniteSet(1..n) /\ Cardinality(1..n) = n
  BY <1>1, FS_Interval
<1>6. s \in Surjection(1..n, folder)
  BY <1>4, <1>5, FS_Injection DEF n
<1>7. ToSet(s) = folder
  BY <1>2, <1>3, <1>6 DEF Surjection, ToSet
<1> QED
  BY <1>2, <1>3, <1>7 DEF n

LEMMA InitIInv == Init => IInv
<1> SUFFICES ASSUME Init PROVE IInv
  OBVIOUS
<1> USE DEF Init
<1>1. TypeInv
  BY FS_EmptySet DEF TypeInv, Places
<1>2. LockInv /\ ListingInv /\ LaterInv
  BY DEF LockInv, ListingInv, LaterInv
<1>3. Untrimmed = {}
  BY DEF Untrimmed
<1>4. BoundInv
  BY <1>3, FS_EmptySet, LimitIsNumber DEF BoundInv
<1> QED
  BY <1>1, <1>2, <1>4 DEF IInv

----------------------------------------------------------------------------
LEMMA NextTypeInv ==
  ASSUME TypeInv, [Next]_vars
  PROVE  TypeInv'
<1> USE RotatingAssumption DEF TypeInv, Places, Paths, GoTo, Reset, disk, call
<1>1. ASSUME NEW t \in Threads, NEW i \in Items, Call(t, i) PROVE TypeInv'
  BY <1>1 DEF Call
<1>2. ASSUME NEW t \in Threads, NothingStored(t) \/ CopyFails(t) \/ TrimFails(t)
      PROVE TypeInv'
  <2>1. /\ UNCHANGED folder
        /\ debris' \in {debris, debris \cup ({path[t]} \cap folder)}
        /\ pc' = [pc EXCEPT ![t] = "idle"] /\ Reset(t)
        /\ paths' \in {paths, [paths EXCEPT ![t] = <<>>]}
    BY <1>2 DEF NothingStored, CopyFails, TrimFails, Leave
  <2>2. paths' \in [Threads -> Seq(Paths)]
    <3>1. <<>> \in Seq(Paths)
      OBVIOUS
    <3> QED
      BY <2>1, <3>1, Zenon
  <2> QED
    BY <2>1, <2>2
<1>3. ASSUME NEW t \in Threads, ChooseName(t) PROVE TypeInv'
  <2>1. Name(item[t]) \in Paths
    BY <1>3 DEF ChooseName, Name
  <2> QED
    BY <1>3, <2>1 DEF ChooseName
<1>4. ASSUME NEW t \in Threads, Open(t) PROVE TypeInv'
  <2>1. IsFiniteSet(folder \cup {path[t]})
    BY FS_AddElement
  <2> QED
    BY <1>4, <2>1 DEF Open
<1>5. ASSUME NEW t \in Threads, Copy(t) \/ Acquire(t) PROVE TypeInv'
  BY <1>5 DEF Copy, Acquire
<1>6. ASSUME NEW t \in Threads, List(t) PROVE TypeInv'
  <2>1. PICK s \in SetToSeqs(folder) : paths' = [paths EXCEPT ![t] = s]
    BY <1>6 DEF List
  <2>2. s \in Seq(folder)
    BY <2>1, ListedOnce
  <2>3. s \in Seq(Paths)
    BY <2>2
  <2> QED
    BY <1>6, <2>1, <2>3 DEF List
<1>7. ASSUME NEW t \in Threads, Unlink(t) PROVE TypeInv'
  <2>1. paths[t] \in Seq(Paths) /\ paths[t] # <<>>
    BY <1>7 DEF Unlink, TooMany
  <2>2. Tail(paths[t]) \in Seq(Paths)
    BY <2>1, HeadTailProperties
  <2>3. IsFiniteSet(folder \ {Head(paths[t])})
    BY FS_RemoveElement
  <2> QED
    BY <1>7, <2>2, <2>3 DEF Unlink
<1>8. ASSUME NEW t \in Threads, Release(t) PROVE TypeInv'
  BY <1>8 DEF Release
<1>9. CASE UNCHANGED vars
  BY <1>9 DEF vars
<1> QED
  BY <1>1, <1>2, <1>3, <1>4, <1>5, <1>6, <1>7, <1>8, <1>9 DEF Next, Store, Trim

LEMMA NextLockInv ==
  ASSUME TypeInv, LockInv, [Next]_vars
  PROVE  LockInv'
<1> USE DEF TypeInv, LockInv, GoTo
<1>1. ASSUME NEW t \in Threads, NEW i \in Items, Call(t, i) PROVE LockInv'
  BY <1>1 DEF Call, Busy
<1>2. ASSUME NEW t \in Threads,
             NothingStored(t) \/ ChooseName(t) \/ Open(t) \/ Copy(t) \/ CopyFails(t)
      PROVE LockInv'
  BY <1>2 DEF NothingStored, ChooseName, Open, Copy, CopyFails, Leave
<1>3. ASSUME NEW t \in Threads, Acquire(t) PROVE LockInv'
  BY <1>3 DEF Acquire
<1>4. ASSUME NEW t \in Threads, List(t) \/ Unlink(t) PROVE LockInv'
  BY <1>4 DEF List, Unlink
<1>5. ASSUME NEW t \in Threads, TrimFails(t) \/ Release(t) PROVE LockInv'
  BY <1>5 DEF TrimFails, Leave, Release
<1>6. CASE UNCHANGED vars
  BY <1>6 DEF vars
<1> QED
  BY <1>1, <1>2, <1>3, <1>4, <1>5, <1>6 DEF Next, Store, Trim

(* What unlinking the oldest path leaves of a listing. *)
LEMMA ShorterListing ==
  ASSUME NEW s \in Seq(Paths), s # <<>>, NEW S,
         \A j \in DOMAIN s : s[j] \in S,
         \A j, k \in DOMAIN s : s[j] = s[k] => j = k
  PROVE  /\ \A j \in DOMAIN Tail(s) : Tail(s)[j] \in S \ {Head(s)}
         /\ \A j, k \in DOMAIN Tail(s) : Tail(s)[j] = Tail(s)[k] => j = k
         /\ ToSet(Tail(s)) = ToSet(s) \ {Head(s)}
         /\ Head(s) \in S
<1>1. Len(s) \in Nat \ {0} /\ DOMAIN s = 1..Len(s) /\ Head(s) = s[1]
  BY EmptySeq, LenProperties
<1>2. Tail(s) \in Seq(Paths) /\ DOMAIN Tail(s) = 1..Len(s)-1
  BY HeadTailProperties, LenProperties
<1>3. \A j \in 1..Len(s)-1 : Tail(s)[j] = s[j+1] /\ j+1 \in 1..Len(s)
  BY <1>1, HeadTailProperties
<1>4. \A j \in 1..Len(s) : j # 1 => j-1 \in 1..Len(s)-1 /\ Tail(s)[j-1] = s[j]
  BY <1>1, <1>3
<1>5. \A j \in DOMAIN Tail(s) : Tail(s)[j] \in S \ {Head(s)}
  BY <1>1, <1>2, <1>3
<1>6. \A j, k \in DOMAIN Tail(s) : Tail(s)[j] = Tail(s)[k] => j = k
  BY <1>1, <1>2, <1>3
<1>7. ASSUME NEW p PROVE p \in ToSet(Tail(s)) <=> p \in ToSet(s) /\ p # Head(s)
  <2>1. p \in ToSet(s) <=> \E j \in 1..Len(s) : s[j] = p
    BY <1>1 DEF ToSet
  <2>2. p \in ToSet(Tail(s)) <=> \E j \in 1..Len(s)-1 : Tail(s)[j] = p
    BY <1>2 DEF ToSet
  <2>3. ASSUME NEW j \in 1..Len(s)-1 PROVE Tail(s)[j] # Head(s)
    BY <1>1, <1>3, <2>3
  <2>4. ASSUME NEW j \in 1..Len(s), s[j] # Head(s) PROVE j # 1
    BY <1>1, <2>4
  <2> QED
    BY <1>3, <1>4, <2>1, <2>2, <2>3, <2>4
<1>8. Head(s) \in S
  BY <1>1
<1> QED
  BY <1>5, <1>6, <1>7, <1>8

LEMMA NextListingInv ==
  ASSUME TypeInv, LockInv, ListingInv, [Next]_vars
  PROVE  ListingInv'
<1> USE DEF GoTo
<1>1. ASSUME NEW t \in Threads, Open(t) PROVE ListingInv'
  BY <1>1 DEF Open, ListingInv, TypeInv
<1>2. ASSUME NEW t \in Threads, NEW i \in Items, Call(t, i) PROVE ListingInv'
  BY <1>2 DEF Call, Busy, disk, ListingInv, TypeInv
<1>3. ASSUME NEW t \in Threads,
             NothingStored(t) \/ ChooseName(t) \/ Copy(t) \/ CopyFails(t) \/ Acquire(t)
      PROVE ListingInv'
  BY <1>3 DEF NothingStored, ChooseName, Copy, CopyFails, Leave, Acquire, disk, ListingInv,
              TypeInv
<1>4. ASSUME NEW t \in Threads, List(t) PROVE ListingInv'
  <2>1. PICK s \in SetToSeqs(folder) : paths' = [paths EXCEPT ![t] = s]
    BY <1>4 DEF List
  <2>2. /\ \A j \in DOMAIN s : s[j] \in folder
        /\ \A j, k \in DOMAIN s : s[j] = s[k] => j = k
    <3>1. s \in Seq(folder) /\ \A j, k \in DOMAIN s : s[j] = s[k] => j = k
      BY ListedOnce DEF TypeInv
    <3> QED
      BY <3>1
  <2>3. folder' = folder /\ pc' = [pc EXCEPT ![t] = "trim"]
    BY <1>4 DEF List, disk
  <2>4. \A u \in Threads : paths'[u] = IF u = t THEN s ELSE paths[u]
    BY <2>1 DEF TypeInv
  <2>5. \A u \in Threads : pc'[u] = IF u = t THEN "trim" ELSE pc[u]
    BY <2>3 DEF TypeInv
  <2>6. ASSUME NEW u \in Threads
        PROVE /\ pc'[u] # "trim" => paths'[u] = <<>>
              /\ \A j \in DOMAIN paths'[u] : paths'[u][j] \in folder'
              /\ \A j, k \in DOMAIN paths'[u] : paths'[u][j] = paths'[u][k] => j = k
    <3>1. CASE u = t
      BY <2>2, <2>3, <2>4, <2>5, <3>1
    <3>2. CASE u # t
      BY <2>3, <2>4, <2>5, <3>2 DEF ListingInv
    <3> QED
      BY <3>1, <3>2
  <2> QED
    BY <2>6 DEF ListingInv
<1>5. ASSUME NEW t \in Threads, Unlink(t) PROVE ListingInv'
  <2>1. /\ folder' = folder \ {Head(paths[t])} /\ pc' = pc /\ pc[t] = "trim"
        /\ paths' = [paths EXCEPT ![t] = Tail(@)]
    BY <1>5 DEF Unlink
  <2>2. paths[t] \in Seq(Paths) /\ paths[t] # <<>>
    BY <1>5 DEF Unlink, TooMany, TypeInv
  <2>3. /\ \A j \in DOMAIN Tail(paths[t]) : Tail(paths[t])[j] \in folder'
        /\ \A j, k \in DOMAIN Tail(paths[t]) :
             Tail(paths[t])[j] = Tail(paths[t])[k] => j = k
    BY <2>1, <2>2, ShorterListing DEF ListingInv
  <2>4. \A u \in Threads : u # t => pc[u] # "trim"
    BY <2>1 DEF LockInv
  <2>5. \A u \in Threads : paths'[u] = IF u = t THEN Tail(paths[t]) ELSE paths[u]
    BY <2>1 DEF TypeInv
  <2>6. \A u \in Threads : u # t => paths[u] = <<>>
    BY <2>4 DEF ListingInv
  <2>7. ASSUME NEW u \in Threads
        PROVE /\ pc'[u] # "trim" => paths'[u] = <<>>
              /\ \A j \in DOMAIN paths'[u] : paths'[u][j] \in folder'
              /\ \A j, k \in DOMAIN paths'[u] : paths'[u][j] = paths'[u][k] => j = k
    <3>1. CASE u = t
      <4>1. pc'[u] = "trim" /\ paths'[u] = Tail(paths[t])
        BY <2>1, <2>5, <3>1
      <4> QED
        BY <2>3, <4>1
    <3>2. CASE u # t
      BY <2>5, <2>6, <3>2
    <3> QED
      BY <3>1, <3>2
  <2> QED
    BY <2>7 DEF ListingInv
<1>6. ASSUME NEW t \in Threads, TrimFails(t) \/ Release(t) PROVE ListingInv'
  BY <1>6 DEF TrimFails, Leave, Release, disk, ListingInv, TypeInv
<1>7. CASE UNCHANGED vars
  BY <1>7 DEF vars, ListingInv
<1> QED
  BY <1>1, <1>2, <1>3, <1>4, <1>5, <1>6, <1>7 DEF Next, Store, Trim

(* Only Open adds a file, and its thread has yet to trim.                  *)
LEMMA NextLaterInv ==
  ASSUME TypeInv, LockInv, ListingInv, LaterInv, [Next]_vars
  PROVE  LaterInv'
<1> USE DEF GoTo
<1>1. ASSUME NEW t \in Threads, Open(t) PROVE LaterInv'
  <2>1. /\ folder' = folder \cup {path[t]} /\ paths' = paths /\ path' = path
        /\ pc[t] = "open" /\ pc' = [pc EXCEPT ![t] = "copy"] /\ debris' = debris
    BY <1>1 DEF Open
  <2>2. pc'[t] = "copy" /\ \A u \in Threads : u # t => pc'[u] = pc[u]
    BY <2>1 DEF TypeInv
  <2> QED
    BY <2>1, <2>2 DEF LaterInv
<1>2. ASSUME NEW t \in Threads, NEW i \in Items,
             Call(t, i)
      PROVE LaterInv'
  <2>1. /\ folder' = folder /\ paths' = paths /\ debris' = debris
        /\ pc[t] \in {"idle", "name"}
    BY <1>2 DEF Call, Busy, disk
  <2>2. /\ pc'[t] # "trim"
        /\ \A u \in Threads : u # t => pc'[u] = pc[u] /\ path'[u] = path[u]
    BY <1>2 DEF Call, TypeInv
  <2> QED
    BY <2>1, <2>2 DEF LaterInv
<1>3. ASSUME NEW t \in Threads, NothingStored(t) \/ ChooseName(t) PROVE LaterInv'
  <2>1. /\ folder' = folder /\ paths' = paths /\ debris' = debris
        /\ pc[t] \in {"name", "open"}
    BY <1>3 DEF NothingStored, ChooseName, disk
  <2>2. /\ pc'[t] # "trim"
        /\ \A u \in Threads : u # t => pc'[u] = pc[u] /\ path'[u] = path[u]
    BY <1>3 DEF NothingStored, ChooseName, Reset, TypeInv
  <2> QED
    BY <2>1, <2>2 DEF LaterInv
<1>4. ASSUME NEW t \in Threads, Copy(t) PROVE LaterInv'
  BY <1>4 DEF Copy, call, LaterInv, TypeInv
<1>5. ASSUME NEW t \in Threads, CopyFails(t) PROVE LaterInv'
  <2>1. /\ folder' = folder /\ paths' = paths /\ pc'[t] = "idle"
        /\ debris' = debris \cup ({path[t]} \cap folder)
        /\ \A u \in Threads : u # t => pc'[u] = pc[u] /\ path'[u] = path[u]
    BY <1>5 DEF CopyFails, Leave, Reset, TypeInv
  <2> QED
    BY <2>1 DEF LaterInv
<1>6. ASSUME NEW t \in Threads, Acquire(t) PROVE LaterInv'
  BY <1>6 DEF Acquire, disk, call, LaterInv, LockInv, TypeInv
<1>7. ASSUME NEW t \in Threads, List(t) PROVE LaterInv'
  <2>1. PICK s \in SetToSeqs(folder) : paths' = [paths EXCEPT ![t] = s]
    BY <1>7 DEF List
  <2>2. ToSet(s) = folder
    BY ListedOnce DEF TypeInv
  <2>3. /\ folder' = folder /\ path' = path /\ debris' = debris
        /\ pc[t] = "list" /\ pc' = [pc EXCEPT ![t] = "trim"]
    BY <1>7 DEF List, disk, call
  <2>4. paths'[t] = s /\ \A u \in Threads : u # t => paths'[u] = paths[u]
    BY <2>1 DEF TypeInv
  <2>5. \A u \in Threads : u # t => pc[u] # "trim" /\ pc'[u] = pc[u]
    BY <2>3 DEF TypeInv, LockInv
  <2> QED
    BY <2>2, <2>3, <2>4, <2>5 DEF LaterInv
<1>8. ASSUME NEW t \in Threads, Unlink(t) PROVE LaterInv'
  <2>1. /\ folder' = folder \ {Head(paths[t])} /\ pc' = pc /\ pc[t] = "trim"
        /\ paths' = [paths EXCEPT ![t] = Tail(@)] /\ path' = path
        /\ debris' = debris \ {Head(paths[t])}
    BY <1>8 DEF Unlink, call
  <2>2. paths[t] \in Seq(Paths) /\ paths[t] # <<>>
    BY <1>8 DEF Unlink, TooMany, TypeInv
  <2>3. ToSet(Tail(paths[t])) = ToSet(paths[t]) \ {Head(paths[t])}
    BY <2>1, <2>2, ShorterListing DEF ListingInv
  <2>4. paths'[t] = Tail(paths[t])
    BY <2>1 DEF TypeInv
  <2>5. \A u \in Threads : u # t => pc[u] # "trim"
    BY <2>1 DEF LockInv
  <2> QED
    BY <2>1, <2>3, <2>4, <2>5 DEF LaterInv
<1>9. ASSUME NEW t \in Threads, TrimFails(t) \/ Release(t) PROVE LaterInv'
  <2>1. pc[t] \in {"list", "trim"} /\ pc'[t] = "idle"
    BY <1>9 DEF TrimFails, Leave, Release, TypeInv
  <2>2. \A u \in Threads : u # t => pc'[u] = pc[u] /\ pc[u] # "trim"
    BY <1>9, <2>1 DEF TrimFails, Leave, Release, LockInv, TypeInv
  <2> QED
    BY <2>1, <2>2 DEF LaterInv
<1>10. CASE UNCHANGED vars
  BY <1>10 DEF vars, LaterInv
<1> QED
  BY <1>1, <1>2, <1>3, <1>4, <1>5, <1>6, <1>7, <1>8, <1>9, <1>10 DEF Next, Store, Trim

----------------------------------------------------------------------------
(* The bound: a file comes in with a thread that answers for it, and a     *)
(* thread that has trimmed leaves no more than Room of its listing.        *)
LEMMA UntrimmedIsFinite ==
  ASSUME TypeInv
  PROVE  /\ Untrimmed \subseteq folder /\ IsFiniteSet(Untrimmed)
         /\ Cardinality(Untrimmed) \in Nat /\ Cardinality(folder) \in Nat
<1>1. Untrimmed \subseteq folder
  BY DEF Untrimmed, TypeInv
<1>2. IsFiniteSet(folder) /\ IsFiniteSet(Untrimmed)
  BY <1>1, FS_Subset DEF TypeInv
<1> QED
  BY <1>1, <1>2, FS_CardinalityType

(* A step that neither adds nor removes a file, nor lets a thread with a   *)
(* file in the folder go.                                                  *)
LEMMA BoundStands ==
  ASSUME BoundInv, folder' = folder, Untrimmed' = Untrimmed
  PROVE  BoundInv'
BY DEF BoundInv

LEMMA OpenKeepsBound ==
  ASSUME TypeInv, TypeInv', BoundInv, NEW t \in Threads, Open(t)
  PROVE  BoundInv'
<1> DEFINE p == path[t]
<1>1. /\ folder' = folder \cup {p} /\ path' = path
      /\ pc[t] = "open" /\ pc' = [pc EXCEPT ![t] = "copy"] /\ debris' = debris
  BY DEF Open, GoTo
<1>2. t \notin Storing /\ Storing' = Storing \cup {t}
  BY <1>1 DEF TypeInv, Storing
<1>3. Untrimmed' = Untrimmed \cup {p}
  BY <1>1, <1>2 DEF Untrimmed, Storing
<1>4. p \in Untrimmed => p \in folder
  BY UntrimmedIsFinite
<1>5. /\ IsFiniteSet(folder) /\ IsFiniteSet(Untrimmed)
      /\ Cardinality(Untrimmed) \in Nat /\ Cardinality(folder) \in Nat
  BY UntrimmedIsFinite DEF TypeInv
<1>6. /\ Cardinality(folder') = IF p \in folder THEN Cardinality(folder)
                                ELSE Cardinality(folder) + 1
      /\ Cardinality(Untrimmed') = IF p \in Untrimmed THEN Cardinality(Untrimmed)
                                   ELSE Cardinality(Untrimmed) + 1
  BY <1>1, <1>3, <1>5, FS_AddElement
<1> QED
  BY <1>4, <1>5, <1>6, LimitIsNumber DEF BoundInv

LEMMA UnlinkKeepsBound ==
  ASSUME TypeInv, ListingInv, BoundInv, NEW t \in Threads, Unlink(t)
  PROVE  BoundInv'
<1> DEFINE p == Head(paths[t])
<1>1. folder' = folder \ {p} /\ debris' = debris \ {p} /\ path' = path /\ pc' = pc
  BY DEF Unlink, call
<1>2. paths[t] \in Seq(Paths) /\ paths[t] # <<>>
  BY DEF Unlink, TooMany, TypeInv
<1>3. p \in folder
  BY <1>2, ShorterListing DEF ListingInv
<1>4. Untrimmed' = Untrimmed \ {p}
  BY <1>1 DEF Untrimmed, Storing
<1>5. /\ IsFiniteSet(folder) /\ IsFiniteSet(Untrimmed)
      /\ Cardinality(Untrimmed) \in Nat /\ Cardinality(folder) \in Nat
  BY UntrimmedIsFinite DEF TypeInv
<1>6. /\ Cardinality(folder') = Cardinality(folder) - 1
      /\ Cardinality(Untrimmed') = IF p \in Untrimmed THEN Cardinality(Untrimmed) - 1
                                   ELSE Cardinality(Untrimmed)
  BY <1>1, <1>3, <1>4, <1>5, FS_RemoveElement
<1> QED
  BY <1>5, <1>6, LimitIsNumber DEF BoundInv

LEMMA ReleaseKeepsBound ==
  ASSUME TypeInv, ListingInv, LaterInv, NEW t \in Threads, Release(t)
  PROVE  BoundInv'
<1> DEFINE rest == ToSet(paths[t])
<1>1. /\ folder' = folder /\ pc[t] = "trim" /\ ~TooMany(paths[t])
      /\ pc' = [pc EXCEPT ![t] = "idle"] /\ path' = [path EXCEPT ![t] = NoItem]
      /\ debris' = debris \ rest
  BY DEF Release, GoTo, Reset, disk
<1>2. paths[t] \in Seq(Paths) /\ Len(paths[t]) \in Nat /\ DOMAIN paths[t] = 1..Len(paths[t])
  BY LenProperties DEF TypeInv
<1>3. Len(paths[t]) <= Room
  BY <1>1, <1>2, LimitIsNumber DEF TooMany, Room
<1>4. IsFiniteSet(rest) /\ Cardinality(rest) <= Len(paths[t])
  <2> DEFINE n == Len(paths[t])
  <2>1. IsFiniteSet(1..n) /\ Cardinality(1..n) = n
    BY <1>2, FS_Interval
  <2>2. paths[t] \in [1..n -> rest] /\ \A x \in rest : \E j \in 1..n : paths[t][j] = x
    BY <1>2 DEF ToSet
  <2>3. paths[t] \in Surjection(1..n, rest)
    BY <2>2 DEF Surjection
  <2> QED
    BY <2>1, <2>3, FS_Surjection
<1>5. rest \subseteq folder
  BY DEF ListingInv, ToSet
<1>6. folder \ rest \subseteq Untrimmed'
  <2>1. ASSUME NEW p \in folder \ rest PROVE p \in Untrimmed'
    <3>1. CASE p \in debris
      BY <1>1, <3>1 DEF Untrimmed
    <3>2. ASSUME NEW u \in Threads, u # t, pc[u] \in {"copy", "wait"}, path[u] = p
          PROVE  p \in Untrimmed'
      <4>1. pc'[u] = pc[u] /\ path'[u] = path[u]
        BY <1>1, <3>2 DEF TypeInv
      <4> QED
        BY <1>1, <3>2, <4>1 DEF Untrimmed, Storing
    <3> QED
      BY <1>1, <3>1, <3>2 DEF LaterInv
  <2> QED
    BY <2>1
<1>7. Untrimmed' \subseteq folder
  BY <1>1 DEF Untrimmed, TypeInv
<1> HIDE DEF rest
<1>8. /\ IsFiniteSet(folder \ rest) /\ IsFiniteSet(Untrimmed')
      /\ Cardinality(folder \ rest) <= Cardinality(Untrimmed')
  <2>1. IsFiniteSet(Untrimmed')
    BY <1>7, FS_Subset DEF TypeInv
  <2> QED
    BY <1>6, <2>1, FS_Subset
<1>9. Cardinality(folder) = Cardinality(rest) + Cardinality(folder \ rest)
  <2> DEFINE others == folder \ rest
  <2>1. rest \cap others = {} /\ folder = rest \cup others
    BY <1>5
  <2>2. IsFiniteSet(rest) /\ IsFiniteSet(others)
    BY <1>4, <1>8
  <2> HIDE DEF others
  <2>3. Cardinality(rest \cup others) =
          Cardinality(rest) + Cardinality(others) - Cardinality(rest \cap others)
    BY <2>2, FS_Union
  <2>4. Cardinality(rest \cap others) = 0 /\ Cardinality(rest \cup others) = Cardinality(folder)
    BY <2>1, FS_EmptySet
  <2>5. Cardinality(rest) \in Nat /\ Cardinality(others) \in Nat
    BY <2>2, FS_CardinalityType
  <2>6. Cardinality(folder) = Cardinality(rest) + Cardinality(others)
    BY <2>3, <2>4, <2>5
  <2> QED
    BY <2>6 DEF others
<1>10. /\ Cardinality(rest) \in Nat /\ Cardinality(folder \ rest) \in Nat
       /\ Cardinality(Untrimmed') \in Nat
  BY <1>4, <1>8, FS_CardinalityType
<1> QED
  BY <1>1, <1>2, <1>3, <1>4, <1>8, <1>9, <1>10, LimitIsNumber DEF BoundInv

LEMMA NextBoundInv ==
  ASSUME TypeInv, TypeInv', ListingInv, LaterInv, BoundInv, [Next]_vars
  PROVE  BoundInv'
<1> USE DEF GoTo
<1>1. ASSUME NEW t \in Threads, NEW i \in Items, Call(t, i) PROVE BoundInv'
  <2>1. folder' = folder /\ path' = path /\ debris' = debris
    BY <1>1 DEF Call, disk
  <2>2. \A u \in Threads : u \in Storing' <=> u \in Storing
    BY <1>1 DEF Call, Busy, Storing, TypeInv
  <2> QED
    BY <2>1, <2>2, BoundStands DEF Untrimmed
<1>2. ASSUME NEW t \in Threads, NothingStored(t) \/ ChooseName(t) PROVE BoundInv'
  <2>1. /\ folder' = folder /\ debris' = debris
        /\ \A u \in Threads : u # t => path'[u] = path[u]
    BY <1>2 DEF NothingStored, ChooseName, Reset, disk, TypeInv
  <2>2. /\ \A u \in Threads : u \in Storing' <=> u \in Storing
        /\ t \notin Storing
    BY <1>2 DEF NothingStored, ChooseName, Storing, TypeInv
  <2>3. Untrimmed' = Untrimmed
    BY <2>1, <2>2 DEF Untrimmed
  <2> QED
    BY <2>1, <2>3, BoundStands
<1>3. ASSUME NEW t \in Threads, Open(t) PROVE BoundInv'
  BY <1>3, OpenKeepsBound
<1>4. ASSUME NEW t \in Threads, Copy(t) \/ Acquire(t) \/ List(t) PROVE BoundInv'
  <2>1. folder' = folder /\ path' = path /\ debris' = debris
    BY <1>4 DEF Copy, Acquire, List, disk, call
  <2>2. \A u \in Threads : u \in Storing' <=> u \in Storing
    BY <1>4 DEF Copy, Acquire, List, Storing, TypeInv
  <2> QED
    BY <2>1, <2>2, BoundStands DEF Untrimmed
<1>5. ASSUME NEW t \in Threads, CopyFails(t) \/ TrimFails(t) PROVE BoundInv'
  <2>1. /\ folder' = folder /\ debris' = debris \cup ({path[t]} \cap folder)
        /\ \A u \in Threads : u # t => path'[u] = path[u]
    BY <1>5 DEF CopyFails, TrimFails, Leave, Reset, disk, TypeInv
  <2>2. /\ \A u \in Threads : u # t => (u \in Storing' <=> u \in Storing)
        /\ t \notin Storing' /\ t \in Storing
    BY <1>5 DEF CopyFails, TrimFails, Leave, Storing, TypeInv
  <2>3. Untrimmed' = Untrimmed
    BY <2>1, <2>2 DEF Untrimmed
  <2> QED
    BY <2>1, <2>3, BoundStands
<1>6. ASSUME NEW t \in Threads, Unlink(t) PROVE BoundInv'
  BY <1>6, UnlinkKeepsBound
<1>7. ASSUME NEW t \in Threads, Release(t) PROVE BoundInv'
  BY <1>7, ReleaseKeepsBound
<1>8. CASE UNCHANGED vars
  BY <1>8, BoundStands DEF vars, Untrimmed, Storing
<1> QED
  BY <1>1, <1>2, <1>3, <1>4, <1>5, <1>6, <1>7, <1>8 DEF Next, Store, Trim

LEMMA IInvariance == Spec => []IInv
<1>1. IInv /\ [Next]_vars => IInv'
  BY NextTypeInv, NextLockInv, NextListingInv, NextLaterInv, NextBoundInv DEF IInv
<1> QED
  BY InitIInv, <1>1, PTL DEF Spec

LEMMA IInvBoundsFolder ==
  ASSUME IInv
  PROVE  FolderIsBounded
<1> DEFINE S == {t \in Storing : path[t] \in folder}
           f == [t \in S |-> path[t]]
           P == {p \in folder : \E t \in Threads : t \in Storing /\ path[t] = p}
<1>1. Cardinality(P) <= Cardinality(Storing) /\ Cardinality(Storing) \in Nat /\ IsFiniteSet(P)
  <2>1. IsFiniteSet(Storing) /\ S \subseteq Storing
    BY RotatingAssumption, FS_Subset DEF Storing
  <2>2. IsFiniteSet(S) /\ Cardinality(S) <= Cardinality(Storing)
    BY <2>1, FS_Subset
  <2>3. f \in Surjection(S, P)
    BY DEF Surjection, Storing
  <2>4. Cardinality(P) <= Cardinality(S) /\ IsFiniteSet(P)
    BY <2>2, <2>3, FS_Surjection
  <2> QED
    BY <2>1, <2>2, <2>4, FS_CardinalityType
<1> HIDE DEF S, f, P
<1>3. /\ Cardinality(Untrimmed) <= Cardinality(debris) + Cardinality(Storing)
      /\ Cardinality(debris) \in Nat
  <2>1. IsFiniteSet(debris) /\ Untrimmed = debris \cup P
    BY FS_Subset DEF IInv, TypeInv, Untrimmed, P
  <2>2. /\ IsFiniteSet(debris \cap P)
        /\ Cardinality(Untrimmed) =
             Cardinality(debris) + Cardinality(P) - Cardinality(debris \cap P)
    BY <1>1, <2>1, FS_Union, FS_Intersection
  <2>3. /\ Cardinality(debris) \in Nat /\ Cardinality(P) \in Nat
        /\ Cardinality(debris \cap P) \in Nat
    BY <1>1, <2>1, <2>2, FS_CardinalityType
  <2> QED
    BY <1>1, <2>2, <2>3
<1>2. \A t \in Threads : ToSet(paths[t]) \subseteq folder
  BY DEF IInv, ListingInv, ToSet
<1> QED
  BY <1>1, <1>2, <1>3, UntrimmedIsFinite, LimitIsNumber DEF IInv, BoundInv, FolderIsBounded

(* The folder holds fewer than number_of_files files, one for each thread  *)
(* that stores and those that calls which raised have left since the last  *)
(* trimming, and trim_folder never meets a path that another call removed, *)
(* for every number of threads and however their calls overlap and fail.   *)
THEOREM FolderStaysBounded == Spec => []FolderIsBounded
BY IInvariance, IInvBoundsFolder, PTL

----------------------------------------------------------------------------
(* Calls one after the other keep the newest files.  The folder is         *)
(* described by a sequence of its paths whose times ascend and whose files *)
(* are the last of those that were made.                                   *)

Least(a, b) == IF a <= b THEN a ELSE b

Chronicle(S, s) ==
  /\ s \in Seq(Paths) /\ ToSet(s) = S /\ Len(s) <= Len(stored)
  /\ \A j, k \in 1..Len(s) : j < k => mtime[s[j]] < mtime[s[k]]
  /\ \A j \in 1..Len(s) : inode[s[j]] = stored[Len(stored) - Len(s) + j]

(* The files at S are the last n that were made or more of the last, or all *)
(* of them if there are fewer.                                              *)
Keeps(S, n) ==
  \E s \in Seq(Paths) : Chronicle(S, s) /\ Least(n, Len(stored)) <= Len(s)

DataInv ==
  /\ mtime \in [Paths -> Nat] /\ clock \in Nat
  /\ inode \in [Paths -> Items \cup {NoItem}]
  /\ file \in [Threads -> Items \cup {NoItem}]
  /\ stored \in Seq(Items)
  /\ left \subseteq Items

PhaseInv(t) ==
  /\ pc[t] \in {"name", "open"} => Keeps(folder, Room)
  /\ pc[t] = "open" =>
       path[t] \notin folder /\ path[t] \in {NameOf(item[t]), item[t]}
  /\ pc[t] = "copy" =>
       /\ path[t] \in folder /\ inode[path[t]] = item[t] /\ file[t] = item[t]
       /\ Keeps(folder \ {path[t]}, Room)
       /\ \A p \in folder \ {path[t]} : mtime[p] < mtime[path[t]]
  /\ pc[t] \in {"wait", "list"} => Keeps(folder, Room + 1)
  /\ pc[t] = "trim" =>
       /\ Chronicle(folder, paths[t])
       /\ Least(Room, Len(stored)) <= Len(paths[t])

(* No file has the path of an item that has yet to choose its name.        *)
FreshInv ==
  /\ \A t \in Threads : Busy(t) => item[t] \notin left
  /\ \A p \in folder \cap Items :
       p \notin left /\ \A t \in Threads : pc[t] = "name" => p # item[t]

AloneInv ==
  /\ \A t, u \in Threads : Busy(t) /\ Busy(u) => t = u
  /\ \A p \in folder : mtime[p] <= clock
  /\ FreshInv
  /\ Quiet => Keeps(folder, Room)
  /\ \A t \in Threads : PhaseInv(t)

SingleInv == DataInv /\ (~overlap => AloneInv)

----------------------------------------------------------------------------
LEMMA StoredIsCounted == DataInv => Len(stored) \in Nat
BY DEF DataInv

(* In a sequence with ascending times each path has as many paths that are *)
(* no younger as its place says.                                           *)
LEMMA PlaceIsRank ==
  ASSUME NEW s \in Seq(Paths), DataInv, NEW j \in 1..Len(s),
         \A i, k \in 1..Len(s) : i < k => mtime[s[i]] < mtime[s[k]]
  PROVE  Cardinality({p \in ToSet(s) : mtime[p] <= mtime[s[j]]}) = j
<1> DEFINE R == {p \in ToSet(s) : mtime[p] <= mtime[s[j]]}
           f == [i \in 1..j |-> s[i]]
<1>1. Len(s) \in Nat /\ DOMAIN s = 1..Len(s) /\ \A i \in 1..Len(s) : s[i] \in Paths
  BY LenProperties
<1>2. \A i \in 1..Len(s) : mtime[s[i]] \in Nat
  BY <1>1 DEF DataInv
<1>3. \A i, k \in 1..Len(s) : s[i] = s[k] => i = k
  BY <1>1, <1>2
<1>4. \A i \in 1..Len(s) : mtime[s[i]] <= mtime[s[j]] <=> i <= j
  BY <1>1, <1>2
<1>5. \A p : p \in R <=> \E i \in 1..Len(s) : p = s[i] /\ i <= j
  BY <1>1, <1>4 DEF ToSet
<1>6. 1..j \subseteq 1..Len(s) /\ \A i \in 1..Len(s) : i <= j => i \in 1..j
  BY <1>1
<1> HIDE DEF R
<1>7. f \in Bijection(1..j, R)
  BY <1>3, <1>5, <1>6 DEF Bijection, Injection, Surjection, IsInjective
<1>8. IsFiniteSet(1..j) /\ Cardinality(1..j) = j
  BY FS_Interval, <1>1
<1>9. Cardinality(R) = j
  BY <1>7, <1>8, FS_Bijection DEF ExistsBijection
<1> QED
  BY <1>9 DEF R

(* Hence two such sequences of the same paths are the same, and sorting by *)
(* time, whatever it does with equal times, finds it.                      *)
LEMMA SortingFindsChronicle ==
  ASSUME DataInv, IsFiniteSet(folder), folder \subseteq Paths,
         NEW s \in Seq(Paths), Chronicle(folder, s),
         NEW r \in SetToSeqs(folder), OldestFirst(r)
  PROVE  Chronicle(folder, r) /\ Len(r) = Len(s)
<1>1. /\ r \in Seq(folder) /\ ToSet(r) = folder
      /\ \A j, k \in DOMAIN r : r[j] = r[k] => j = k
  BY ListedOnce
<1>2. r \in Seq(Paths)
  BY <1>1
<1>3. /\ Len(r) \in Nat /\ DOMAIN r = 1..Len(r) /\ \A i \in 1..Len(r) : r[i] \in Paths
      /\ Len(s) \in Nat /\ DOMAIN s = 1..Len(s) /\ \A i \in 1..Len(s) : s[i] \in Paths
  BY <1>2, LenProperties
<1>4. /\ \A i \in 1..Len(r) : \E k \in 1..Len(s) : s[k] = r[i]
      /\ \A k \in 1..Len(s) : \E i \in 1..Len(r) : s[k] = r[i]
  <2>1. \A p : p \in folder <=> \E i \in 1..Len(r) : p = r[i]
    BY <1>1, <1>3 DEF ToSet
  <2>2. \A p : p \in folder <=> \E k \in 1..Len(s) : p = s[k]
    BY <1>3 DEF ToSet, Chronicle
  <2> QED
    BY <2>1, <2>2
<1>5. \A p \in Paths : mtime[p] \in Nat
  BY DEF DataInv
<1>6. \A i, k \in 1..Len(s) : mtime[s[i]] = mtime[s[k]] => i = k
  BY <1>3, <1>5 DEF Chronicle
<1>7. ASSUME NEW i \in 1..Len(r), NEW k \in 1..Len(r), i < k
      PROVE  mtime[r[i]] < mtime[r[k]]
  <2>1. mtime[r[i]] <= mtime[r[k]]
    BY <1>3, <1>7 DEF OldestFirst
  <2>2. mtime[r[i]] # mtime[r[k]]
    <3>1. PICK a \in 1..Len(s), b \in 1..Len(s) : s[a] = r[i] /\ s[b] = r[k]
      BY <1>4
    <3> QED
      BY <1>1, <1>3, <1>6, <1>7, <3>1
  <2> QED
    BY <1>3, <1>5, <2>1, <2>2
<1>8. ASSUME NEW i \in 1..Len(r), NEW k \in 1..Len(s), s[k] = r[i] PROVE i = k
  <2>1. Cardinality({p \in ToSet(r) : mtime[p] <= mtime[r[i]]}) = i
    BY <1>2, <1>7, PlaceIsRank
  <2>2. Cardinality({p \in ToSet(s) : mtime[p] <= mtime[s[k]]}) = k
    BY PlaceIsRank DEF Chronicle
  <2> QED
    BY <1>1, <1>8, <2>1, <2>2 DEF Chronicle
<1>9. /\ \A i \in 1..Len(r) : i \in 1..Len(s) /\ s[i] = r[i]
      /\ \A k \in 1..Len(s) : k \in 1..Len(r)
  BY <1>4, <1>8
<1>10. Len(r) = Len(s)
  <2>1. \A m, n \in Nat : (\A i \in 1..m : i \in 1..n) /\ (\A k \in 1..n : k \in 1..m) => m = n
    <3> SUFFICES ASSUME NEW m \in Nat, NEW n \in Nat, m # n,
                        \A i \in 1..m : i \in 1..n, \A k \in 1..n : k \in 1..m
                 PROVE FALSE
      OBVIOUS
    <3>1. CASE m < n
      BY <3>1, n \in 1..n
    <3>2. CASE n < m
      BY <3>2, m \in 1..m
    <3> QED
      BY <3>1, <3>2
  <2> QED
    BY <1>3, <1>9, <2>1
<1> QED
  BY <1>1, <1>2, <1>7, <1>9, <1>10 DEF Chronicle

(* A step that leaves the files at S as they are. *)
LEMMA KeepsStands ==
  ASSUME NEW S, NEW n, Keeps(S, n), S \subseteq Paths, stored' = stored,
         \A p \in S : mtime'[p] = mtime[p] /\ inode'[p] = inode[p]
  PROVE  Keeps(S, n)'
<1>1. PICK s \in Seq(Paths) : Chronicle(S, s) /\ Least(n, Len(stored)) <= Len(s)
  BY DEF Keeps
<1>2. \A j \in 1..Len(s) : s[j] \in S
  BY <1>1 DEF Chronicle, ToSet
<1>3. Chronicle(S, s)'
  BY <1>1, <1>2 DEF Chronicle
<1> QED
  BY <1>1, <1>3 DEF Keeps, Least

(* Who keeps one file more than asked for keeps as many as asked for. *)
LEMMA KeepsFewer == ASSUME DataInv, NEW S, Keeps(S, Room + 1) PROVE Keeps(S, Room)
<1>1. PICK s \in Seq(Paths) : Chronicle(S, s) /\ Least(Room + 1, Len(stored)) <= Len(s)
  BY DEF Keeps
<1>2. Least(Room, Len(stored)) <= Len(s)
  BY <1>1, StoredIsCounted, LenProperties, LimitIsNumber DEF Least
<1> QED
  BY <1>1, <1>2 DEF Keeps

(* Storing one more file at a path of its own. *)
LEMMA KeepsOneMore ==
  ASSUME DataInv, NEW S, S \subseteq Paths, NEW n \in Nat, Keeps(S, n),
         NEW p \in Paths, p \notin S, NEW i, inode[p] = i,
         stored' = Append(stored, i), inode' = inode,
         \A q \in S : mtime'[q] = mtime[q] /\ mtime[q] < mtime'[p]
  PROVE  Keeps(S \cup {p}, n + 1)'
<1>1. PICK s \in Seq(Paths) : Chronicle(S, s) /\ Least(n, Len(stored)) <= Len(s)
  BY DEF Keeps
<1> DEFINE r == Append(s, p)
           L == Len(stored)
           m == Len(s)
<1>2. L \in Nat /\ m \in Nat /\ DOMAIN s = 1..m
  BY StoredIsCounted, LenProperties
<1>3. /\ r \in Seq(Paths) /\ Len(r) = m + 1 /\ r[m+1] = p
      /\ \A j \in 1..m : r[j] = s[j]
  BY <1>2, AppendProperties
<1>4. /\ Len(stored') = L + 1 /\ stored'[L+1] = i
      /\ \A j \in 1..L : stored'[j] = stored[j]
  BY <1>2, AppendProperties DEF DataInv
<1>5. /\ m <= L /\ ToSet(s) = S
      /\ \A j, k \in 1..m : j < k => mtime[s[j]] < mtime[s[k]]
      /\ \A j \in 1..m : inode[s[j]] = stored[L - m + j]
      /\ Least(n, L) <= m
  BY <1>1 DEF Chronicle
<1>6. \A j \in 1..m : s[j] \in S
  BY <1>2, <1>5 DEF ToSet
<1>7. \A q \in S : mtime'[q] = mtime[q] /\ mtime[q] < mtime'[p]
  OBVIOUS
<1> HIDE DEF r, L, m
<1>9. ToSet(r) = S \cup {p}
  <2>1. DOMAIN r = 1..m+1
    BY <1>2, <1>3
  <2>2. \A j \in 1..m+1 : j = m+1 \/ j \in 1..m
    BY <1>2
  <2>3. 1..m \subseteq 1..m+1 /\ m+1 \in 1..m+1
    BY <1>2
  <2>4. \A q : q \in S <=> \E j \in 1..m : s[j] = q
    BY <1>2, <1>5 DEF ToSet
  <2>5. \A q : q \in ToSet(r) <=> \E j \in 1..m+1 : r[j] = q
    BY <2>1 DEF ToSet
  <2> QED
    BY SMTT(30), <1>3, <2>2, <2>3, <2>4, <2>5
<1>10. ASSUME NEW j \in 1..m+1, NEW k \in 1..m+1, j < k
       PROVE mtime'[r[j]] < mtime'[r[k]]
  <2>1. j \in 1..m /\ r[j] = s[j] /\ mtime'[r[j]] = mtime[s[j]]
    BY <1>2, <1>3, <1>6, <1>7, <1>10
  <2>2. CASE k \in 1..m
    BY <1>3, <1>5, <1>6, <1>7, <1>10, <2>1, <2>2
  <2>3. CASE k = m+1
    BY <1>3, <1>6, <1>7, <2>1, <2>3
  <2> QED
    BY <1>2, <2>2, <2>3
<1>11. ASSUME NEW j \in 1..m+1 PROVE inode'[r[j]] = stored'[(L+1) - (m+1) + j]
  <2>1. CASE j \in 1..m
    <3>1. inode[r[j]] = stored[L - m + j]
      BY <1>3, <1>5, <2>1
    <3>2. (L+1) - (m+1) + j = L - m + j /\ L - m + j \in 1..L
      BY <1>2, <1>5, <2>1
    <3> QED
      BY <1>4, <3>1, <3>2
  <2>2. CASE j = m+1
    <3>1. (L+1) - (m+1) + j = L + 1
      BY <1>2, <2>2
    <3> QED
      BY <1>3, <1>4, <2>2, <3>1
  <2>3. j \in 1..m \/ j = m+1
    BY <1>2
  <2> QED
    BY <2>1, <2>2, <2>3
<1>12. Chronicle(S \cup {p}, r)'
  <2>1. Len(r) <= Len(stored')
    BY <1>2, <1>3, <1>4, <1>5
  <2> QED
    BY <1>3, <1>4, <1>9, <1>10, <1>11, <2>1 DEF Chronicle
<1>13. Least(n + 1, L + 1) <= m + 1
  BY <1>2, <1>5 DEF Least
<1> QED
  BY <1>3, <1>4, <1>12, <1>13 DEF Keeps

----------------------------------------------------------------------------
LEMMA NextDataInv ==
  ASSUME TypeInv, DataInv, [Next]_vars
  PROVE  DataInv'
<1> USE RotatingAssumption DEF TypeInv, DataInv, Paths, GoTo, Reset, disk, call
<1>1. ASSUME NEW t \in Threads, NEW i \in Items, Call(t, i) PROVE DataInv'
  BY <1>1 DEF Call
<1>2. ASSUME NEW t \in Threads, NothingStored(t) \/ ChooseName(t) PROVE DataInv'
  BY <1>2 DEF NothingStored, ChooseName
<1>3. ASSUME NEW t \in Threads, Open(t) PROVE DataInv'
  <2>1. path[t] \in Paths /\ item[t] \in Items
    BY <1>3 DEF Open
  <2>2. inode' \in [Paths -> Items \cup {NoItem}]
    BY <1>3, <2>1 DEF Open
  <2> QED
    BY <1>3, <2>1, <2>2 DEF Open, Touch
<1>4. ASSUME NEW t \in Threads, Copy(t) \/ CopyFails(t) PROVE DataInv'
  <2>1. item[t] \in Items /\ Append(stored, item[t]) \in Seq(Items)
    BY <1>4, AppendProperties DEF Copy, CopyFails
  <2>2. /\ UNCHANGED <<inode, left>> /\ file' \in {file, [file EXCEPT ![t] = NoItem]}
        /\ UNCHANGED <<clock, mtime>> \/ Touch(path[t])
        /\ UNCHANGED stored \/ stored' = Append(stored, item[t])
    BY <1>4 DEF Copy, CopyFails, Leave
  <2>3. stored' \in Seq(Items)
    BY <2>1, <2>2
  <2>4. mtime' \in [Paths -> Nat] /\ clock' \in Nat
    <3>1. CASE UNCHANGED <<clock, mtime>>
      BY <3>1
    <3>2. CASE Touch(path[t])
      <4>1. clock + 1 \in Nat
        OBVIOUS
      <4> QED
        BY <3>2, <4>1 DEF Touch
    <3> QED
      BY <2>2, <3>1, <3>2
  <2>5. file' \in [Threads -> Items \cup {NoItem}]
    BY <2>2
  <2> QED
    BY <2>2, <2>3, <2>4, <2>5
<1>5. ASSUME NEW t \in Threads,
             Acquire(t) \/ List(t) \/ Unlink(t) \/ TrimFails(t) \/ Release(t)
      PROVE DataInv'
  BY <1>5 DEF Acquire, List, Unlink, TrimFails, Leave, Release
<1>6. CASE UNCHANGED vars
  BY <1>6 DEF vars
<1> QED
  BY <1>1, <1>2, <1>3, <1>4, <1>5, <1>6 DEF Next, Store, Trim

(* What is to be shown of a step of the one thread that is busy.           *)
LEMMA OneThread ==
  ASSUME NEW t \in Threads, \A u \in Threads : u # t => pc'[u] = "idle",
         \A p \in folder' : mtime'[p] <= clock',
         FreshInv', Quiet' => Keeps(folder, Room)', PhaseInv(t)'
  PROVE  AloneInv'
<1>1. \A u \in Threads : u # t => PhaseInv(u)'
  BY DEF PhaseInv
<1>2. \A u \in Threads : PhaseInv(u)'
  BY <1>1
<1>3. \A u, v \in Threads : Busy(u)' /\ Busy(v)' => u = v
  BY DEF Busy
<1> QED
  BY <1>2, <1>3 DEF AloneInv

LEMMA OthersIdle ==
  ASSUME AloneInv, NEW t \in Threads, Busy(t)
  PROVE  \A u \in Threads : u # t => pc[u] = "idle"
BY DEF AloneInv, Busy

(* A step that leaves the disk and what was stored as they are.            *)
LEMMA DiskStands ==
  ASSUME TypeInv, AloneInv, UNCHANGED disk, UNCHANGED stored, UNCHANGED left
  PROVE  /\ \A p \in folder' : mtime'[p] <= clock'
         /\ \A n : Keeps(folder, n) => Keeps(folder, n)'
<1>1. /\ folder' = folder /\ mtime' = mtime /\ inode' = inode /\ clock' = clock
      /\ stored' = stored /\ folder \subseteq Paths
  BY DEF disk, TypeInv
<1>2. \A p \in folder' : mtime'[p] <= clock'
  BY <1>1 DEF AloneInv
<1>3. ASSUME NEW n, Keeps(folder, n) PROVE Keeps(folder, n)'
  BY <1>1, <1>3 DEF Keeps, Chronicle
<1> QED
  BY <1>2, <1>3

LEMMA CallKeepsAlone ==
  ASSUME TypeInv, DataInv, AloneInv, NEW t \in Threads, NEW i \in Items,
         Call(t, i), ~overlap'
  PROVE  AloneInv'
<1>1. /\ UNCHANGED disk /\ UNCHANGED stored /\ left' = left \ {i}
      /\ i \in left /\ pc' = [pc EXCEPT ![t] = "name"] /\ item' = [item EXCEPT ![t] = i]
      /\ \A u \in Threads : ~Busy(u)
  BY DEF Call, GoTo
<1>2. /\ folder' = folder /\ mtime' = mtime /\ inode' = inode /\ clock' = clock
      /\ stored' = stored /\ folder \subseteq Paths
  BY <1>1 DEF disk, TypeInv
<1>3. Quiet
  BY <1>1 DEF Quiet
<1>4. pc'[t] = "name" /\ item'[t] = i /\ \A u \in Threads : u # t => pc'[u] = "idle"
  BY <1>1 DEF Busy, TypeInv
<1>5. Keeps(folder, Room)'
  BY <1>2, <1>3 DEF AloneInv, Keeps, Chronicle
<1>6. FreshInv'
  BY <1>1, <1>2, <1>4 DEF AloneInv, FreshInv, Busy
<1>7. PhaseInv(t)'
  BY <1>4, <1>5 DEF PhaseInv
<1>8. \A p \in folder' : mtime'[p] <= clock'
  BY <1>2 DEF AloneInv
<1> QED
  BY <1>4, <1>5, <1>6, <1>7, <1>8, OneThread

LEMMA ChooseKeepsAlone ==
  ASSUME TypeInv, AloneInv, NEW t \in Threads, ChooseName(t)
  PROVE  AloneInv'
<1>1. /\ UNCHANGED disk /\ UNCHANGED stored /\ UNCHANGED left
      /\ pc[t] = "name" /\ pc' = [pc EXCEPT ![t] = "open"]
      /\ item' = item /\ path' = [path EXCEPT ![t] = Name(item[t])]
  BY DEF ChooseName, GoTo
<1>2. pc'[t] = "open" /\ \A u \in Threads : u # t => pc'[u] = "idle"
  BY <1>1, OthersIdle DEF Busy, TypeInv
<1>3. Keeps(folder, Room)' /\ \A p \in folder' : mtime'[p] <= clock'
  BY <1>1, DiskStands DEF AloneInv, PhaseInv
<1>4. folder' = folder /\ item[t] \in Items /\ item[t] \notin folder
  BY <1>1 DEF disk, AloneInv, FreshInv, TypeInv
<1>5. path'[t] = Name(item[t])
  BY <1>1 DEF TypeInv
<1>6. PhaseInv(t)'
  BY <1>1, <1>2, <1>3, <1>4, <1>5 DEF PhaseInv, Name
<1>7. FreshInv'
  BY <1>1, <1>2, <1>4 DEF AloneInv, FreshInv, Busy
<1> QED
  BY <1>2, <1>3, <1>6, <1>7, OneThread

LEMMA OpenKeepsAlone ==
  ASSUME TypeInv, DataInv, AloneInv, NEW t \in Threads, Open(t)
  PROVE  AloneInv'
<1> DEFINE p == path[t]
<1>1. /\ pc[t] = "open" /\ pc' = [pc EXCEPT ![t] = "copy"]
      /\ folder' = folder \cup {p} /\ UNCHANGED <<item, path, stored, left>>
  BY DEF Open, GoTo
<1>2. /\ p \in Paths /\ p \notin folder /\ p \in {NameOf(item[t]), item[t]}
      /\ item[t] \in Items /\ Keeps(folder, Room) /\ folder \subseteq Paths
  BY <1>1 DEF TypeInv, AloneInv, PhaseInv
<1>3. /\ inode' = [inode EXCEPT ![p] = item[t]] /\ inode'[p] = item[t]
      /\ file' = [file EXCEPT ![t] = item[t]]
  BY <1>2 DEF Open, DataInv
<1>4. clock' = clock + 1 /\ mtime' = [mtime EXCEPT ![p] = clock + 1]
  BY DEF Open, Touch
<1>5. pc'[t] = "copy" /\ \A u \in Threads : u # t => pc'[u] = "idle"
  BY <1>1, OthersIdle DEF Busy, TypeInv
<1>6. folder' \ {path'[t]} = folder
  BY <1>1, <1>2
<1>7. Keeps(folder, Room) /\ \A q \in folder : mtime'[q] = mtime[q] /\ inode'[q] = inode[q]
  BY <1>2, <1>3, <1>4 DEF DataInv
<1>8. PICK s \in Seq(Paths) : Chronicle(folder, s) /\ Least(Room, Len(stored)) <= Len(s)
  BY <1>7 DEF Keeps
<1>9. \A j \in 1..Len(s) : s[j] \in folder
  BY <1>8, LenProperties DEF Chronicle, ToSet
<1>10. Keeps(folder \ {path[t]}, Room)'
  <2>1. PICK F : F = folder
    OBVIOUS
  <2>2. Chronicle(F, s)'
    BY <1>1, <1>7, <1>8, <1>9, <2>1 DEF Chronicle
  <2>3. (Least(Room, Len(stored)) <= Len(s))'
    BY <1>1, <1>8 DEF Least, Room, Limit
  <2>4. F = folder' \ {path'[t]}
    BY <1>6, <2>1
  <2> QED
    BY <2>2, <2>3, <2>4 DEF Keeps, Chronicle
<1>11. \A q \in folder' : mtime'[q] <= clock'
  BY <1>1, <1>2, <1>4 DEF AloneInv, DataInv
<1>12. FreshInv'
  BY <1>1, <1>2, <1>5, RotatingAssumption DEF AloneInv, FreshInv, Busy
<1>13. file'[t] = item'[t]
  BY <1>1, <1>3 DEF DataInv
<1>14. \A q \in folder' \ {path'[t]} : mtime'[q] < mtime'[path'[t]]
  BY <1>1, <1>2, <1>4 DEF AloneInv, DataInv
<1> QED
  BY <1>1, <1>3, <1>5, <1>10, <1>11, <1>12, <1>13, <1>14, OneThread DEF PhaseInv, Quiet, Busy

(* However the copy ends, the file at the path is the newest one made.     *)
LEMMA CopyMakesNewest ==
  ASSUME TypeInv, DataInv, AloneInv, NEW t \in Threads, Copy(t) \/ CopyFails(t)
  PROVE  Keeps(folder, Room + 1)' /\ \A q \in folder' : mtime'[q] <= clock'
<1> DEFINE p == path[t]
           S == folder \ {p}
<1>1. /\ pc[t] = "copy" /\ UNCHANGED <<folder, inode>>
  BY DEF Copy, CopyFails
<1>2. /\ p \in folder /\ inode[p] = item[t] /\ Keeps(S, Room) /\ Reachable(t)
      /\ folder \subseteq Paths /\ \A q \in S : mtime[q] < mtime[p]
  BY <1>1 DEF TypeInv, AloneInv, PhaseInv, Reachable
<1>3. (Touch(p) \/ UNCHANGED <<clock, mtime>>) /\ stored' = Append(stored, item[t])
  BY <1>2 DEF Copy, CopyFails
<1>4. \A q \in folder : mtime[q] \in Nat /\ clock \in Nat /\ mtime[q] <= clock
  BY <1>2 DEF DataInv, AloneInv
<1>5. /\ \A q \in S : mtime'[q] = mtime[q] /\ mtime[q] < mtime'[p]
      /\ \A q \in folder : mtime'[q] <= clock'
  <2>1. CASE UNCHANGED <<clock, mtime>>
    BY <1>2, <1>4, <2>1
  <2>2. CASE Touch(p)
    <3>1. /\ clock' = clock + 1 /\ mtime'[p] = clock + 1
          /\ \A q \in S : mtime'[q] = mtime[q]
      BY <1>2, <2>2 DEF Touch, DataInv
    <3>2. \A q \in folder : q \in S \/ q = p
      OBVIOUS
    <3>3. \A q \in S : q \in folder
      OBVIOUS
    <3> HIDE DEF p, S
    <3> QED
      BY <1>4, <3>1, <3>2, <3>3
  <2> QED
    BY <1>3, <2>1, <2>2
<1>6. PICK C, c, i : C = S /\ c = p /\ i = item[t]
  OBVIOUS
<1>7. Keeps(C \cup {c}, Room + 1)'
  <2>1. C \subseteq Paths /\ c \notin C /\ c \in Paths /\ inode' = inode
    BY <1>1, <1>2, <1>6
  <2>2. Keeps(C, Room) /\ inode[c] = i /\ stored' = Append(stored, i)
    BY <1>2, <1>3, <1>6
  <2>3. \A q \in C : mtime'[q] = mtime[q] /\ mtime[q] < mtime'[c]
    BY <1>5, <1>6
  <2> HIDE DEF p, S
  <2> QED
    BY <2>1, <2>2, <2>3, KeepsOneMore, LimitIsNumber
<1>8. Keeps(folder, Room + 1)'
  <2>1. C \cup {c} = folder'
    BY <1>1, <1>2, <1>6
  <2> QED
    BY <1>7, <2>1 DEF Keeps
<1> QED
  BY <1>1, <1>5, <1>8

LEMMA CopyKeepsAlone ==
  ASSUME TypeInv, DataInv, AloneInv, NEW t \in Threads, Copy(t)
  PROVE  AloneInv'
<1>1. /\ pc[t] = "copy" /\ pc' = [pc EXCEPT ![t] = "wait"]
      /\ UNCHANGED <<folder, item, left>>
  BY DEF Copy, GoTo, call
<1>2. pc'[t] = "wait" /\ \A u \in Threads : u # t => pc'[u] = "idle"
  BY <1>1, OthersIdle DEF Busy, TypeInv
<1>3. FreshInv'
  BY <1>1, <1>2 DEF AloneInv, FreshInv, Busy
<1> QED
  BY <1>2, <1>3, CopyMakesNewest, OneThread DEF PhaseInv, Quiet, Busy

(* A call that raises after it has put its file into the folder. *)
LEMMA LeaveKeepsAlone ==
  ASSUME TypeInv, DataInv, DataInv', AloneInv, NEW t \in Threads,
         CopyFails(t) \/ TrimFails(t)
  PROVE  AloneInv'
<1>1. /\ pc[t] \in {"copy", "list", "trim"} /\ pc' = [pc EXCEPT ![t] = "idle"]
      /\ item' = [item EXCEPT ![t] = NoItem] /\ UNCHANGED <<folder, left>>
  BY DEF CopyFails, TrimFails, Leave, Reset, GoTo, disk
<1>2. \A u \in Threads : pc'[u] = "idle"
  BY <1>1, OthersIdle DEF Busy, TypeInv
<1>3. Keeps(folder, Room)' /\ \A q \in folder' : mtime'[q] <= clock'
  <2>1. CASE CopyFails(t)
    <3>1. PICK F : F = folder'
      OBVIOUS
    <3>2. Keeps(F, Room + 1)' /\ \A q \in folder' : mtime'[q] <= clock'
      BY <2>1, <3>1, CopyMakesNewest DEF Keeps, Chronicle
    <3>3. ASSUME NEW L, NEW n, L = Len(stored'), n \in Nat, Least(Room + 1, L) <= n
          PROVE  Least(Room, L) <= n
      <4>1. L \in Nat
        BY <3>3 DEF DataInv
      <4> QED
        BY <3>3, <4>1, LimitIsNumber DEF Least
    <3>4. PICK s \in Seq(Paths) : Chronicle(F, s)' /\ (Least(Room + 1, Len(stored)) <= Len(s))'
      BY <3>2 DEF Keeps
    <3>5. Len(s) \in Nat
      BY LenProperties
    <3> QED
      BY <3>1, <3>2, <3>3, <3>4, <3>5 DEF Keeps, Chronicle, Least, Room, Limit
  <2>2. CASE TrimFails(t)
    <3>1. UNCHANGED disk /\ UNCHANGED stored /\ UNCHANGED left /\ pc[t] \in {"list", "trim"}
      BY <2>2 DEF TrimFails
    <3>2. Keeps(folder, Room)
      BY <3>1, KeepsFewer DEF AloneInv, PhaseInv, Keeps, TypeInv
    <3> QED
      BY <3>1, <3>2, DiskStands
  <2> QED
    BY <2>1, <2>2
<1>4. FreshInv'
  BY <1>1, <1>2 DEF AloneInv, FreshInv, Busy
<1>5. PhaseInv(t)'
  BY <1>2 DEF PhaseInv
<1> QED
  BY <1>2, <1>3, <1>4, <1>5, OneThread

LEMMA ListKeepsAlone ==
  ASSUME TypeInv, DataInv, AloneInv, NEW t \in Threads, List(t)
  PROVE  AloneInv'
<1>1. /\ UNCHANGED disk /\ UNCHANGED <<stored, left, item>>
      /\ pc[t] = "list" /\ pc' = [pc EXCEPT ![t] = "trim"]
  BY DEF List, GoTo, call
<1>2. PICK r \in SetToSeqs(folder) : OldestFirst(r) /\ paths' = [paths EXCEPT ![t] = r]
  BY DEF List
<1>3. PICK s \in Seq(Paths) : Chronicle(folder, s) /\ Least(Room, Len(stored)) <= Len(s)
  BY <1>1, KeepsFewer DEF AloneInv, PhaseInv, Keeps
<1>4. Chronicle(folder, r) /\ Least(Room, Len(stored)) <= Len(r)
  BY <1>2, <1>3, SortingFindsChronicle DEF TypeInv
<1>5. /\ pc'[t] = "trim" /\ paths'[t] = r
      /\ \A u \in Threads : u # t => pc'[u] = "idle"
  BY <1>1, <1>2, OthersIdle DEF Busy, TypeInv
<1>6. /\ folder' = folder /\ mtime' = mtime /\ inode' = inode /\ clock' = clock
      /\ stored' = stored
  BY <1>1 DEF disk
<1>7. Chronicle(folder, paths[t])'
  BY <1>4, <1>5, <1>6 DEF Chronicle
<1>9. PhaseInv(t)'
  BY <1>4, <1>5, <1>6, <1>7 DEF PhaseInv, Least
<1>10. FreshInv' /\ \A p \in folder' : mtime'[p] <= clock'
  BY <1>1, <1>5, <1>6 DEF AloneInv, FreshInv, Busy
<1> QED
  BY <1>5, <1>9, <1>10, OneThread DEF Quiet, Busy

(* Without its first path a chronicle still is one. *)
LEMMA ShorterChronicle ==
  ASSUME DataInv, NEW s \in Seq(Paths), s # <<>>, Chronicle(folder, s)
  PROVE  /\ Chronicle(folder \ {Head(s)}, Tail(s))
         /\ Len(Tail(s)) = Len(s) - 1
<1>1. Len(s) \in Nat \ {0} /\ Head(s) = s[1] /\ DOMAIN s = 1..Len(s)
  BY EmptySeq, LenProperties
<1>2. /\ Tail(s) \in Seq(Paths) /\ Len(Tail(s)) = Len(s) - 1
      /\ \A j \in 1..Len(s)-1 : Tail(s)[j] = s[j+1]
  BY HeadTailProperties
<1>3. \A j \in 1..Len(s)-1 : j+1 \in 1..Len(s)
  BY <1>1
<1>4. /\ \A j \in 1..Len(s) : s[j] \in Paths
      /\ \A p \in Paths : mtime[p] \in Nat
  BY <1>1 DEF DataInv
<1>5. \A j, k \in 1..Len(s) : s[j] = s[k] => j = k
  BY <1>1, <1>4 DEF Chronicle
<1>6. ToSet(Tail(s)) = folder \ {Head(s)}
  BY <1>1, <1>5, ShorterListing DEF Chronicle
<1>7. Len(stored) \in Nat /\ Len(s) <= Len(stored)
  BY StoredIsCounted DEF Chronicle
<1>8. \A j, k \in 1..Len(s)-1 : j < k => mtime[Tail(s)[j]] < mtime[Tail(s)[k]]
  BY <1>1, <1>2, <1>3 DEF Chronicle
<1>9. \A j \in 1..Len(s)-1 : inode[Tail(s)[j]] = stored[Len(stored) - (Len(s)-1) + j]
  <2>1. \A j \in 1..Len(s) : inode[s[j]] = stored[Len(stored) - Len(s) + j]
    BY DEF Chronicle
  <2>2. \A j \in 1..Len(s)-1 :
          Len(stored) - (Len(s)-1) + j = Len(stored) - Len(s) + (j+1)
    BY <1>1, <1>7
  <2> QED
    BY <1>2, <1>3, <2>1, <2>2
<1> QED
  BY <1>1, <1>2, <1>6, <1>7, <1>8, <1>9 DEF Chronicle

LEMMA UnlinkKeepsAlone ==
  ASSUME TypeInv, DataInv, AloneInv, NEW t \in Threads, Unlink(t)
  PROVE  AloneInv'
<1>1. /\ UNCHANGED <<inode, mtime, clock, pc, item, stored, left>>
      /\ pc[t] = "trim" /\ TooMany(paths[t])
      /\ folder' = folder \ {Head(paths[t])}
      /\ paths' = [paths EXCEPT ![t] = Tail(@)]
  BY DEF Unlink, call
<1>2. /\ paths[t] \in Seq(Paths) /\ paths[t] # <<>> /\ Len(paths[t]) \in Nat
      /\ paths'[t] = Tail(paths[t])
  BY <1>1 DEF TooMany, TypeInv
<1>3. /\ Chronicle(folder, paths[t])
      /\ Least(Room, Len(stored)) <= Len(paths[t])
  BY <1>1 DEF AloneInv, PhaseInv
<1>4. Chronicle(folder', paths'[t]) /\ Len(paths'[t]) = Len(paths[t]) - 1
  BY <1>1, <1>2, <1>3, ShorterChronicle
<1>5. Chronicle(folder, paths[t])'
  BY <1>1, <1>4 DEF Chronicle
<1>6. Room <= Len(paths[t]) - 1
  BY <1>1, <1>2, LimitIsNumber DEF TooMany, Room
<1>7. Least(Room, Len(stored)) <= Len(paths[t]) - 1
  BY <1>2, <1>3, <1>6, StoredIsCounted, LimitIsNumber DEF Least
<1>8. pc'[t] = "trim" /\ \A u \in Threads : u # t => pc'[u] = "idle"
  BY <1>1, OthersIdle DEF Busy
<1>9. PhaseInv(t)'
  BY <1>1, <1>4, <1>5, <1>7, <1>8 DEF PhaseInv, Least
<1>10. FreshInv' /\ \A p \in folder' : mtime'[p] <= clock'
  BY <1>1 DEF AloneInv, FreshInv, Busy
<1> QED
  BY <1>8, <1>9, <1>10, OneThread DEF Quiet, Busy

LEMMA ReleaseKeepsAlone ==
  ASSUME TypeInv, DataInv, AloneInv, NEW t \in Threads, Release(t)
  PROVE  AloneInv'
<1>1. /\ UNCHANGED disk /\ UNCHANGED stored /\ UNCHANGED left
      /\ pc[t] = "trim" /\ ~TooMany(paths[t]) /\ pc' = [pc EXCEPT ![t] = "idle"]
  BY DEF Release, GoTo
<1>2. paths[t] \in Seq(Paths) /\ Len(paths[t]) \in Nat
  BY DEF TypeInv
<1>6. Keeps(folder, Room)
  BY <1>1, <1>2 DEF AloneInv, PhaseInv, Keeps
<1>7. \A u \in Threads : pc'[u] = "idle"
  BY <1>1, OthersIdle DEF Busy, TypeInv
<1>8. Keeps(folder, Room)' /\ \A p \in folder' : mtime'[p] <= clock'
  BY <1>1, <1>6, DiskStands
<1>9. FreshInv'
  BY <1>1, <1>7 DEF AloneInv, FreshInv, Busy, disk
<1>10. PhaseInv(t)'
  BY <1>7 DEF PhaseInv
<1> QED
  BY <1>7, <1>8, <1>9, <1>10, OneThread

LEMMA NextAloneInv ==
  ASSUME TypeInv, DataInv, DataInv', ~overlap => AloneInv, [Next]_vars, ~overlap'
  PROVE  AloneInv'
<1>1. ASSUME NEW t \in Threads, NEW i \in Items, Call(t, i) PROVE AloneInv'
  <2>1. ~overlap
    BY <1>1 DEF Call
  <2> QED
    BY <1>1, <2>1, CallKeepsAlone
<1>2. ASSUME NEW t \in Threads, Store(t) PROVE AloneInv'
  <2>1. ~overlap
    BY <1>2 DEF Store, NothingStored, ChooseName, Open, Copy, CopyFails, Trim, Acquire, List,
                Unlink, TrimFails, Release
  <2>2. CASE NothingStored(t)
    <3>1. /\ UNCHANGED disk /\ UNCHANGED stored /\ UNCHANGED left
          /\ pc[t] \in {"name", "open"} /\ pc' = [pc EXCEPT ![t] = "idle"]
          /\ item' = [item EXCEPT ![t] = NoItem]
      BY <2>2 DEF NothingStored, GoTo, Reset
    <3>2. \A u \in Threads : pc'[u] = "idle"
      BY <2>1, <3>1, OthersIdle DEF Busy, TypeInv
    <3>3. Keeps(folder, Room)' /\ \A p \in folder' : mtime'[p] <= clock'
      BY <2>1, <3>1, DiskStands DEF AloneInv, PhaseInv
    <3>4. FreshInv' /\ PhaseInv(t)'
      BY <2>1, <3>1, <3>2 DEF AloneInv, FreshInv, PhaseInv, Busy, disk
    <3> QED
      BY <3>2, <3>3, <3>4, OneThread
  <2>3. CASE ChooseName(t) \/ Open(t) \/ Copy(t)
    BY <2>1, <2>3, ChooseKeepsAlone, OpenKeepsAlone, CopyKeepsAlone
  <2>4. CASE CopyFails(t) \/ TrimFails(t)
    BY <2>1, <2>4, LeaveKeepsAlone
  <2>5. CASE Acquire(t)
    <3>1. /\ UNCHANGED disk /\ UNCHANGED <<stored, left, item>>
          /\ pc[t] = "wait" /\ pc' = [pc EXCEPT ![t] = "list"]
      BY <2>5 DEF Acquire, GoTo, call
    <3>2. pc'[t] = "list" /\ \A u \in Threads : u # t => pc'[u] = "idle"
      BY <2>1, <3>1, OthersIdle DEF Busy, TypeInv
    <3>3. Keeps(folder, Room + 1)' /\ \A p \in folder' : mtime'[p] <= clock'
      <4>1. Keeps(folder, Room + 1)
        BY <2>1, <3>1 DEF AloneInv, PhaseInv
      <4> QED
        BY <2>1, <3>1, <4>1, DiskStands
    <3>4. FreshInv'
      BY <2>1, <3>1, <3>2 DEF AloneInv, FreshInv, Busy, disk
    <3>5. PhaseInv(t)'
      BY <3>2, <3>3 DEF PhaseInv
    <3> QED
      BY <3>2, <3>3, <3>4, <3>5, OneThread DEF Quiet, Busy
  <2>6. CASE List(t) \/ Unlink(t) \/ Release(t)
    BY <2>1, <2>6, ListKeepsAlone, UnlinkKeepsAlone, ReleaseKeepsAlone
  <2> QED
    BY <1>2, <2>2, <2>3, <2>4, <2>5, <2>6 DEF Store, Trim
<1>3. CASE UNCHANGED vars
  <2>1. AloneInv /\ UNCHANGED <<folder, inode, mtime, clock, pc, item, path, file, paths,
                                left, stored>>
    BY <1>3 DEF vars
  <2>2. \A S, s : Chronicle(S, s) => Chronicle(S, s)'
    BY <2>1 DEF Chronicle
  <2>3. \A S, n : Keeps(S, n) => Keeps(S, n)'
    BY <2>1, <2>2 DEF Keeps
  <2>4. FreshInv' /\ (Quiet' => Quiet) /\ \A t \in Threads : Busy(t)' => Busy(t)
    BY <2>1 DEF AloneInv, FreshInv, Quiet, Busy
  <2>5. ASSUME NEW t \in Threads PROVE PhaseInv(t)'
    <3>1. PhaseInv(t)
      BY <2>1 DEF AloneInv
    <3>2. PICK F, P, c : F = folder /\ P = path[t] /\ c = paths[t]
      OBVIOUS
    <3>3. /\ Keeps(F, Room) => Keeps(F, Room)'
          /\ Keeps(F, Room + 1) => Keeps(F, Room + 1)'
          /\ Keeps(F \ {P}, Room) => Keeps(F \ {P}, Room)'
          /\ Chronicle(F, c) => Chronicle(F, c)'
      BY <2>2, <2>3
    <3>4. F = folder' /\ P = path'[t] /\ c = paths'[t]
      BY <2>1, <3>2
    <3>5. /\ Keeps(folder, Room) => Keeps(folder, Room)'
          /\ Keeps(folder, Room + 1) => Keeps(folder, Room + 1)'
          /\ Keeps(folder \ {path[t]}, Room) => Keeps(folder \ {path[t]}, Room)'
          /\ Chronicle(folder, paths[t]) => Chronicle(folder, paths[t])'
      BY <3>2, <3>3, <3>4 DEF Keeps, Chronicle
    <3> QED
      BY <2>1, <3>1, <3>5 DEF PhaseInv, Least
  <2>6. Keeps(folder, Room) => Keeps(folder, Room)'
    <3>1. PICK F : F = folder
      OBVIOUS
    <3> QED
      BY <2>1, <2>3, <3>1 DEF Keeps, Chronicle
  <2> QED
    BY <2>1, <2>4, <2>5, <2>6 DEF AloneInv
<1> QED
  BY <1>1, <1>2, <1>3 DEF Next

LEMMA InitSingleInv == Init => SingleInv
<1> SUFFICES ASSUME Init PROVE SingleInv
  OBVIOUS
<1>1. DataInv
  BY DEF Init, DataInv
<1>2. /\ folder = {} /\ stored = <<>> /\ \A t \in Threads : pc[t] = "idle"
  BY DEF Init
<1>3. Keeps(folder, Room)
  <2>1. <<>> \in Seq(Paths) /\ Len(<<>>) = 0 /\ ToSet(<<>>) = {}
    BY EmptySeq DEF ToSet
  <2>2. Chronicle(folder, <<>>)
    BY <1>2, <2>1 DEF Chronicle
  <2>3. Least(Room, Len(stored)) <= Len(<<>>)
    BY <1>2, <2>1, LimitIsNumber DEF Least
  <2> QED
    BY <2>1, <2>2, <2>3 DEF Keeps
<1>4. AloneInv
  BY <1>2, <1>3 DEF AloneInv, FreshInv, PhaseInv, Busy
<1> QED
  BY <1>1, <1>4 DEF SingleInv

(* A folder that keeps Room files or more has the newest ones: as many as  *)
(* there are paths in it, and it has all if there are fewer than Room.     *)
LEMMA ChronicleIsNewest ==
  ASSUME TypeInv, DataInv, Keeps(folder, Room), NEW D \in Nat,
         Cardinality(folder) <= Room + D
  PROVE  \E n \in Room..(Room + D) : {inode[p] : p \in folder} = Newest(n)
<1>1. PICK s \in Seq(Paths) : Chronicle(folder, s) /\ Least(Room, Len(stored)) <= Len(s)
  BY DEF Keeps
<1> DEFINE L == Len(stored)
           m == Len(s)
<1>2. /\ L \in Nat /\ m \in Nat /\ DOMAIN s = 1..m /\ DOMAIN stored = 1..L
  BY StoredIsCounted, LenProperties DEF DataInv
<1>3. /\ m <= L /\ \A j \in 1..m : inode[s[j]] = stored[L - m + j]
      /\ Least(Room, L) <= m
  BY <1>1 DEF Chronicle
<1>4. \A p : p \in folder <=> \E j \in 1..m : s[j] = p
  BY <1>1, <1>2 DEF Chronicle, ToSet
<1>5. m <= Cardinality(folder) /\ Cardinality(folder) \in Nat
  <2>1. Cardinality(folder) \in Nat
    BY FS_CardinalityType DEF TypeInv
  <2>2. CASE m = 0
    BY <2>1, <2>2
  <2>3. CASE m \in 1..m
    <3> DEFINE R == {p \in ToSet(s) : mtime[p] <= mtime[s[m]]}
    <3>1. Cardinality(R) = m
      BY <1>1, <2>3, PlaceIsRank DEF Chronicle
    <3>2. R \subseteq folder
      BY <1>1 DEF Chronicle
    <3> HIDE DEF R, m
    <3> QED
      BY <2>1, <3>1, <3>2, FS_Subset DEF TypeInv
  <2> QED
    BY <1>2, <2>2, <2>3
<1> HIDE DEF L, m
<1> DEFINE n == IF m < Room THEN Room ELSE m
<1>6. n \in Room..(Room + D) /\ (n = m \/ (m = L /\ n >= L))
  BY <1>2, <1>3, <1>5, LimitIsNumber DEF Least
<1>7. \A j \in 1..m : L - m + j \in 1..L /\ (L - m + j) + n > L
  BY <1>2, <1>3, <1>6, LimitIsNumber
<1>8. \A k \in 1..L : k + n > L => k - (L - m) \in 1..m /\ L - m + (k - (L - m)) = k
  BY <1>2, <1>3, <1>6, LimitIsNumber
<1> HIDE DEF n
<1>9. ASSUME NEW i PROVE i \in Newest(n) <=> \E k \in 1..L : k + n > L /\ i = stored[k]
  BY <1>2 DEF Newest, L
<1>10. ASSUME NEW i
       PROVE (\E p \in folder : i = inode[p]) <=> \E j \in 1..m : i = stored[L - m + j]
  BY <1>3, <1>4
<1>11. ASSUME NEW i
       PROVE (\E j \in 1..m : i = stored[L - m + j])
               <=> \E k \in 1..L : k + n > L /\ i = stored[k]
  BY <1>7, <1>8
<1>12. ASSUME NEW i PROVE i \in {inode[p] : p \in folder} <=> i \in Newest(n)
  <2>1. i \in {inode[p] : p \in folder} <=> \E p \in folder : i = inode[p]
    OBVIOUS
  <2>2. (\E p \in folder : i = inode[p]) <=> \E k \in 1..L : k + n > L /\ i = stored[k]
    BY <1>10, <1>11, Zenon
  <2>3. i \in Newest(n) <=> \E k \in 1..L : k + n > L /\ i = stored[k]
    BY <1>9, Zenon
  <2> QED
    BY <2>1, <2>2, <2>3, Zenon
<1>13. {inode[p] : p \in folder} = Newest(n)
  BY <1>12
<1> QED
  BY <1>6, <1>13

(* Calls of store that come one after the other leave exactly the newest   *)
(* files, each under a path of its own although names may be the same, for *)
(* every number_of_files: as many as there is room for, and more only      *)
(* while the last calls raised.                                            *)
THEOREM NewestAreKept == Spec => []NewestAreKeptUnlessOverlap
<1>1. IInv /\ SingleInv /\ [Next]_vars => SingleInv'
  BY NextDataInv, NextAloneInv DEF IInv, SingleInv
<1>2. IInv /\ SingleInv => NewestAreKeptUnlessOverlap
  <2> SUFFICES ASSUME IInv, SingleInv, Quiet, ~overlap
               PROVE  \E n \in Room..(Room + Cardinality(debris)) :
                        {inode[p] : p \in folder} = Newest(n)
    BY DEF NewestAreKeptUnlessOverlap
  <2>1. Untrimmed = debris
    BY DEF Untrimmed, Storing, Quiet, Busy
  <2>2. Cardinality(folder) <= Room + Cardinality(debris) /\ Cardinality(debris) \in Nat
    BY <2>1, UntrimmedIsFinite DEF IInv, BoundInv
  <2>3. Keeps(folder, Room) /\ DataInv
    BY DEF SingleInv, AloneInv
  <2> QED
    BY <2>2, <2>3, ChronicleIsNewest DEF IInv
<1> QED
  BY InitSingleInv, IInvariance, <1>1, <1>2, PTL DEF Spec
=============================================================================
