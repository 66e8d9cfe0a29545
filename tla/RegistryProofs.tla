---------------------------- MODULE RegistryProofs ----------------------------
(***************************************************************************)
(* The registry of configuration files, for any files and any contents:    *)
(* the lists and managers agree with it, and it agrees with the files.     *)
(***************************************************************************)
EXTENDS Registry, SequenceTheorems, TLAPS

Kinds == {"publication", "subscription", "storage", "processor", "runner"}
Events == {"written", "removed"} \X Files

TypeInv ==
  /\ disk \in [Files -> Contents \cup {None}]
  /\ phase \in {"reading", "starting", "running", "failed"}
  /\ todo \subseteq Files
  /\ events \in Seq(Events)
  /\ job \in Files \cup {None}
  /\ registry \in [Files -> Objects \cup {None}]
  /\ made \in Nat
  /\ collided \in BOOLEAN

(* Which files are without an object: those that are still to be read, and *)
(* the one that is being rewritten.                                        *)
PhaseInv ==
  /\ \A f \in todo : registry[f] = None
  /\ phase \in {"starting", "running"} => todo = {}
  /\ phase # "running" => job = None /\ events = <<>>
  /\ job # None => registry[job] = None

(* Each object is that of one file, and so is each name, without collision.*)
SerialInv ==
  /\ \A f \in Files : registry[f] # None => registry[f].serial < made
  /\ \A f, g \in Files : registry[f] # None /\ registry[f] = registry[g] => f = g

NameInv ==
  ~collided => \A f, g \in Files :
    registry[f] # None /\ registry[g] # None /\ f # g
    => ~SameName(registry[f].content, registry[g].content)

(* The last event of a file says whether the file is there, unless the     *)
(* monitor was not told of what happened to it since.                      *)
LastIn(es, i) == \A j \in 1..Len(es) : j > i => es[j][2] # es[i][2]
Tell(es, d, untold) ==
  \A i \in 1..Len(es) :
    LastIn(es, i) /\ es[i][2] \notin untold => (es[i][1] = "removed" <=> d[es[i][2]] = None)
EventInv == Tell(events, disk, missed)

(* Nobody has yet to look at the file.                                     *)
Seen(f) ==
  /\ \A i \in 1..Len(events) : events[i][2] # f
  /\ job # f /\ f \notin todo

Follows(f) ==
  IF Makes(f) /\ disk[f].active
  THEN registry[f] # None /\ registry[f].content = disk[f]
  ELSE registry[f] = None

FollowInv ==
  phase # "failed" => \A f \in Files \ (missed \cup aborted) : Seen(f) => Follows(f)

----------------------------------------------------------------------------
(* Adding an object and taking one away *)

(* What add_configuration_file does to the registry. *)
Adds(f) ==
  \/ /\ Makes(f) /\ disk[f].active
     /\ registry' = [registry EXCEPT ![f] = [content |-> disk[f], serial |-> made]]
     /\ made' = made + 1
     /\ collided' = (collided \/ Collides(f))
  \/ /\ ~(Makes(f) /\ disk[f].active)
     /\ UNCHANGED <<registry, managers, made, collided>>

LEMMA AddConfigurationAdds ==
  ASSUME NEW f, NEW runtime, AddConfiguration(f, runtime)
  PROVE  Adds(f)
BY DEF AddConfiguration, AddObject, Adds

LEMMA NewObject ==
  ASSUME TypeInv, NEW f \in Files, Makes(f)
  PROVE  /\ [content |-> disk[f], serial |-> made] \in Objects
         /\ [content |-> disk[f], serial |-> made] # None
         /\ disk[f] \in Contents
<1>1. disk[f] \in Contents /\ made \in Nat
  BY DEF TypeInv, Makes
<1> QED
  BY <1>1, RegistryAssumption DEF Objects

LEMMA RegisteredMembers ==
  \A kind, o : o \in Registered(kind) <=>
    /\ o # None /\ o.content.kind = kind
    /\ \E f \in Files : registry[f] = o
<1>1. ToSet([f \in Files |-> registry[f]]) = {registry[f] : f \in Files}
  BY DEF ToSet
<1> QED
  BY <1>1 DEF Registered

LEMMA AddRegisters ==
  ASSUME TypeInv, NEW f \in Files, registry[f] = None, NEW o, o # None,
         registry' = [registry EXCEPT ![f] = o], NEW kind
  PROVE  Registered(kind)' = With(Registered(kind), kind, o)
<1>1. \A g \in Files : registry'[g] = IF g = f THEN o ELSE registry[g]
  BY DEF TypeInv
<1>2. \A x : x \in Registered(kind)' <=>
         x # None /\ x.content.kind = kind /\ \E g \in Files : registry'[g] = x
  <2>1. ToSet([g \in Files |-> registry[g]])' = {registry'[g] : g \in Files}
    BY DEF ToSet
  <2> QED
    BY <2>1 DEF Registered
<1>3. \A x : x \in Registered(kind) <=>
         x # None /\ x.content.kind = kind /\ \E g \in Files : registry[g] = x
  BY RegisteredMembers
<1>4. CASE o.content.kind = kind
  <2>1. Registered(kind)' = Registered(kind) \cup {o}
    BY <1>1, <1>2, <1>3, <1>4
  <2> QED
    BY <1>4, <2>1 DEF With
<1>5. CASE o.content.kind # kind
  <2>1. \A x : x \in Registered(kind)' <=> x \in Registered(kind)
    BY <1>1, <1>2, <1>3, <1>5
  <2>2. Registered(kind)' = Registered(kind)
    BY <2>1
  <2> QED
    BY <1>5, <2>2 DEF With
<1> QED
  BY <1>4, <1>5

LEMMA RemoveUnregisters ==
  ASSUME TypeInv, SerialInv, NEW f \in Files, registry[f] # None,
         registry' = [registry EXCEPT ![f] = None], NEW kind
  PROVE  Registered(kind)' = Registered(kind) \ {registry[f]}
<1>1. \A g \in Files : registry'[g] = IF g = f THEN None ELSE registry[g]
  BY DEF TypeInv
<1>2. \A x : x \in Registered(kind)' <=>
         x # None /\ x.content.kind = kind /\ \E g \in Files : registry'[g] = x
  <2>1. ToSet([g \in Files |-> registry[g]])' = {registry'[g] : g \in Files}
    BY DEF ToSet
  <2> QED
    BY <2>1 DEF Registered
<1>3. \A x : x \in Registered(kind) <=>
         x # None /\ x.content.kind = kind /\ \E g \in Files : registry[g] = x
  BY RegisteredMembers
<1>4. \A g \in Files : registry[g] = registry[f] => g = f
  BY DEF SerialInv
<1> QED
  BY <1>1, <1>2, <1>3, <1>4

(* What holds of the objects. *)
ObjectInv == SerialInv /\ NameInv /\ ManagersMatchRegistry

ObjectTypes ==
  /\ registry \in [Files -> Objects \cup {None}]
  /\ made \in Nat
  /\ collided \in BOOLEAN

LEMMA AddKeepsObjects ==
  ASSUME TypeInv, ObjectInv, NEW f \in Files, registry[f] = None,
         NEW runtime, AddConfiguration(f, runtime)
  PROVE  ObjectTypes' /\ ObjectInv'
<1> DEFINE o == [content |-> disk[f], serial |-> made]
<1>1. CASE ~(Makes(f) /\ disk[f].active)
  <2>1. UNCHANGED <<registry, managers, made, collided>>
    BY <1>1 DEF AddConfiguration
  <2>2. \A kind : Registered(kind)' = Registered(kind)
    BY <2>1 DEF Registered
  <2> QED
    BY <2>1, <2>2 DEF ObjectTypes, ObjectInv, SerialInv, NameInv, ManagersMatchRegistry, TypeInv,
                      managers
<1>2. CASE Makes(f) /\ disk[f].active
  <2>1. AddObject(f, runtime)
    BY <1>2 DEF AddConfiguration
  <2>2. /\ o \in Objects /\ o # None /\ disk[f] \in Contents
        /\ o.content = disk[f] /\ o.serial = made
    BY <1>2, NewObject
  <2>3. /\ registry' = [registry EXCEPT ![f] = o] /\ made' = made + 1
        /\ collided' = (collided \/ Collides(f))
    BY <2>1 DEF AddObject
  <2>4. /\ publications' = With(publications, "publication", o)
        /\ subscriptions' = With(subscriptions, "subscription", o)
        /\ storages' = With({s \in storages : ~SameName(o.content, s.content)}, "storage", o)
        /\ processors' = With({p \in processors : ~SameName(o.content, p.content)}, "processor", o)
        /\ runners' = With(runners, "runner", o)
    BY <2>1, <2>2 DEF AddObject
  <2> HIDE DEF o
  <2>5. \A g \in Files : registry'[g] = IF g = f THEN o ELSE registry[g]
    BY <2>3 DEF TypeInv
  <2>6. ObjectTypes'
    BY <2>2, <2>3 DEF ObjectTypes, TypeInv
  <2>7. SerialInv'
    <3>1. \A g \in Files : registry[g] # None => registry[g].serial < made /\ registry[g].serial \in Nat
      BY DEF ObjectInv, SerialInv, TypeInv, Objects
    <3>2. made \in Nat
      BY DEF TypeInv
    <3>3. \A g \in Files : registry'[g] # None => registry'[g].serial < made'
      BY <2>2, <2>3, <2>5, <3>1, <3>2
    <3>4. \A g \in Files : registry[g] # None => registry[g] # o
      BY <2>2, <3>1, <3>2
    <3>5. \A g, h \in Files : registry'[g] # None /\ registry'[g] = registry'[h] => g = h
      BY <2>2, <2>5, <3>4 DEF ObjectInv, SerialInv
    <3> QED
      BY <3>3, <3>5 DEF SerialInv
  <2>8. ASSUME ~collided'
        PROVE  /\ ~collided
               /\ \A g \in Files \ {f} : registry[g] # None
                    => ~SameName(registry[g].content, o.content) /\ ~SameName(o.content, registry[g].content)
    BY <2>2, <2>3, <2>8 DEF Collides, SameName, TypeInv
  <2>9. NameInv'
    BY <2>5, <2>8 DEF ObjectInv, NameInv
  <2>10. ManagersMatchRegistry'
    <3> SUFFICES ASSUME ~collided'
                 PROVE  /\ publications' = Registered("publication")'
                        /\ subscriptions' = Registered("subscription")'
                        /\ storages' = Registered("storage")'
                        /\ processors' = Registered("processor")'
                        /\ runners' = Registered("runner")'
      BY DEF ManagersMatchRegistry
    <3>1. \A kind : Registered(kind)' = With(Registered(kind), kind, o)
      <4> TAKE kind
      <4> QED
        BY <2>2, <2>3, AddRegisters
    <3>2. /\ publications = Registered("publication")
          /\ subscriptions = Registered("subscription")
          /\ storages = Registered("storage")
          /\ processors = Registered("processor")
          /\ runners = Registered("runner")
      BY <2>8 DEF ObjectInv, ManagersMatchRegistry
    <3>3. \A kind, x : x \in Registered(kind) => ~SameName(o.content, x.content)
      BY <2>8, RegisteredMembers
    <3>4. /\ {s \in storages : ~SameName(o.content, s.content)} = storages
          /\ {p \in processors : ~SameName(o.content, p.content)} = processors
      BY <3>2, <3>3
    <3> QED
      BY <2>4, <3>1, <3>2, <3>4
  <2> QED
    BY <2>6, <2>7, <2>9, <2>10 DEF ObjectInv
<1> QED
  BY <1>1, <1>2

LEMMA ForgetKeepsObjects ==
  ASSUME TypeInv, ObjectInv, NEW f \in Files, registry[f] # None,
         registry' = [registry EXCEPT ![f] = None], Forget(registry[f]),
         UNCHANGED <<made, collided>>
  PROVE  ObjectTypes' /\ ObjectInv'
<1> DEFINE o == registry[f]
<1>1. \A g \in Files : registry'[g] = IF g = f THEN None ELSE registry[g]
  BY DEF TypeInv
<1>2. ObjectTypes'
  BY DEF ObjectTypes, TypeInv
<1>3. SerialInv' /\ NameInv'
  BY <1>1 DEF ObjectInv, SerialInv, NameInv
<1>4. ManagersMatchRegistry'
  <2> SUFFICES ASSUME ~collided
               PROVE  /\ publications' = Registered("publication")'
                      /\ subscriptions' = Registered("subscription")'
                      /\ storages' = Registered("storage")'
                      /\ processors' = Registered("processor")'
                      /\ runners' = Registered("runner")'
    BY DEF ManagersMatchRegistry
  <2>1. \A kind : Registered(kind)' = Registered(kind) \ {o}
    <3> TAKE kind
    <3> QED
      BY RemoveUnregisters DEF ObjectInv
  <2>2. /\ publications = Registered("publication")
        /\ subscriptions = Registered("subscription")
        /\ storages = Registered("storage")
        /\ processors = Registered("processor")
        /\ runners = Registered("runner")
    BY DEF ObjectInv, ManagersMatchRegistry
  <2>3. \A kind, x : x \in Registered(kind) /\ SameName(o.content, x.content) => x = o
    BY RegisteredMembers DEF ObjectInv, NameInv
  <2>4. ASSUME o.content.kind \in {"storage", "processor"}
        PROVE  o \in Gone(o) /\ \A x \in Gone(o) : x = o
    <3>1. SameName(o.content, o.content)
      BY <2>4 DEF SameName
    <3>2. o \in storages \cup processors
      BY <2>2, <2>4, RegisteredMembers
    <3> QED
      BY <2>2, <2>3, <2>4, <3>1, <3>2 DEF Gone
  <2>5. Gone(o) = {o}
    BY <2>4 DEF Gone
  <2> QED
    BY <2>1, <2>2, <2>5 DEF Forget
<1> QED
  BY <1>2, <1>3, <1>4 DEF ObjectInv

----------------------------------------------------------------------------
(* The steps *)

(* The four ways in which files change. *)
LEMMA ChangeIsChanging ==
  ASSUME Change
  PROVE  /\ Changing
         /\ \/ \E f \in Files, c \in Contents : Write(f, c) \/ MoveIn(f, c)
            \/ \E f \in Files : Delete(f)
            \/ \E f, g \in Files : Rename(f, g)
BY DEF Change, Write, Delete, MoveIn, Rename

(* A file gets a content or none, and the monitor is told of it or not.    *)
Changes(f, c) ==
  /\ disk' = [disk EXCEPT ![f] = c]
  /\ IF events' = events THEN missed' = missed \cup {f}
     ELSE /\ phase = "running" /\ missed' = missed \ {f}
          /\ events' = Append(events, <<IF c = None THEN "removed" ELSE "written", f>>)

(* Two files change at once. *)
Renames(f, g) ==
  /\ f # g /\ disk[f] # None
  /\ disk' = [[disk EXCEPT ![f] = None] EXCEPT ![g] = disk[f]]
  /\ IF events' = events THEN missed' = missed \cup {f, g}
     ELSE /\ phase = "running" /\ missed' = missed \ {f, g}
          /\ events' = Append(Append(events, <<"removed", f>>), <<"written", g>>)

LEMMA ChangeCases ==
  ASSUME TypeInv, Change
  PROVE  /\ Changing
         /\ \/ \E f \in Files, c \in Contents \cup {None} : Changes(f, c)
            \/ \E f, g \in Files : Renames(f, g)
<1>1. ASSUME NEW es \in Seq(Events), NEW e \in Events
      PROVE  Append(es, e) \in Seq(Events) /\ Len(Append(es, e)) > Len(es)
  <2>1. Len(es) \in Nat /\ Len(Append(es, e)) = Len(es) + 1 /\ Append(es, e) \in Seq(Events)
    BY AppendProperties
  <2> QED
    BY <2>1
<1>2. events \in Seq(Events) /\ Len(events) \in Nat
  BY DEF TypeInv
<1>3. ASSUME NEW e \in Events PROVE Append(events, e) # events
  BY <1>1, <1>2
<1>4. ASSUME NEW f \in Files, NEW c \in Contents, Write(f, c) \/ MoveIn(f, c) PROVE Changes(f, c)
  <2>1. <<"written", f>> \in Events /\ c # None
    BY RegistryAssumption DEF Events
  <2> QED
    BY <1>3, <1>4, <2>1 DEF Write, MoveIn, Told, Untold, Changes
<1>5. ASSUME NEW f \in Files, Delete(f) PROVE Changes(f, None)
  <2>1. <<"removed", f>> \in Events
    BY DEF Events
  <2> QED
    BY <1>3, <1>5, <2>1 DEF Delete, Told, Untold, Changes
<1>6. ASSUME NEW f \in Files, NEW g \in Files, Rename(f, g) PROVE Renames(f, g)
  <2> DEFINE once == Append(events, <<"removed", f>>)
             twice == Append(once, <<"written", g>>)
  <2>1. <<"removed", f>> \in Events /\ <<"written", g>> \in Events
    BY DEF Events
  <2>2. once \in Seq(Events) /\ Len(once) > Len(events) /\ Len(twice) > Len(once)
    BY <1>1, <1>2, <2>1
  <2>3. Len(once) \in Nat /\ Len(twice) \in Nat
    BY <1>1, <2>1, <2>2, LenProperties
  <2>4. twice # events
    BY <1>2, <2>2, <2>3
  <2>5. disk' = [[disk EXCEPT ![f] = None] EXCEPT ![g] = disk[f]]
    BY <1>6 DEF Rename, TypeInv
  <2> QED
    BY <1>6, <2>4, <2>5 DEF Rename, Told, Untold, Renames
<1> QED
  BY <1>4, <1>5, <1>6, ChangeIsChanging

(* An object is made only for a file that has none. *)
Adding(f) ==
  /\ registry[f] = None
  /\ \E runtime \in BOOLEAN : AddConfiguration(f, runtime)
  /\ ReadFile(f) \/ NewFile(f) \/ AddAgain(f)

Standing == UNCHANGED <<registry, publications, subscriptions, storages, processors, runners,
                        made, collided>>

LEMMA NextCases ==
  ASSUME TypeInv, PhaseInv, [Next]_vars
  PROVE  \/ \E f \in Files : Adding(f)
         \/ \E f \in Files : RemoveObject(f)
         \/ /\ Standing
            /\ \/ Change
               \/ StartRunners \/ StartMonitor
               \/ \E f \in Files : NotRegistered(f)
               \/ UNCHANGED vars
<1>1. ASSUME NEW f \in Files, ReadFile(f) PROVE Adding(f)
  BY <1>1 DEF ReadFile, Adding, PhaseInv
<1>2. ASSUME NEW f \in Files, NewFile(f) PROVE Adding(f)
  BY <1>2 DEF NewFile, Adding
<1>3. ASSUME NEW f \in Files, AddAgain(f) PROVE Adding(f)
  BY <1>3, RegistryAssumption DEF AddAgain, Adding, PhaseInv
<1>4. ASSUME \/ Change
             \/ StartRunners \/ StartMonitor
             \/ \E f \in Files : NotRegistered(f)
             \/ UNCHANGED vars
      PROVE  Standing
  BY <1>4, ChangeIsChanging DEF Changing, StartRunners, StartMonitor, NotRegistered, vars, Standing,
              managers, history
<1> QED
  BY <1>1, <1>2, <1>3, <1>4 DEF Next, StartUp, Monitor

LEMMA NextObjects ==
  TypeInv /\ PhaseInv /\ ObjectInv /\ [Next]_vars => ObjectTypes' /\ ObjectInv'
<1> SUFFICES ASSUME TypeInv, PhaseInv, ObjectInv, [Next]_vars PROVE ObjectTypes' /\ ObjectInv'
  OBVIOUS
<1>1. ASSUME NEW f \in Files, Adding(f) PROVE ObjectTypes' /\ ObjectInv'
  BY <1>1, AddKeepsObjects DEF Adding
<1>2. ASSUME NEW f \in Files, RemoveObject(f) PROVE ObjectTypes' /\ ObjectInv'
  BY <1>2, ForgetKeepsObjects DEF RemoveObject
<1>3. ASSUME Standing PROVE ObjectTypes' /\ ObjectInv'
  <2>1. \A kind : Registered(kind)' = Registered(kind)
    BY <1>3 DEF Registered, Standing
  <2> QED
    BY <1>3, <2>1 DEF Standing, ObjectTypes, ObjectInv, SerialInv, NameInv, ManagersMatchRegistry,
                      TypeInv
<1> QED
  BY <1>1, <1>2, <1>3, NextCases

(* What the steps do to the queue of events. *)
LEMMA EventMoves ==
  ASSUME TypeInv, [Next]_vars
  PROVE  \/ Change
         \/ \E f \in Files :
              /\ NewFile(f) \/ RemoveObject(f) \/ NotRegistered(f)
              /\ events # <<>> /\ Head(events)[2] = f /\ events' = Tail(events)
              /\ disk' = disk /\ missed' = missed
         \/ UNCHANGED <<events, disk, missed>>
<1>1. ASSUME NEW f \in Files, NewFile(f) \/ RemoveObject(f) \/ NotRegistered(f)
      PROVE  /\ events # <<>> /\ Head(events)[2] = f /\ events' = Tail(events)
             /\ disk' = disk /\ missed' = missed
  <2>1. ASSUME NEW kind, Head(events) = <<kind, f>> PROVE Head(events)[2] = f
    BY <2>1
  <2>2. NewFile(f) => Head(events)[2] = f
    BY <2>1 DEF NewFile
  <2>3. NotRegistered(f) => Head(events)[2] = f
    BY <2>1 DEF NotRegistered
  <2>4. RemoveObject(f) => Head(events)[2] = f
    BY DEF RemoveObject
  <2>5. events # <<>> /\ events' = Tail(events) /\ disk' = disk /\ missed' = missed
    BY <1>1 DEF NewFile, RemoveObject, NotRegistered, users
  <2> QED
    BY <1>1, <2>2, <2>3, <2>4, <2>5
<1>2. ASSUME NEW f \in Files, ReadFile(f) \/ AddAgain(f)
      PROVE  UNCHANGED <<events, disk, missed>>
  BY <1>2 DEF ReadFile, AddAgain, users
<1>3. ASSUME StartRunners \/ StartMonitor \/ UNCHANGED vars
      PROVE  UNCHANGED <<events, disk, missed>>
  BY <1>3 DEF StartRunners, StartMonitor, users, vars, history
<1> QED
  BY <1>1, <1>2, <1>3 DEF Next, StartUp, Monitor

LEMMA NextTypeInv == TypeInv /\ PhaseInv /\ ObjectInv /\ [Next]_vars => TypeInv'
<1> SUFFICES ASSUME TypeInv, PhaseInv, ObjectInv, [Next]_vars PROVE TypeInv'
  OBVIOUS
<1>1. ObjectTypes'
  BY NextObjects
<1>2. events' \in Seq(Events)
  <2>1. ASSUME Change PROVE events' \in Seq(Events)
    <3>1. \A f \in Files : <<"written", f>> \in Events /\ <<"removed", f>> \in Events
      BY DEF Events
    <3>2. \A es \in Seq(Events), e \in Events : Append(es, e) \in Seq(Events)
      BY AppendProperties
    <3>3. events \in Seq(Events)
      BY DEF TypeInv
    <3>4. ASSUME NEW f \in Files, NEW c, Changes(f, c) PROVE events' \in Seq(Events)
      BY <3>1, <3>2, <3>3, <3>4 DEF Changes
    <3>5. ASSUME NEW f \in Files, NEW g \in Files, Renames(f, g) PROVE events' \in Seq(Events)
      BY <3>1, <3>2, <3>3, <3>5 DEF Renames
    <3> QED
      BY <2>1, <3>4, <3>5, ChangeCases
  <2>2. ASSUME events # <<>>, events' = Tail(events) PROVE events' \in Seq(Events)
    BY <2>2, HeadTailProperties DEF TypeInv
  <2>3. ASSUME events' = events PROVE events' \in Seq(Events)
    BY <2>3 DEF TypeInv
  <2> QED
    BY <2>1, <2>2, <2>3, EventMoves
<1>3. /\ disk' \in [Files -> Contents \cup {None}]
      /\ phase' \in {"reading", "starting", "running", "failed"}
      /\ todo' \subseteq Files /\ job' \in Files \cup {None}
  <2>1. ASSUME Change
        PROVE  disk' \in [Files -> Contents \cup {None}] /\ UNCHANGED <<phase, todo, job>>
    BY <2>1, ChangeCases DEF Changing, Changes, Renames, TypeInv
  <2>2. ASSUME StartUp
        PROVE  /\ phase' \in {"reading", "starting", "running", "failed"}
               /\ todo' \subseteq Files /\ UNCHANGED <<disk, job>>
    BY <2>2 DEF StartUp, StartRunners, StartMonitor, ReadFile, users, TypeInv
  <2>3. ASSUME Monitor
        PROVE  job' \in Files \cup {None} /\ UNCHANGED <<disk, phase, todo>>
    BY <2>3 DEF Monitor, NewFile, RemoveObject, AddAgain, NotRegistered, users, TypeInv
  <2> QED
    BY <2>1, <2>2, <2>3 DEF Next, vars, TypeInv
<1> QED
  BY <1>1, <1>2, <1>3 DEF TypeInv, ObjectTypes

LEMMA NextPhaseInv == TypeInv /\ PhaseInv /\ [Next]_vars => PhaseInv'
<1> SUFFICES ASSUME TypeInv, PhaseInv, [Next]_vars PROVE PhaseInv'
  OBVIOUS
<1> USE DEF PhaseInv
<1>1. ASSUME NEW f \in Files, ReadFile(f) PROVE PhaseInv'
  <2>1. \A g \in Files : g # f => registry'[g] = registry[g]
    BY <1>1 DEF ReadFile, AddConfiguration, AddObject, TypeInv
  <2> QED
    BY <1>1, <2>1 DEF ReadFile, TypeInv
<1>2. ASSUME NEW f \in Files, NewFile(f) PROVE PhaseInv'
  BY <1>2 DEF NewFile
<1>3. ASSUME NEW f \in Files, RemoveObject(f) PROVE PhaseInv'
  <2>1. registry' = [registry EXCEPT ![f] = None] /\ todo = {} /\ todo' = todo /\ phase' = phase
        /\ job' \in {f, None} /\ phase = "running"
    BY <1>3 DEF RemoveObject
  <2> QED
    BY <2>1 DEF TypeInv
<1>4. ASSUME NEW f \in Files, AddAgain(f) PROVE PhaseInv'
  <2>1. phase = "running"
    BY <1>4, RegistryAssumption DEF AddAgain
  <2> QED
    BY <1>4, <2>1 DEF AddAgain
<1>5. ASSUME Change PROVE PhaseInv'
  <2>1. UNCHANGED <<phase, todo, job, registry>>
    BY <1>5, ChangeIsChanging DEF Changing
  <2>2. events' # events => phase = "running"
    BY <1>5, ChangeCases DEF Changes, Renames
  <2> QED
    BY <2>1, <2>2
<1>6. ASSUME (\E f \in Files : NotRegistered(f)) \/ UNCHANGED vars PROVE PhaseInv'
  BY <1>6 DEF NotRegistered, vars
<1>7. CASE StartRunners \/ StartMonitor
  BY <1>7 DEF StartRunners, StartMonitor
<1> QED
  BY <1>1, <1>2, <1>3, <1>4, <1>5, <1>6, <1>7 DEF Next, StartUp, Monitor

----------------------------------------------------------------------------
(* The files and the registry *)

LEMMA TailOfEvents ==
  ASSUME TypeInv, events # <<>>, events' = Tail(events)
  PROVE  /\ Len(events) \in Nat \ {0} /\ Len(events') = Len(events) - 1
         /\ events[1] = Head(events) /\ Head(events) \in Events
         /\ \A i \in 1..Len(events') : i + 1 \in 1..Len(events) /\ events'[i] = events[i + 1]
         /\ \A i \in 1..Len(events) : i > 1 => i - 1 \in 1..Len(events') /\ events'[i - 1] = events[i]
<1>1. events \in Seq(Events) /\ Len(events) \in Nat \ {0}
  BY EmptySeq DEF TypeInv
<1>2. /\ Head(events) \in Events
      /\ events' \in Seq(Events) /\ Len(events') = Len(events) - 1
      /\ \A i \in 1..Len(events') : events'[i] = events[i + 1]
  BY <1>1, HeadTailProperties
<1>3. events[1] = Head(events)
  BY <1>1
<1>4. \A i \in 1..Len(events) : i > 1 => i - 1 \in 1..Len(events') /\ events'[i - 1] = events[i]
  <2>1. ASSUME NEW i \in 1..Len(events), i > 1
        PROVE  i - 1 \in 1..Len(events') /\ (i - 1) + 1 = i
    BY <1>1, <1>2, <2>1
  <2> QED
    BY <1>2, <2>1
<1> QED
  BY <1>1, <1>2, <1>3, <1>4

(* What a change of one file adds to the queue. *)
LEMMA AppendTells ==
  ASSUME NEW es \in Seq(Events), NEW d \in [Files -> Contents \cup {None}], NEW untold,
         Tell(es, d, untold), NEW f \in Files, NEW c \in Contents \cup {None},
         NEW e \in Events, e[2] = f, e[1] = "removed" <=> c = None
  PROVE  Tell(Append(es, e), [d EXCEPT ![f] = c], untold \ {f})
<1> DEFINE more == Append(es, e)
           new == [d EXCEPT ![f] = c]
<1>1. /\ Len(es) \in Nat /\ Len(more) = Len(es) + 1
      /\ more[Len(es) + 1] = e
      /\ \A i \in 1..Len(es) : more[i] = es[i]
  BY AppendProperties
<1>2. \A g \in Files : new[g] = IF g = f THEN c ELSE d[g]
  OBVIOUS
<1>3. \A i \in 1..Len(es) : es[i][2] \in Files
  BY DEF Events
<1> HIDE DEF more, new
<1> SUFFICES ASSUME NEW i \in 1..Len(more), LastIn(more, i), more[i][2] \notin untold \ {f}
             PROVE  more[i][1] = "removed" <=> new[more[i][2]] = None
  BY DEF Tell, more, new
<1>4. CASE i = Len(es) + 1
  BY <1>1, <1>2, <1>4
<1>5. CASE i \in 1..Len(es)
  <2>1. more[Len(es) + 1][2] # more[i][2]
    BY <1>1, <1>5 DEF LastIn
  <2>2. LastIn(es, i)
    BY <1>1, <1>5 DEF LastIn
  <2> QED
    BY <1>1, <1>2, <1>3, <1>5, <2>1, <2>2 DEF Tell
<1> QED
  BY <1>1, <1>4, <1>5

(* What a change does when the monitor is not told. *)
LEMMA UntoldTells ==
  ASSUME NEW es \in Seq(Events), NEW d \in [Files -> Contents \cup {None}], NEW untold,
         Tell(es, d, untold), NEW files,
         NEW new \in [Files -> Contents \cup {None}], \A g \in Files \ files : new[g] = d[g]
  PROVE  Tell(es, new, untold \cup files)
<1>1. \A i \in 1..Len(es) : es[i][2] \in Files
  BY DEF Events
<1> QED
  BY <1>1 DEF Tell

LEMMA NextEventInv == TypeInv /\ EventInv /\ [Next]_vars => EventInv'
<1> SUFFICES ASSUME TypeInv, EventInv, [Next]_vars PROVE EventInv'
  OBVIOUS
<1>1. /\ events \in Seq(Events) /\ disk \in [Files -> Contents \cup {None}]
      /\ Tell(events, disk, missed)
  BY DEF TypeInv, EventInv
<1>2. ASSUME NEW f \in Files, NEW c \in Contents \cup {None}, Changes(f, c) PROVE EventInv'
  <2>1. CASE events' = events
    <3>1. disk' = [disk EXCEPT ![f] = c] /\ missed' = missed \cup {f}
      BY <1>2, <2>1 DEF Changes
    <3>2. disk' \in [Files -> Contents \cup {None}] /\ \A g \in Files \ {f} : disk'[g] = disk[g]
      BY <1>1, <3>1
    <3>3. Tell(events, disk', missed \cup {f})
      BY <1>1, <3>2, UntoldTells
    <3> QED
      BY <2>1, <3>1, <3>3 DEF EventInv
  <2>2. CASE events' # events
    <3> DEFINE e == <<IF c = None THEN "removed" ELSE "written", f>>
    <3>1. e \in Events /\ e[2] = f /\ (e[1] = "removed" <=> c = None)
      BY DEF Events
    <3>2. disk' = [disk EXCEPT ![f] = c] /\ missed' = missed \ {f} /\ events' = Append(events, e)
      BY <1>2, <2>2 DEF Changes
    <3> HIDE DEF e
    <3>3. Tell(Append(events, e), [disk EXCEPT ![f] = c], missed \ {f})
      BY <1>1, <3>1, AppendTells
    <3> QED
      BY <3>2, <3>3 DEF EventInv
  <2> QED
    BY <2>1, <2>2
<1>3. ASSUME NEW f \in Files, NEW g \in Files, Renames(f, g) PROVE EventInv'
  <2> DEFINE gone == [disk EXCEPT ![f] = None]
  <2>1. gone \in [Files -> Contents \cup {None}] /\ disk[f] \in Contents \cup {None} /\ disk[f] # None
    BY <1>1, <1>3 DEF Renames
  <2>2. disk' = [gone EXCEPT ![g] = disk[f]]
    BY <1>3 DEF Renames
  <2>3. CASE events' = events
    <3>1. missed' = missed \cup {f, g}
      BY <1>3, <2>3 DEF Renames
    <3>2. disk' \in [Files -> Contents \cup {None}] /\ \A h \in Files \ {f, g} : disk'[h] = disk[h]
      BY <1>1, <2>1, <2>2
    <3>3. Tell(events, disk', missed \cup {f, g})
      BY <1>1, <3>2, UntoldTells
    <3> QED
      BY <2>3, <3>1, <3>3 DEF EventInv
  <2>4. CASE events' # events
    <3> DEFINE a == <<"removed", f>>
               b == <<"written", g>>
    <3>1. a \in Events /\ a[2] = f /\ a[1] = "removed" /\ b \in Events /\ b[2] = g /\ b[1] # "removed"
      BY DEF Events
    <3>2. missed' = (missed \ {f}) \ {g} /\ events' = Append(Append(events, a), b)
      BY <1>3, <2>4 DEF Renames
    <3> HIDE DEF a, b
    <3>3. Tell(Append(events, a), gone, missed \ {f})
      BY <1>1, <3>1, AppendTells
    <3>4. Append(events, a) \in Seq(Events)
      BY <1>1, <3>1, AppendProperties
    <3> HIDE DEF gone
    <3>5. Tell(Append(Append(events, a), b), [gone EXCEPT ![g] = disk[f]], (missed \ {f}) \ {g})
      BY <2>1, <3>1, <3>3, <3>4, AppendTells
    <3> QED
      BY <2>2, <3>2, <3>5 DEF EventInv
  <2> QED
    BY <2>3, <2>4
<1>4. ASSUME events # <<>>, events' = Tail(events), disk' = disk, missed' = missed PROVE EventInv'
  <2> SUFFICES ASSUME NEW i \in 1..Len(events'), LastIn(events', i), events'[i][2] \notin missed
               PROVE  events'[i][1] = "removed" <=> disk[events'[i][2]] = None
    BY <1>4 DEF EventInv, Tell
  <2>1. i + 1 \in 1..Len(events) /\ events'[i] = events[i + 1]
    BY <1>4, TailOfEvents
  <2>2. LastIn(events, i + 1)
    <3> SUFFICES ASSUME NEW j \in 1..Len(events), j > i + 1 PROVE events[j][2] # events[i + 1][2]
      BY DEF LastIn
    <3>1. j - 1 \in 1..Len(events') /\ events'[j - 1] = events[j] /\ j - 1 > i
      BY <1>4, TailOfEvents
    <3> QED
      BY <2>1, <3>1 DEF LastIn
  <2> QED
    BY <1>1, <2>1, <2>2 DEF Tell
<1>5. ASSUME UNCHANGED <<events, disk, missed>> PROVE EventInv'
  BY <1>5 DEF EventInv
<1> QED
  BY <1>2, <1>3, <1>4, <1>5, EventMoves, ChangeCases

(* When the event of f that is at the head is its last one and a removal,  *)
(* f is not there.                                                         *)
LEMMA LastRemoval ==
  ASSUME TypeInv, EventInv, NEW f \in Files, events # <<>>, events' = Tail(events),
         Head(events)[2] = f, Head(events)[1] = "removed",
         \A i \in 1..Len(events') : events'[i][2] # f, f \notin missed
  PROVE  disk[f] = None
<1>1. 1 \in 1..Len(events) /\ events[1] = Head(events)
  BY TailOfEvents
<1>2. LastIn(events, 1)
  <2> SUFFICES ASSUME NEW j \in 1..Len(events), j > 1 PROVE events[j][2] # f
    BY <1>1 DEF LastIn
  <2> QED
    BY ZenonT(40), TailOfEvents
<1> QED
  BY <1>1, <1>2 DEF EventInv, Tell

LEMMA SeenBefore ==
  ASSUME TypeInv, NEW f \in Files, NEW g \in Files \ {f}, Seen(g)',
         events' = events \/ (events # <<>> /\ events' = Tail(events) /\ Head(events)[2] = f),
         job \in {None, f, job'}, todo' \in {todo, todo \ {f}}
  PROVE  Seen(g)
<1>1. \A i \in 1..Len(events) : events[i][2] # g
  <2>1. CASE events' = events
    BY <2>1 DEF Seen
  <2>2. CASE events # <<>> /\ events' = Tail(events) /\ Head(events)[2] = f
    <3> SUFFICES ASSUME NEW i \in 1..Len(events) PROVE events[i][2] # g
      OBVIOUS
    <3>1. CASE i = 1
      BY <2>2, <3>1, TailOfEvents
    <3>2. CASE i > 1
      BY ZenonT(40), <2>2, <3>2, TailOfEvents DEF Seen
    <3> QED
      BY <3>1, <3>2
  <2> QED
    BY <2>1, <2>2
<1>2. job # g /\ g \notin todo
  BY RegistryAssumption DEF Seen
<1> QED
  BY <1>1, <1>2 DEF Seen

(* A file that nobody has to look at after an event was added to the queue *)
(* is another one, and nobody had to look at it before.                    *)
NotIn(es, g) == \A i \in 1..Len(es) : es[i][2] # g

LEMMA NotInAppend ==
  ASSUME NEW es \in Seq(Events), NEW e \in Events, NEW g, NotIn(Append(es, e), g)
  PROVE  e[2] # g /\ NotIn(es, g)
<1>1. /\ Len(es) \in Nat /\ Len(Append(es, e)) = Len(es) + 1
      /\ Append(es, e)[Len(es) + 1] = e
      /\ \A i \in 1..Len(es) : Append(es, e)[i] = es[i]
  BY AppendProperties
<1> QED
  BY <1>1 DEF NotIn

LEMMA UntouchedByChange ==
  ASSUME TypeInv, Change, NEW g \in Files, Seen(g)', g \notin missed'
  PROVE  /\ Seen(g) /\ g \notin missed /\ disk'[g] = disk[g]
         /\ phase # "failed" /\ aborted' = aborted /\ registry' = registry
<1>1. /\ phase # "failed" /\ aborted' = aborted /\ registry' = registry
      /\ job' = job /\ todo' = todo
  BY ChangeCases DEF Changing
<1>2. events \in Seq(Events) /\ NotIn(events', g)
  BY DEF TypeInv, Seen, NotIn
<1>3. NotIn(events, g) => Seen(g)
  BY <1>1 DEF Seen, NotIn
<1>4. ASSUME NEW f \in Files, NEW c, Changes(f, c)
      PROVE  NotIn(events, g) /\ g \notin missed /\ disk'[g] = disk[g]
  <2>1. NotIn(events, g) /\ g # f
    <3>1. CASE events' = events
      BY <1>2, <1>4, <3>1 DEF Changes
    <3>2. CASE events' # events
      <4> DEFINE e == <<IF c = None THEN "removed" ELSE "written", f>>
      <4>1. e \in Events /\ e[2] = f
        BY DEF Events
      <4>2. events' = Append(events, e)
        BY <1>4, <3>2 DEF Changes
      <4> HIDE DEF e
      <4> QED
        BY <1>2, <4>1, <4>2, NotInAppend
    <3> QED
      BY <3>1, <3>2
  <2> QED
    BY <1>4, <2>1 DEF Changes, TypeInv
<1>5. ASSUME NEW f \in Files, NEW h \in Files, Renames(f, h)
      PROVE  NotIn(events, g) /\ g \notin missed /\ disk'[g] = disk[g]
  <2>1. NotIn(events, g) /\ g # f /\ g # h
    <3>1. CASE events' = events
      BY <1>2, <1>5, <3>1 DEF Renames
    <3>2. CASE events' # events
      <4> DEFINE a == <<"removed", f>>
                 b == <<"written", h>>
      <4>1. a \in Events /\ a[2] = f /\ b \in Events /\ b[2] = h
        BY DEF Events
      <4>2. events' = Append(Append(events, a), b)
        BY <1>5, <3>2 DEF Renames
      <4> HIDE DEF a, b
      <4>3. Append(events, a) \in Seq(Events)
        BY <1>2, <4>1, AppendProperties
      <4>4. b[2] # g /\ NotIn(Append(events, a), g)
        BY <1>2, <4>1, <4>2, <4>3, NotInAppend
      <4> QED
        BY <1>2, <4>1, <4>4, NotInAppend
    <3> QED
      BY <3>1, <3>2
  <2> QED
    BY <1>5, <2>1 DEF Renames, TypeInv
<1> QED
  BY <1>1, <1>3, <1>4, <1>5, ChangeCases

LEMMA NextFollowInv ==
  TypeInv /\ PhaseInv /\ EventInv /\ FollowInv /\ [Next]_vars => FollowInv'
<1> SUFFICES ASSUME TypeInv, PhaseInv, EventInv, FollowInv, [Next]_vars, phase' # "failed",
                    NEW g \in Files, g \notin missed' \cup aborted', Seen(g)'
             PROVE  Follows(g)'
  BY DEF FollowInv
<1>1. ASSUME NEW f \in Files, g # f, Seen(g), phase # "failed", g \notin missed \cup aborted,
             disk'[g] = disk[g], registry'[g] = registry[g]
      PROVE  Follows(g)'
  BY <1>1 DEF FollowInv, Follows, Makes
<1>2. ASSUME NEW f \in Files, Adding(f) PROVE Follows(g)'
  <2>1. disk' = disk
    BY <1>2 DEF Adding, ReadFile, NewFile, AddAgain, users
  <2>2. Adds(f)
    BY <1>2, AddConfigurationAdds DEF Adding
  <2>3. CASE g = f
    <3>1. CASE Makes(f) /\ disk[f].active
      <4>1. registry'[f] = [content |-> disk[f], serial |-> made]
        BY <2>2, <3>1 DEF Adds, TypeInv
      <4>2. registry'[f] # None /\ registry'[f].content = disk[f]
        BY <3>1, <4>1, NewObject
      <4> QED
        BY <2>1, <2>3, <3>1, <4>2 DEF Follows, Makes
    <3>2. CASE ~(Makes(f) /\ disk[f].active)
      <4>1. registry'[f] = None
        BY <1>2, <2>2, <3>2 DEF Adds, Adding
      <4> QED
        BY <2>1, <2>3, <3>2, <4>1 DEF Follows, Makes
    <3> QED
      BY <3>1, <3>2
  <2>4. CASE g # f
    <3>1. registry'[g] = registry[g]
      BY <2>2, <2>4 DEF Adds, TypeInv
    <3>2. /\ phase # "failed" /\ g \notin missed \cup aborted
          /\ job \in {None, f, job'} /\ todo' \in {todo, todo \ {f}}
          /\ events' = events \/ NewFile(f)
      BY <1>2, <2>4 DEF Adding, ReadFile, NewFile, AddAgain
    <3>3. NewFile(f) => events # <<>> /\ events' = Tail(events) /\ Head(events)[2] = f
      <4>1. Head(events) = <<"written", f>> => Head(events)[2] = f
        OBVIOUS
      <4> QED
        BY <4>1 DEF NewFile
    <3>4. Seen(g)
      BY <2>4, <3>2, <3>3, SeenBefore
    <3> QED
      BY <1>1, <2>1, <2>4, <3>1, <3>2, <3>4
  <2> QED
    BY <2>3, <2>4
<1>3. ASSUME NEW f \in Files, RemoveObject(f) \/ NotRegistered(f) PROVE Follows(g)'
  <2>1. /\ events # <<>> /\ events' = Tail(events) /\ Head(events)[2] = f
        /\ disk' = disk /\ todo' = todo /\ phase' = phase /\ job = None
    <3>1. Head(events) = <<"removed", f>> => Head(events)[2] = f
      OBVIOUS
    <3> QED
      BY <1>3, <3>1 DEF RemoveObject, NotRegistered, users
  <2>2. CASE g # f
    <3>1. registry'[g] = registry[g] /\ g \notin missed \cup aborted
      <4>1. RemoveObject(f) =>
              /\ registry' = [registry EXCEPT ![f] = None]
              /\ missed' = missed /\ aborted' \in {aborted, aborted \cup {f}}
        BY DEF RemoveObject
      <4>2. NotRegistered(f) =>
              registry' = registry /\ missed' = missed /\ aborted' = aborted \ {f}
        BY DEF NotRegistered
      <4> QED
        BY <1>3, <2>2, <4>1, <4>2 DEF TypeInv
    <3>2. Seen(g)
      BY <2>1, <2>2, SeenBefore
    <3> QED
      BY <1>1, <2>1, <2>2, <3>1, <3>2
  <2>3. CASE g = f
    <3>1. Head(events)[1] = "removed" /\ registry'[f] = None
      <4>1. CASE NotRegistered(f)
        <5>1. Head(events) = <<"removed", f>> /\ registry'[f] = None
          BY <4>1 DEF NotRegistered
        <5> QED
          BY <5>1
      <4>2. CASE RemoveObject(f)
        <5>1. job' # f
          BY <2>3 DEF Seen
        <5>2. Head(events)[1] # "written"
          BY <2>3, <4>2, <5>1 DEF RemoveObject
        <5>3. Head(events)[1] \in {"written", "removed"}
          BY <2>1, TailOfEvents DEF Events
        <5>4. registry'[f] = None
          BY <4>2 DEF RemoveObject, TypeInv
        <5> QED
          BY <5>2, <5>3, <5>4
      <4> QED
        BY <1>3, <4>1, <4>2
    <3>2. disk[f] = None
      <4>1. missed' = missed
        BY <1>3 DEF RemoveObject, NotRegistered
      <4> QED
        BY <2>1, <2>3, <3>1, <4>1, LastRemoval DEF Seen
    <3> QED
      BY <2>1, <2>3, <3>1, <3>2 DEF Follows, Makes
  <2> QED
    BY <2>2, <2>3
<1>4. ASSUME Change PROVE Follows(g)'
  <2>1. /\ Seen(g) /\ g \notin missed /\ disk'[g] = disk[g]
        /\ phase # "failed" /\ aborted' = aborted /\ registry' = registry
    BY <1>4, UntouchedByChange
  <2> QED
    BY <2>1 DEF FollowInv, Follows, Makes
<1>5. ASSUME StartRunners \/ StartMonitor \/ UNCHANGED vars PROVE Follows(g)'
  <2>1. /\ UNCHANGED <<disk, todo, events, job, registry, missed, aborted>> /\ phase # "failed"
    BY <1>5 DEF StartRunners, StartMonitor, vars, users, history
  <2> QED
    BY <2>1 DEF FollowInv, Follows, Makes, Seen
<1> QED
  BY <1>2, <1>3, <1>4, <1>5, NextCases

----------------------------------------------------------------------------
IInv == TypeInv /\ PhaseInv /\ ObjectInv /\ EventInv /\ FollowInv

LEMMA InitIInv == Init => IInv
<1> SUFFICES ASSUME Init PROVE IInv
  OBVIOUS
<1>1. TypeInv
  BY EmptySeq DEF Init, TypeInv
<1>2. PhaseInv /\ SerialInv /\ NameInv
  BY DEF Init, PhaseInv, SerialInv, NameInv
<1>3. ManagersMatchRegistry
  <2>1. \A kind : Registered(kind) = {}
    BY RegisteredMembers DEF Init
  <2> QED
    BY <2>1 DEF Init, ManagersMatchRegistry
<1>4. EventInv
  BY DEF Init, EventInv, Tell
<1>5. FollowInv
  BY DEF Init, FollowInv, Seen, Follows, Makes
<1> QED
  BY <1>1, <1>2, <1>3, <1>4, <1>5 DEF IInv, ObjectInv

LEMMA NextIInv == IInv /\ [Next]_vars => IInv'
BY NextTypeInv, NextPhaseInv, NextObjects, NextEventInv, NextFollowInv DEF IInv

(* The lists and managers hold exactly the objects of the registered files *)
(* as long as no two files gave the same name, whatever fails to be made,  *)
(* to start or to stop.                                                    *)
THEOREM ManagersAreTrue == Spec => []ManagersMatchRegistry
<1>1. IInv => ManagersMatchRegistry
  BY DEF IInv, ObjectInv
<1> QED
  BY InitIInv, NextIInv, <1>1, PTL DEF Spec

(* When the monitor has caught up the registry is what the files ask for.  *)
THEOREM FilesAreFollowed == Spec => []RegistryFollowsFiles
<1>1. IInv => RegistryFollowsFiles
  <2> SUFFICES ASSUME IInv, Settled, NEW f \in Files, f \notin missed \cup aborted
               PROVE  Follows(f)
    BY DEF RegistryFollowsFiles, Follows
  <2>1. Seen(f)
    BY RegistryAssumption DEF Settled, Seen, IInv, PhaseInv
  <2> QED
    BY <2>1 DEF IInv, FollowInv, Settled
<1> QED
  BY InitIInv, NextIInv, <1>1, PTL DEF Spec
=============================================================================
