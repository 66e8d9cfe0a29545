------------------------------- MODULE Sources -------------------------------
(***************************************************************************)
(* The source of a file: the database of sources of server/sqlbackend.py   *)
(* and what metadata_from_file of odimutil.py makes of a file.             *)
(*                                                                         *)
(* A source identifier, what/source of a file or the key values of a row   *)
(* of the database, is a function from its keys (NOD, WMO, ORG, ...) to    *)
(* values.  The database is a sequence of sources [name, parent, kvs];     *)
(* their ids are their positions.  The parent is the name of a source      *)
(* without parent, or NoName.                                              *)
(***************************************************************************)
LOCAL INSTANCE Naturals
LOCAL INSTANCE FiniteSets

NoName == <<>>
NoSource == 0

(* add_sources: a database that has sources keeps them, whatever the list; *)
(* a name that is in the list twice raises, and nothing is committed.      *)
AddSources(db, list) ==
  IF db # <<>> \/ \E a, b \in DOMAIN list : a # b /\ list[a].name = list[b].name
    THEN db ELSE list

(* The key values that are looked up: ORG only when nothing tells more.    *)
Searched(source) ==
  LET Better == {"WMO", "NOD", "RAD", "PLC", "WIGOS"}
      keys == IF DOMAIN source \cap Better # {} THEN DOMAIN source \ {"ORG"}
              ELSE DOMAIN source
  IN [k \in keys |-> source[k]]

(* The <<id, key>> of the rows that the query finds. *)
Rows(db, source) ==
  {<<id, k>> \in (DOMAIN db) \X (DOMAIN Searched(source)) :
     k \in DOMAIN db[id].kvs /\ db[id].kvs[k] = source[k]}

NoMatches(db) ==
  [matches |-> [id \in DOMAIN db |-> 0], max |-> 0, best |-> NoSource, multiple |-> FALSE]

(* Mutant: multiple_matches is not set back by a better match. *)
CountedForGood(found, row) ==
  LET id == row[1]
      n == found.matches[id] + 1
  IN [matches |-> [found.matches EXCEPT ![id] = n],
      max |-> IF n > found.max THEN n ELSE found.max,
      best |-> IF n > found.max THEN id ELSE found.best,
      multiple |-> found.multiple \/ n = found.max]

(* One turn of the loop over the rows. *)
Counted(found, row) ==
  LET id == row[1]
      n == found.matches[id] + 1
  IN [matches |-> [found.matches EXCEPT ![id] = n],
      max |-> IF n > found.max THEN n ELSE found.max,
      best |-> IF n > found.max THEN id ELSE found.best,
      multiple |-> IF n > found.max THEN FALSE ELSE found.multiple \/ n = found.max]

(* What get_source_id makes of what it has found. *)
SourceId(found) == IF found.multiple THEN NoSource ELSE found.best

(* What get_source_id may return: SQL promises no order of the rows. *)
SourceIds(db, source) ==
  LET After[rows \in SUBSET Rows(db, source)] ==
        IF rows = {} THEN {NoMatches(db)}
        ELSE UNION {{Counted(found, last) : found \in After[rows \ {last}]} : last \in rows}
  IN {SourceId(found) : found \in After[Rows(db, source)]}

(* get_parent_source_id: a parent has no parent itself. *)
ParentId(db, name) ==
  LET ids == {id \in DOMAIN db : db[id].parent = NoName /\ db[id].name = name}
  IN IF ids = {} THEN NoSource ELSE CHOOSE id \in ids : TRUE

(* get_source_by_id, and get_parent_source, with NoRow where they raise.   *)
NoRow == [name |-> NoName, parent |-> NoName, kvs |-> <<>>]
SourceById(db, id) == IF id \in DOMAIN db THEN db[id] ELSE NoRow
ParentSource(db, name) == SourceById(db, ParentId(db, name))

(* get_source: the source found, completed with the keys only the file has. *)
Completed(db, id, source) ==
  LET kvs == SourceById(db, id).kvs
  IN [name |-> SourceById(db, id).name,
      kvs |-> [k \in DOMAIN kvs \cup DOMAIN source |->
                 IF k \in DOMAIN kvs THEN kvs[k] ELSE source[k]],
      parent |-> ParentSource(db, SourceById(db, id).parent).name]

(* metadata_from_file ends in "IOError" or "LookupError", or goes on.      *)
MetadataOf(file, id) ==
  IF ~file.hdf5 THEN "IOError"
  ELSE IF DOMAIN file.source = {} \/ id = NoSource THEN "LookupError"
  ELSE "metadata"

(* The one source that shares most of the keys looked up, if there is one. *)
BestMatch(db, source) ==
  LET shared(id) == Cardinality({k \in DOMAIN Searched(source) :
                                   <<id, k>> \in Rows(db, source)})
      best == {id \in DOMAIN db : shared(id) > 0 /\ \A o \in DOMAIN db \ {id} :
                                                      shared(o) < shared(id)}
  IN IF best = {} THEN NoSource ELSE CHOOSE id \in best : TRUE
=============================================================================
