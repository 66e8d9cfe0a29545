------------------------------ MODULE Reception ------------------------------
(***************************************************************************)
(* The way of a file from another node, or from a fetch that another node  *)
(* triggered, into the server: the client (client/rest.py, client/cmd.py), *)
(* the web layer (web), authentication (auth), the source lookup, the      *)
(* filters, storing under a name, publishing, and the answer.              *)
(*                                                                         *)
(* A scenario says how both sides are configured; it is chosen at the      *)
(* start.  Every client runs one command; every request is served by a     *)
(* thread of the web server, so that a client and the thread that serves   *)
(* it share one record in calls.  The lists of subscriptions and           *)
(* publications stay as they are: Backend has what happens when they       *)
(* change.  One configuration change is here, a new key of a node.         *)
(***************************************************************************)
EXTENDS Naturals, Sequences, Sources, Filters, Naming, Authentication, Fetchers, Decorators
LOCAL INSTANCE SequencesExt

CONSTANTS Clients,    \* the names of the nodes that send
          Limit,      \* how many hashes the server remembers
          Scenarios   \* the configurations

VARIABLES sc,         \* the scenario
          keys,       \* the keys the server knows, per provider and node
          signing,    \* the key each node signs with
          handled,    \* HandledFiles: the hashes, newest first
          calls,      \* the command of each client and the thread that serves it
          stored,     \* [name, file] of the files in the storages
          published,  \* <<publication, file>> of what was handed to publications
          accepted    \* <<client, number, file>>: the calls that found a new hash

vars == <<sc, keys, signing, handled, calls, stored, published, accepted>>

Files == DOMAIN sc.files

ReceptionAssumption == Limit \in Nat \ {0} /\ Scenarios # {}
ASSUME ReceptionAssumption

NobodysCall ==
  [pc |-> "idle", left |-> <<>>, number |-> 0, req |-> RestRequest("GET", "", "", <<>>),
   held |-> NoKey, todo |-> <<>>, sub |-> 0, dup |-> FALSE, given |-> {}, taken |-> {}, status |-> 0]

Init ==
  /\ sc \in Scenarios
  /\ signing = [c \in Clients |-> 1]
  /\ keys = [p \in Providers |-> [c \in Clients |-> IF p = sc.auth /\ c \in sc.known THEN 1 ELSE NoKey]]
  /\ handled = <<>>
  /\ calls = [c \in Clients |-> [NobodysCall EXCEPT !.left = sc.jobs[c].files]]
  /\ stored = {} /\ published = {} /\ accepted = {}

----------------------------------------------------------------------------
(* The client.                                                             *)

(* The request for one of the files, messages or questions of a job.       *)
Request(c, job, id) ==
  LET rest(path) ==
        CASE job.signs = "crypto" -> Signed(RestRequest("POST", path, "hdf5", id), "exchange-crypto", c, signing[c])
          [] job.signs = "tink" -> Signed(RestRequest("POST", path, "hdf5", id), "exchange-tink", c, signing[c])
          [] OTHER -> RestRequest("POST", path, "hdf5", id)
  IN CASE job.command = "dex" -> DexRequest(job.address, sc.address, c, signing[c], id)
       [] job.command = "trigger" -> rest("/json_message/")
       [] job.command = "ask" -> rest("/serverinfo/")
       [] OTHER -> rest("/file/")

SendNext(c) ==
  /\ calls[c].pc = "idle" /\ calls[c].left # <<>>
  /\ calls' = [calls EXCEPT ![c] =
       [NobodysCall EXCEPT !.pc = "sent", !.left = calls[c].left, !.number = calls[c].number + 1,
                           !.req = Request(c, sc.jobs[c], <<c, calls[c].number + 1>>)]]
  /\ UNCHANGED <<sc, keys, signing, handled, stored, published, accepted>>

(* The commands: store goes on after an exception, the others end.  Only   *)
(* an answer 200 is none.                                                  *)
Continues(c, returned) == returned \/ sc.jobs[c].command = "store"

Concluded(c, returned) ==
  [calls EXCEPT ![c].pc = "idle",
                ![c].left = IF Continues(c, returned) THEN Tail(@) ELSE <<>>]

(* The request does not arrive. *)
LoseRequest(c) ==
  /\ calls[c].pc = "sent" /\ sc.lossy
  /\ calls' = Concluded(c, FALSE)
  /\ UNCHANGED <<sc, keys, signing, handled, stored, published, accepted>>

GetAnswer(c) ==
  /\ calls[c].pc = "answering"
  /\ calls' = Concluded(c, calls[c].status = 200)
  /\ UNCHANGED <<sc, keys, signing, handled, stored, published, accepted>>

(* The answer does not arrive. *)
LoseAnswer(c) ==
  /\ calls[c].pc = "answering" /\ sc.lossy
  /\ calls' = Concluded(c, FALSE)
  /\ UNCHANGED <<sc, keys, signing, handled, stored, published, accepted>>

----------------------------------------------------------------------------
(* The web layer.                                                          *)

Answered(c, status) == [calls EXCEPT ![c].pc = "answering", ![c].status = status]

(* triggered_fetch_runner.handle_message of every runner that listens to   *)
(* this node and this trigger, one after the other.                        *)
Listens(runner, c, trigger) ==
  c \in runner.invokers /\ (runner.triggers = {} \/ trigger \in runner.triggers)

FetchesOf(c, trigger) ==
  LET runners == SelectSeq(sc.runners, LAMBDA r : Listens(r, c, trigger))
  IN FlattenSeq([n \in DOMAIN runners |-> Fetched(FetcherFromConf(runners[n].fetcher), runners[n].listing)])

(* The questions of the web layer that need nothing but the backend: the   *)
(* public key is that of the crypto provider.                              *)
AnswerTo(question) ==
  IF question = "publickey" /\ ~("crypto" \in sc.configured /\ sc.ownKey) THEN 500 ELSE 200

(* AuthMiddleware, Application and the beginning of the handlers.          *)
Receive(c) ==
  /\ calls[c].pc = "sent"
  /\ LET req == calls[c].req
         provider == Authenticated(sc.configured, keys, req)
         asked == Credentials(req)
         subject == Head(calls[c].left)
         begun == [calls EXCEPT ![c].held = IF asked \in Providers THEN keys[asked][c] ELSE NoKey]
         storing(todo) == [begun EXCEPT ![c].pc = "storing", ![c].todo = todo]
         answering(status) == [begun EXCEPT ![c].pc = "answering", ![c].status = status]
     IN calls' = CASE IsAnonymous(provider) -> answering(401)
                   [] req.path = "/json_message/" -> storing(FetchesOf(c, subject))
                   [] req.path = "/serverinfo/" -> answering(AnswerTo(subject))
                   [] OTHER -> storing(<<[nid |-> c, file |-> subject, given |-> "file"]>>)
  /\ UNCHANGED <<sc, keys, signing, handled, stored, published, accepted>>

(* Mutant: every exception counts as something unknown in the file. *)
StatusOfAny(c, exception) ==
  IF calls[c].req.path = "/json_message/" THEN 500
  ELSE IF exception = "DuplicateException" THEN 409 ELSE 406

(* What an exception of store_file becomes: the handlers of files know     *)
(* two of them, that of messages none.                                     *)
StatusOf(c, exception) ==
  IF calls[c].req.path = "/json_message/" THEN 500
  ELSE CASE exception = "LookupError" -> 406
         [] exception = "DuplicateException" -> 409
         [] OTHER -> 500

----------------------------------------------------------------------------
(* The backend: store_file for the files to do, one after the other.       *)

File(c) == sc.files[Head(calls[c].todo).file]
Tolerated == \E s \in DOMAIN sc.subs : sc.subs[s].tolerant
Added(h) == SubSeq(<<h>> \o handled, 1, IF Len(handled) < Limit THEN Len(handled) + 1 ELSE Limit)

(* Mutant: fetch goes on with the next file. *)
Swallowed(c, exception) ==
  IF calls[c].req.path = "/json_message/"
  THEN [calls EXCEPT ![c].todo = Tail(@), ![c].sub = 0]
  ELSE Answered(c, StatusOf(c, exception))

(* An exception leaves store_file, fetch and the handler.                  *)
Raised(c, exception) == Answered(c, StatusOf(c, exception))

(* The metadata, the size and the duplicate check.                         *)
StoreNext(c) ==
  /\ calls[c].pc = "storing" /\ calls[c].sub = 0 /\ calls[c].todo # <<>>
  /\ LET item == Head(calls[c].todo)
         file == File(c)
         passed == [calls EXCEPT ![c].todo = Tail(@), ![c].taken = @ \cup {item.file}]
         looping(dup) == [calls EXCEPT ![c].sub = 1, ![c].dup = dup, ![c].given = {}]
     IN \E id \in SourceIds(sc.db, file.source) :
          \/ /\ item.given # "file"
             /\ calls' = Raised(c, "IOError")
             /\ UNCHANGED <<handled, accepted>>
          \/ /\ item.given = "file" /\ MetadataOf(file, id) # "metadata"
             /\ calls' = Raised(c, MetadataOf(file, id))
             /\ UNCHANGED <<handled, accepted>>
          \/ /\ item.given = "file" /\ MetadataOf(file, id) = "metadata" /\ file.large
             /\ calls' = passed
             /\ UNCHANGED <<handled, accepted>>
          \/ /\ item.given = "file" /\ MetadataOf(file, id) = "metadata" /\ ~file.large
             /\ IF \E n \in DOMAIN handled : handled[n] = item.file
                THEN /\ calls' = IF Tolerated THEN looping(TRUE) ELSE Raised(c, "DuplicateException")
                     /\ UNCHANGED <<handled, accepted>>
                ELSE /\ handled' = Added(item.file)
                     /\ accepted' = accepted \cup {<<c, calls[c].number, item.file>>}
                     /\ calls' = looping(FALSE)
  /\ UNCHANGED <<sc, keys, signing, stored, published>>

Eligible(c, s) ==
  /\ calls[c].dup => sc.subs[s].tolerant
  /\ sc.subs[s].allowed = {} \/ Head(calls[c].todo).nid \in sc.subs[s].allowed

(* What the name is made of: the source is completed from the database.    *)
NameMeta(file) ==
  LET source == Completed(sc.db, CHOOSE id \in SourceIds(sc.db, file.source) : TRUE, file.source)
      parent == ParentSource(sc.db, source.parent)
  IN [time |-> file.time, object |-> file.object, texts |-> file.texts, datasets |-> file.datasets,
      properties |-> sc.properties, source |-> file.source, bdb_source |-> source.kvs,
      bdb_source_name |-> source.name,
      parent |-> IF "CCCC" \in DOMAIN parent.kvs THEN parent.kvs["CCCC"] ELSE Undefined]

(* file_storage.store: the structure of the object, or the default one; a  *)
(* name that cannot be made raises, which store_file catches.              *)
Stores(s, file, f) ==
  LET kinds == DOMAIN sc.subs[s].structures
      kind == IF file.object \in kinds THEN file.object ELSE "default"
      name == Name(sc.subs[s].structures[kind], NameMeta(file), sc.now, sc.angles, TRUE, FALSE, FALSE)
  IN IF kind \notin kinds \/ name = Bad THEN {} ELSE {[name |-> name, file |-> f]}

(* publish: a filter that raises ends the loop, and is caught.  What a     *)
(* decorator raises is caught for each publication.                        *)
PublicationsOf(s) ==
  {p \in DOMAIN sc.pubs : sc.pubs[p].origin = {} \/ s \in sc.pubs[p].origin}

Reached(s, file) ==
  {p \in PublicationsOf(s) :
     /\ PublicationMatches(file.attrs, sc.pubs[p].filter) = "match"
     /\ \A o \in PublicationsOf(s) :
          o < p => PublicationMatches(file.attrs, sc.pubs[o].filter) # "raises"}

Delay(file) == sc.now - file.time
Publishes(s, file) ==
  {p \in Reached(s, file) :
     Decorated(sc.pubs[p].decorators, file.object, file.datasets # <<>>, Delay(file)) = "kept"}

(* One turn of the loop over the subscriptions.                            *)
NextSubscription(c) ==
  LET s == calls[c].sub
      item == Head(calls[c].todo)
      on == [calls EXCEPT ![c].sub = s + 1]
      matches == SubscriptionMatches(File(c).attrs, sc.subs[s].filter)
  IN /\ calls[c].pc = "storing" /\ s \in DOMAIN sc.subs
     /\ \/ /\ ~Eligible(c, s) \/ matches = "no match"
           /\ calls' = on
           /\ UNCHANGED <<stored, published>>
        \/ /\ Eligible(c, s) /\ matches = "raises"
           /\ calls' = Raised(c, "TypeError")
           /\ UNCHANGED <<stored, published>>
        \/ /\ Eligible(c, s) /\ matches = "match"
           /\ calls' = [on EXCEPT ![c].given = @ \cup {s}]
           /\ stored' = stored \cup Stores(s, File(c), item.file)
           /\ published' = published \cup {<<p, item.file>> : p \in Publishes(s, File(c))}
     /\ UNCHANGED <<sc, keys, signing, handled, accepted>>

EndStore(c) ==
  /\ calls[c].pc = "storing" /\ calls[c].sub = Len(sc.subs) + 1
  /\ calls' = [calls EXCEPT ![c].todo = Tail(@), ![c].sub = 0,
                            ![c].taken = @ \cup {Head(calls[c].todo).file}]
  /\ UNCHANGED <<sc, keys, signing, handled, stored, published, accepted>>

Answer(c) ==
  /\ calls[c].pc = "storing" /\ calls[c].sub = 0 /\ calls[c].todo = <<>>
  /\ calls' = Answered(c, 200)
  /\ UNCHANGED <<sc, keys, signing, handled, stored, published, accepted>>

(* The node gets a new key, and the file that told the server of the old   *)
(* one is rewritten.                                                       *)
Rekey(c) ==
  /\ sc.rekeys /\ signing[c] = 1
  /\ signing' = [signing EXCEPT ![c] = 2]
  /\ keys' = WithKey(sc.configured, keys, sc.auth, c, 2)
  /\ UNCHANGED <<sc, handled, calls, stored, published, accepted>>

Client(c) == SendNext(c) \/ LoseRequest(c) \/ GetAnswer(c) \/ LoseAnswer(c)
Server(c) == Receive(c) \/ StoreNext(c) \/ NextSubscription(c) \/ EndStore(c) \/ Answer(c)
Next == \E c \in Clients : Client(c) \/ Server(c) \/ Rekey(c)
Spec == Init /\ [][Next]_vars

----------------------------------------------------------------------------
Posts == {"/file/", "/BaltradDex/post_file.htm"}
Posted(c) == Head(calls[c].left)
Answering(c, statuses) ==
  calls[c].pc = "answering" /\ calls[c].req.path \in Posts /\ calls[c].status \in statuses

Wanted(c, s, f) ==
  /\ sc.subs[s].allowed = {} \/ c \in sc.subs[s].allowed
  /\ SubscriptionMatches(sc.files[f].attrs, sc.subs[s].filter) = "match"

(* A trigger that is answered 200 has fetched everything: each file that   *)
(* the patterns of a fetcher let through has been taken by store_file.     *)
FetchedMeansTaken(c) ==
  calls[c].pc = "answering" /\ calls[c].status = 200 /\ calls[c].req.path = "/json_message/" =>
    \A r \in DOMAIN sc.runners :
      Listens(sc.runners[r], c, Posted(c)) =>
        \A n \in DOMAIN sc.runners[r].listing :
          LET entry == sc.runners[r].listing[n]
          IN ~entry.folder /\ Passes(sc.runners[r].fetcher, entry) => entry.file \in calls[c].taken

(* By the limits of the max_age_filter of a publication, and no decorator  *)
(* but those.                                                              *)
Limited(p) ==
  {d \in ToSet(sc.pubs[p].decorators) : d.kind = "max_age" /\ d.warn > 0 /\ d.block > 0}
HoldsBack(p, file) == \E d \in Limited(p) : Delay(file) >= d.warn /\ Delay(file) > d.block
InTime(p, file) ==
  /\ \A d \in ToSet(sc.pubs[p].decorators) : d.kind \in {"max_age", "same"}
  /\ \A d \in Limited(p) : Delay(file) < d.warn

(* The answer to a posted file (handler.post_file and post_dex_file) tells *)
(* the sender the truth.  200: it was too large, or every subscription     *)
(* that wants it has been given it, and the publications have it unless    *)
(* one before them has no usable filter; a repeated file goes to those     *)
(* that take duplicates.  409: another call was answered for the same hash *)
(* before, and nothing was done now.  406: no source could be told.        *)
(* The answer 200 to a trigger tells that everything has been fetched.     *)
(* And no publication has a file that its max_age_filter holds back, or    *)
(* lacks one for being late that is not.                                   *)
AnswersTellTruth ==
  /\ \A x \in published : ~HoldsBack(x[1], sc.files[x[2]])
  /\ \A c \in Clients :
       /\ Answering(c, {200}) =>
            \/ sc.files[Posted(c)].large
            \/ \A s \in DOMAIN sc.subs :
                 Wanted(c, s, Posted(c)) /\ (calls[c].dup => sc.subs[s].tolerant) =>
                   /\ s \in calls[c].given
                   /\ \A p \in Reached(s, sc.files[Posted(c)]) :
                        InTime(p, sc.files[Posted(c)]) => <<p, Posted(c)>> \in published
       /\ Answering(c, {409}) =>
            /\ \E a \in accepted : a[3] = Posted(c) /\ <<a[1], a[2]>> # <<c, calls[c].number>>
            /\ calls[c].given = {}
       /\ Answering(c, {406}) =>
            BestMatch(sc.db, sc.files[Posted(c)].source) = NoSource
       /\ FetchedMeansTaken(c)

(* Whoever signs with the key the server holds for it is heard: 401 goes   *)
(* only to requests without a provider that is configured, without a key   *)
(* the server holds, through an address the server does not know as its    *)
(* own, or signed by tink, whose two sides sign different texts.           *)
SignedIsHeard ==
  \A c \in Clients :
    calls[c].pc = "answering" /\ calls[c].status = 401 =>
      LET a == calls[c].req.authorization
      IN \/ a.scheme = "none"
         \/ Credentials(calls[c].req) \notin sc.configured
         \/ calls[c].held \in {NoKey} \cup ({1, 2} \ {a.sig.key})
         \/ a.scheme = "exchange-tink"
         \/ a.scheme = "" /\ sc.jobs[c].address # sc.address

(* get_source_id finds the one source that has most of the keys of the     *)
(* file, in whatever order the database returns its rows.                  *)
SourceIsBestMatch ==
  \A f \in Files :
    SourceIds(sc.db, sc.files[f].source) = {BestMatch(sc.db, sc.files[f].source)}

(* The filter f demands something of the attribute of that name. *)
RECURSIVE Demands(_, _)
Demands(f, name) ==
  CASE f.type = "attribute_filter" ->
         /\ f.name = name /\ f.value.list # <<>>
         /\ f.op \in {"in", "=", ">", ">=", "like"}
    [] f.type = "and_filter" -> \E n \in DOMAIN f.childs : Demands(f.childs[n], name)
    [] f.type = "or_filter" -> \A n \in DOMAIN f.childs : Demands(f.childs[n], name)
    [] OTHER -> FALSE

(* An attribute that a file lacks is an empty list of values to a filter,  *)
(* which satisfies "not_in", "!=", "<" and "<=": a filter with these takes *)
(* what it says nothing about.  With the others nothing gets by: a file is *)
(* neither stored by a subscription nor handed to a publication that       *)
(* demands something of an attribute that it lacks.                        *)
Lacks(file, f) == \E name \in DOMAIN file.attrs : Demands(f, name) /\ file.attrs[name] = <<>>
NothingDemandedIsMissing ==
  /\ \A c \in Clients :
       calls[c].pc = "storing" /\ calls[c].sub > 0 =>
         \A s \in calls[c].given : ~Lacks(File(c), sc.subs[s].filter)
  /\ \A x \in published : ~Lacks(sc.files[x[2]], sc.pubs[x[1]].filter)

(* doc/userguide.rst:560, of publications: "the filters are working in the *)
(* same way as they are for subscriptions".  A file that was answered 200  *)
(* is then with every publication whose filter would take it in a          *)
(* subscription.  In the code a filter that was not made, or raises, ends  *)
(* publish for its publication and all after it.                           *)
FiltersWorkAlike ==
  \A c \in Clients :
    Answering(c, {200}) /\ ~sc.files[Posted(c)].large =>
      \A s \in calls[c].given : \A p \in PublicationsOf(s) :
        SubscriptionMatches(sc.files[Posted(c)].attrs, sc.pubs[p].filter) = "match"
          /\ InTime(p, sc.files[Posted(c)])
        => <<p, Posted(c)>> \in published

(* Files that are stored under one name, where the later replaces the      *)
(* earlier, are of one source and of one interval of the template.         *)
OneNameOneInterval ==
  \A a, b \in stored :
    a.name = b.name =>
      LET x == sc.files[a.file]
          y == sc.files[b.file]
      IN /\ NameMeta(x).bdb_source_name = NameMeta(y).bdb_source_name
         /\ IntervalStart(x.time, sc.interval) = IntervalStart(y.time, sc.interval)
=============================================================================
