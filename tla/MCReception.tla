----------------------------- MODULE MCReception -----------------------------
(* Reception over configurations that differ in one respect at a time.     *)
EXTENDS Reception
LOCAL INSTANCE Integers
LOCAL INSTANCE FiniteSets

A == <<Letter(0)>>
B == <<Letter(1)>>
AB == A \o B
Sea == <<Letter(18), Letter(4), Letter(0)>>
Parent == <<Letter(18), Letter(4)>>

(* Sources: two radars of a country, and databases that confuse them.      *)
Row(name, parent, kvs) == [name |-> name, parent |-> parent, kvs |-> kvs]
Country == Row(Parent, NoName, [k \in {"ORG", "CCCC"} |-> IF k = "ORG" THEN A ELSE AB])
Radar(name, wmo) ==
  Row(name, Parent, [k \in {"NOD", "WMO", "RAD"} |->
    CASE k = "NOD" -> name [] k = "WMO" -> wmo [] k = "RAD" -> <<-28, -14>> \o wmo])
Plain == <<Country, Radar(Sea, A), Radar(AB, B)>>
Databases ==
  {Plain, <<Country>>,
   <<Country, Radar(Sea, A), Radar(AB, A), Radar(B, A)>>,
   AddSources(<<>>, <<Radar(Sea, A), Radar(Sea, B)>>),
   AddSources(<<Country>>, Plain)}
SourcesOf ==
  LET value == [k \in {"NOD", "WMO", "RAD", "ORG"} |->
                  CASE k = "NOD" -> {Sea, B} [] k = "WMO" -> {A, B}
                    [] k = "RAD" -> {<<-28, -14>> \o A, B} [] k = "ORG" -> {A}]
  IN UNION {{s \in [K -> UNION {value[k] : k \in K}] : \A k \in K : s[k] \in value[k]} :
              K \in SUBSET DOMAIN value}
InSea == [k \in {"NOD"} |-> Sea]
InAB == [k \in {"NOD", "WMO"} |-> IF k = "NOD" THEN AB ELSE B]

(* Files. *)
Minutes(h, m) == 60 * h + m
Attrs(quantity, age) ==
  [n \in {"what/quantity", "where/elangle", "where/height", Age} |->
     CASE n = "what/quantity" -> quantity [] n = "where/elangle" -> <<1, 2>>
       [] n = "where/height" -> <<>> [] n = Age -> <<age>>]
Dataset(quantities) == [elangle |-> 2, quantities |-> quantities]
F == [hdf5 |-> TRUE, large |-> FALSE, source |-> InSea, object |-> "SCAN", time |-> Minutes(10, 50),
      attrs |-> Attrs(<<1, 2>>, 5), texts |-> [k \in {"what/time"} |-> TwoDigits(10) \o TwoDigits(50)],
      datasets |-> <<Dataset({"DBZH"})>>]
At(file, h, m) ==
  [file EXCEPT !.time = Minutes(h, m), !.texts = [k \in {"what/time"} |-> TwoDigits(h) \o TwoDigits(m)]]

(* Subscriptions, publications, commands.                                  *)
Default0 == <<Placeholder("_baltrad/source_name", "", 0, <<>>),
              Placeholder("_baltrad/datetime_l", "", 15, <<>>)>>
Sub(filter, tolerant, allowed, structures) ==
  [filter |-> filter, tolerant |-> tolerant, allowed |-> allowed, structures |-> structures]
All == Sub(Always, FALSE, {}, [k \in {"default"} |-> Default0])
Pub(filter, origin) == [filter |-> filter, origin |-> origin, decorators |-> <<>>]
Job(command, signs, files) ==
  [command |-> command, signs |-> signs, address |-> "here", files |-> files]
Idle == Job("store", "crypto", <<>>)

Basic ==
  [files |-> [f \in {"f1", "f2"} |-> IF f = "f1" THEN F ELSE At([F EXCEPT !.source = InAB], 10, 5)],
   db |-> Plain, subs |-> <<All>>, pubs |-> <<Pub(Always, {})>>,
   jobs |-> [c \in Clients |-> Idle], runners |-> <<>>, known |-> Clients, auth |-> "crypto",
   configured |-> {"crypto"}, ownKey |-> TRUE, address |-> "here", rekeys |-> FALSE, lossy |-> FALSE,
   properties |-> [k \in {"site"} |-> B], angles |-> [n \in {Default, Sea} |-> IF n = Sea THEN <<1, 2>> ELSE <<3>>],
   now |-> Minutes(11, 0), interval |-> 15]
One == CHOOSE c \in Clients : TRUE
Runs(job) == [c \in Clients |-> IF c = One THEN job ELSE Idle]
Stores1 == Runs(Job("store", "crypto", <<"f1">>))

(* 1. Whose file is it? *)
SourceScenarios ==
  {[Basic EXCEPT !.jobs = Stores1, !.db = db, !.files["f1"].source = s] : db \in Databases, s \in SourcesOf}

(* 2. Filters. *)
Values == {List(<<>>), List(<<1>>), List(<<1, 2>>), List(<<3>>), Number(5), Text(1, {1}, {2})}
Leaves ==
  {Attribute(name, op, value) :
     name \in {"what/quantity", "where/height", Age},
     op \in {"in", "not_in", "=", "!=", "<", ">", "<=", ">=", "like"}, value \in Values}
Some == {Always, AlwaysWithoutValue, Attribute("what/quantity", "in", List(<<1>>)),
         Attribute("what/quantity", "in", List(<<3>>)), Attribute("where/height", "in", List(<<1>>)),
         Attribute(Age, "<", Number(7))}
Trees == {And(<<f, g>>) : f, g \in Some} \cup {Or(<<f, g>>) : f, g \in Some} \cup {Not(f) : f \in Some}
         \cup {Not(And(<<f, Not(g)>>)) : f, g \in Some} \cup {And(<<>>), Or(<<>>)}
FilterScenarios ==
  {[Basic EXCEPT !.jobs = Stores1, !.subs = <<Sub(f, FALSE, {}, All.structures), All>>] :
     f \in Leaves \cup Trees \cup Some}
  \cup {[Basic EXCEPT !.jobs = Stores1, !.pubs = <<Pub(f, o), Pub(Always, {})>>] :
          f \in Some, o \in {{}, {1}, {2}}}

(* 2b. Decorators. *)
Decorator(kind, discards, invalid, warn, block) ==
  [kind |-> kind, discards |-> discards, invalid |-> invalid, warn |-> warn, block |-> block]
SomeDecorators ==
  {Decorator("max_age", FALSE, FALSE, warn, block) : warn \in {0, 5, 10}, block \in {0, 5, 10, 20}}
  \cup {Decorator(k, discards, invalid, 0, 0) :
          k \in {"same", "none", "new", "bad"}, discards \in BOOLEAN, invalid \in BOOLEAN}
DecoratorScenarios ==
  {[Basic EXCEPT !.jobs = Stores1, !.pubs[1].decorators = ds, !.files["f1"].object = o,
                 !.files["f1"].datasets = IF angle THEN @ ELSE <<>>] :
     ds \in {<<d>> : d \in SomeDecorators}
            \cup {<<d, Decorator("max_age", FALSE, FALSE, 5, 20)>> : d \in SomeDecorators},
     o \in {"SCAN", "PVOL"}, angle \in BOOLEAN}

(* 3. Names. *)
TimeText(subs) == Placeholder("attribute", "what/time", 0, subs)
SourceText(subs) == Placeholder("what/source", "NOD", 0, subs)
Templates ==
  {Default0,
   <<SourceText(<<>>), TimeText(<<Suboperates("interval_u", <<15>>)>>)>>,
   <<SourceText(<<Suboperates("toupper", <<0>>), Suboperates("trim", <<>>)>>),
     TimeText(<<Suboperates("interval_l", <<15>>)>>)>>,
   <<Placeholder("_baltrad/source", "NOD", 0, <<Suboperates("tolower", <<>>)>>), PlainText(A),
     Placeholder("_baltrad/datetime_u", "", 15, <<>>)>>,
   <<Placeholder("_baltrad/source", "WMO", 0, <<Suboperates("rtrim", <<>>)>>),
     Placeholder("_property", "site", 0, <<Suboperates("replace", B \o A)>>),
     Placeholder("_baltrad/datetime", "", 0, <<Suboperates("substring", <<0, 4>>)>>)>>,
   <<Placeholder("operation", "", 0, <<>>), Placeholder("_baltrad/currentdt", "", 0, <<>>)>>,
   <<SourceText(<<Suboperates("ltrim", <<>>), Suboperates("toupper", <<0, 1>>)>>),
     TimeText(<<Suboperates("interval_u", <<15, 60>>)>>)>>,
   <<Placeholder("attribute", "what/quantity", 0, <<>>)>>}
NameScenarios ==
  {[Basic EXCEPT !.jobs = Runs(Job("store", "crypto", <<"f1", "f2">>)),
                 !.subs = <<Sub(Always, FALSE, {}, [k \in {kind} |-> t])>>,
                 !.files = [f \in {"f1", "f2"} |->
                    IF f = "f1" THEN At([F EXCEPT !.datasets = d], 10, m)
                    ELSE At([F EXCEPT !.object = o, !.source = s], h, 50)]] :
     t \in Templates, kind \in {"default", "SCAN"}, m \in {0, 14, 40, 59}, h \in {9, 10},
     o \in {"SCAN", "VP"}, s \in {InSea, InAB}, d \in {<<>>, <<Dataset({"TH"}), Dataset({"DBZH"})>>}}

(* 4. Signatures and new keys. *)
AuthScenarios ==
  {[Basic EXCEPT !.jobs = [c \in Clients |-> IF c = One THEN Job(command, signs, <<"f1">>)
                                             ELSE Job("store", "crypto", <<"f1">>)],
                 !.configured = configured, !.auth = auth, !.known = known, !.address = address,
                 !.rekeys = TRUE] :
     command \in {"store", "dex"}, signs \in {"crypto", "tink", "nobody"},
     configured \in {{"noauth"}, {"crypto"}, {"crypto", "keyczar", "tink"}},
     auth \in {"crypto", "tink", "keyczar"}, known \in {{One}, Clients}, address \in {"here", "there"}}
  \cup
  {[Basic EXCEPT !.jobs = Runs(Job("ask", "crypto", <<"uptime", "publickey">>)), !.configured = configured,
                 !.ownKey = own] : configured \in {{"noauth"}, {"crypto"}}, own \in BOOLEAN}

(* 5. Fetches. *)
Entry(file, folder, fnmatch, match) ==
  [file |-> file, folder |-> folder, fnmatch |-> fnmatch, match |-> match]
Listings ==
  {<<Entry("f1", FALSE, TRUE, TRUE), Entry("f2", folder, fn, ma)>> : folder, fn, ma \in BOOLEAN}
  \cup {<<>>, <<Entry("f1", TRUE, TRUE, TRUE), Entry("f2", FALSE, TRUE, TRUE)>>}
FetchersOf ==
  {f \in [id : {"fetch"}, kind : Kinds, fnpattern : BOOLEAN, pattern : BOOLEAN,
          path : {"folder", "pattern"}, here : BOOLEAN] : Constructs(f)}
Runner(f, listing, triggers) ==
  [invokers |-> {One}, triggers |-> triggers, fetcher |-> f, listing |-> listing]
FetchScenarios ==
  {[Basic EXCEPT !.jobs = [c \in Clients |-> IF c = One THEN Job("trigger", "crypto", <<"t1">>)
                                             ELSE Job("store", "crypto", <<"f1">>)],
                 !.runners = <<Runner(f, listing, triggers)>>,
                 !.subs[1].tolerant = tolerant, !.files["f2"].large = tolerant] :
     f \in FetchersOf, listing \in Listings, triggers \in {{}, {"t2"}}, tolerant \in BOOLEAN}
  \cup
  {[Basic EXCEPT !.jobs = Runs(Job("trigger", "crypto", <<"t1">>)), !.subs[1].allowed = {"fetch"},
                 !.runners = <<Runner([f EXCEPT !.id = id], <<Entry("f1", FALSE, TRUE, TRUE)>>, {})>>] :
     f \in FetchersOf, id \in {"", "fetch"}}

(* 6. Two clients, retries, lost requests and answers, a window of one     *)
(* hash, subscriptions that allow one node or take duplicates, and filters *)
(* that raise.                                                             *)
Raising == Attribute("what/quantity", "<", Number(1))
Commands ==
  {Job("store", "crypto", <<"f1", "f1", "f2">>), Job("batch", "crypto", <<"f1", "f3", "f2">>),
   Job("store", "crypto", <<"f4", "f1">>), Job("dex", "crypto", <<"f2", "f1">>)}
SubsOf ==
  {<<Sub(Always, tolerant, allowed, All.structures), Sub(filter, FALSE, {}, All.structures)>> :
     tolerant \in BOOLEAN, allowed \in {{}, {One}}, filter \in {Always, Raising}}
TwoClientScenarios ==
  {[Basic EXCEPT !.files = [f \in {"f1", "f2", "f3", "f4"} |->
                    CASE f = "f3" -> [F EXCEPT !.hdf5 = FALSE] [] f = "f4" -> [F EXCEPT !.large = TRUE]
                      [] OTHER -> Basic.files[f]],
                 !.jobs = [c \in Clients |-> IF c = One THEN one ELSE other], !.subs = subs,
                 !.auth = IF "dex" \in {one.command, other.command} THEN "keyczar" ELSE "crypto",
                 !.configured = {"crypto", "keyczar"}, !.lossy = lossy] :
     one, other \in Commands, subs \in SubsOf, lossy \in BOOLEAN}

MCScenarios ==
  SourceScenarios \cup FilterScenarios \cup DecoratorScenarios \cup NameScenarios \cup AuthScenarios \cup FetchScenarios
    \cup TwoClientScenarios
=============================================================================
