------------------------------ MODULE MCNetwork ------------------------------
(* Networks of up to three servers, and single servers with connections of  *)
(* every kind.                                                              *)
EXTENDS Network
LOCAL INSTANCE SequencesExt

Template == [sender |-> "rest", encryption |-> "crypto", filter |-> Files]
Runners(ids) ==
  [conf |-> [active |-> TRUE, allow_duplicates |-> FALSE, allowed_ids |-> ids,
             cryptos |-> <<>>, filter |-> Files], placed |-> TRUE]
Bundle(template, n) ==
  LET made == CreateSubscription(template, n, 1)
  IN [i \in DOMAIN made |-> [conf |-> made[i], placed |-> TRUE]]

(* A network of links <<from, to>>, as the commands make them; a and b have *)
(* files of their own.                                                      *)
Linked(links, template(_)) ==
  LET order == SetToSeq(Nodes)
      From(n) == SelectSeq(order, LAMBDA m : <<n, m>> \in links)
      To(n) == SelectSeq(order, LAMBDA m : <<m, n>> \in links)
  IN [limit |-> Cardinality(Files), queue |-> 4, lossy |-> FALSE, restarts |-> 0,
      configured |-> [n \in Nodes |-> {"crypto"}],
      signing |-> [n \in Nodes |-> 1],
      named |-> [n \in Nodes |-> [p \in Providers |-> [m \in Nodes |-> NoKey]]],
      incoming |-> [n \in Nodes |-> IF n = "a" THEN Files ELSE IF n = "b" THEN {"f"} ELSE {}],
      publications |-> [n \in Nodes |->
        FlattenSeq([i \in DOMAIN From(n) |-> CreatePublication(template(n), n, From(n)[i])])],
      subscriptions |-> [n \in Nodes |->
        <<Runners({"runner"})>> \o FlattenSeq([i \in DOMAIN To(n) |-> Bundle(template(To(n)[i]), To(n)[i])])]]

Same(n) == Template
Ring == Linked({<<"a", "b">>, <<"b", "c">>, <<"c", "a">>}, Same)
Mesh == Linked({<<"a", "b">>, <<"b", "a">>, <<"a", "c">>, <<"c", "a">>, <<"b", "c">>}, Same)
Pair == Linked({<<"a", "b">>, <<"b", "a">>}, Same)

(* A publication of a with another connection to b and c. *)
Rest(n) == [kind |-> "rest", to |-> n]
ToBC(class) == [class |-> class, connections |-> <<>>, senders |-> <<Rest("b"), Rest("c")>>]
ToThen(class) ==
  [class |-> "combined_connection", senders |-> <<>>,
   connections |-> <<[class |-> class, connections |-> <<>>, senders |-> <<Rest("b")>>],
                     [class |-> "simple_connection", connections |-> <<>>, senders |-> <<Rest("c")>>]>>]
From(w, n, connection) ==
  [w EXCEPT !.publications[n] =
     <<[CreatePublication(Template, n, "b")[1] EXCEPT !.connection = connection]>>]

SharedNetworks ==
  { Ring, Mesh,
    [Ring EXCEPT !.lossy = TRUE], [Ring EXCEPT !.restarts = 2],
    [Pair EXCEPT !.lossy = TRUE, !.restarts = 1],
    (* a subscription for everybody beside those of the peers *)
    [Pair EXCEPT !.subscriptions["b"][1] = Runners({})],
    (* too small a queue, and too short a list *)
    [Ring EXCEPT !.queue = 1], [Ring EXCEPT !.limit = 1],
    (* subscriptions that take duplicates *)
    [Pair EXCEPT !.subscriptions["a"][1].conf.allow_duplicates = TRUE,
                 !.incoming["a"] = {"f"}],
    (* filters that differ *)
    Linked({<<"a", "b">>, <<"b", "c">>, <<"c", "a">>},
           LAMBDA n : IF n = "b" THEN [Template EXCEPT !.filter = {"g"}] ELSE Template),
    (* a key that is not in place, another key, one the properties name, too, *)
    (* no provider, a link that is not active, senders and keys that the     *)
    (* commands refuse                                                       *)
    [Ring EXCEPT !.subscriptions["b"][2].placed = FALSE],
    [Ring EXCEPT !.signing["a"] = 2],
    [Ring EXCEPT !.signing["a"] = 2, !.named["b"]["crypto"]["a"] = 2],
    [Ring EXCEPT !.configured["b"] = {}],
    [Ring EXCEPT !.publications["b"][1].active = FALSE],
    [Ring EXCEPT !.publications["b"][1].origin = {1}],
    Linked({<<"a", "b">>}, LAMBDA n : [Template EXCEPT !.sender = "dex"]),
    Linked({<<"a", "b">>}, LAMBDA n : [Template EXCEPT !.encryption = "keyczar"]) }
  \cup {From(Linked({<<"a", "b">>, <<"a", "c">>}, Same), "a", ToBC("backup_connection"))}
  \cup {From(Linked({<<"a", "b">>, <<"a", "c">>, <<"b", "c">>, <<"c", "b">>}, Same), "a", c) :
          c \in {ToBC(k) : k \in {"failover_connection", "backup_connection"}}
                \cup {ToThen(k) : k \in {"simple_connection", "failover_connection", "backup_connection"}}}

----------------------------------------------------------------------------
(* One server, one file, and every connection: each kind alone, with a      *)
(* sender of every kind or with lists of up to three, and every combination *)
(* of two parts with up to two senders each.                                *)
List(kinds) == [i \in DOMAIN kinds |-> [kind |-> kinds[i], to |-> Elsewhere]]
Part(class, kinds) == [class |-> class, connections |-> <<>>, senders |-> List(kinds)]
Combined(p, q) == [class |-> "combined_connection", senders |-> <<>>, connections |-> <<p, q>>]
Short == {<<>>, <<"rest">>, <<"dex", "sftp">>}
Long == {<<"ftp", "scp", "copy">>, <<"sftp", "storage", "rest">>, <<"copy", "noop", "dex">>}
Classes == {"failover_connection", "distributed_connection"}
Parts == {Part("simple_connection", <<k>>) : k \in {"rest", "noop"}}
         \cup {Part(c, l) : c \in Classes, l \in Short}
Alone ==
  [Linked({}, Same) EXCEPT !.incoming = [n \in Nodes |-> IF n = "a" THEN {"f"} ELSE {}]]
SingleNetworks ==
  {From(Alone, "a", c) :
     c \in {Part("simple_connection", <<k>>) : k \in Kinds}
           \cup {Part(k, l) : k \in Classes, l \in Short \cup Long}
           \cup {Combined(p, q) : p \in Parts, q \in Parts}}

MCNodes == {"a", "b", "c"}
MCFiles == {"f", "g"}
MCNetworks == SharedNetworks \cup SingleNetworks
=============================================================================
