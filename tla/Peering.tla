------------------------------- MODULE Peering -------------------------------
(***************************************************************************)
(* How two nodes become peers.  One runs create_publication and            *)
(* create_subscription (client/cfgcmd.py) over a template and its own      *)
(* properties; it keeps the publication and sends the bundle of the        *)
(* subscription and its public key to the other, whose server reads it     *)
(* (server/subscription.py).  Either file may be edited before it is used. *)
(*                                                                         *)
(* A template is [sender, encryption, filter], a filter the set of files   *)
(* it matches; see Filters.  What may come to nothing is a sequence of at  *)
(* most one.                                                               *)
(***************************************************************************)
EXTENDS Authentication
LOCAL INSTANCE Sequences
LOCAL INSTANCE SequencesExt

(* The name that stands for no node; nodename None. *)
NoNode == "None"

(* A template that asks for other senders or other keys is refused.        *)
CreatePublication(template, node, desturi) ==
  IF template.sender # "rest" \/ template.encryption # "crypto" THEN <<>>
  ELSE <<[active |-> TRUE, origin |-> {}, filter |-> template.filter,
          connection |-> [class |-> "simple_connection", connections |-> <<>>,
                          senders |-> <<[kind |-> "rest", to |-> desturi]>>]]>>

(* The subscription has no "id" and no "statdef": the template names them  *)
(* "_id" and "_statdef", which nobody reads.                               *)
CreateSubscription(template, node, key) ==
  IF template.sender # "rest" THEN <<>>
  ELSE <<[active |-> TRUE, allow_duplicates |-> FALSE, allowed_ids |-> {},
          cryptos |-> <<[auth |-> "crypto", nodename |-> node, key |-> key]>>,
          filter |-> template.filter]>>

----------------------------------------------------------------------------
(* The servers.                                                            *)

PartKind(class) ==
  CASE class = "simple_connection" -> "simple"
    [] class = "failover_connection" -> "failover"
    [] class \in {"backup_connection", "distributed_connection"} -> "all"

PartFromConf(conf) == [kind |-> PartKind(conf.class), senders |-> conf.senders]

(* connection_manager and the constructors, as Connections takes them.     *)
ConnectionFromConf(conf) ==
  IF conf.class = "combined_connection"
    THEN [combined |-> TRUE,
          parts |-> [n \in DOMAIN conf.connections |-> PartFromConf(conf.connections[n])]]
    ELSE [combined |-> FALSE, parts |-> <<PartFromConf(conf)>>]

PublicationFromConf(conf) ==
  IF ~conf.active THEN <<>>
  ELSE <<[origin |-> conf.origin, filter |-> conf.filter,
          connection |-> ConnectionFromConf(conf.connection)]>>

(* add_key_config does not tell the name of the node when its provider is  *)
(* not configured: the None that is allowed then keeps everybody out.      *)
NodeOfKey(configured, crypto) ==
  IF crypto.auth \in configured THEN crypto.nodename ELSE NoNode

(* Reading a key that is not in the key root raises.                       *)
Loads(configured, bundle) ==
  bundle.conf.active
    /\ (bundle.placed \/ \A n \in DOMAIN bundle.conf.cryptos :
                            bundle.conf.cryptos[n].auth \notin configured)

SubscriptionFromConf(configured, bundle) ==
  LET conf == bundle.conf
  IN IF ~Loads(configured, bundle) THEN <<>>
     ELSE <<[tolerant |-> conf.allow_duplicates, filter |-> conf.filter,
             allowed |-> conf.allowed_ids \cup
               {NodeOfKey(configured, conf.cryptos[n]) : n \in DOMAIN conf.cryptos}]>>

KeysFromConf(configured, keys, bundle) ==
  IF ~Loads(configured, bundle) THEN keys
  ELSE FoldLeft(LAMBDA known, c : WithKey(configured, known, c.auth, c.nodename, c.key),
                keys, bundle.conf.cryptos)
=============================================================================
