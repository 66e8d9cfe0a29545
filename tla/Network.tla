------------------------------- MODULE Network -------------------------------
(***************************************************************************)
(* Servers that exchange files.  A file that a server has stored goes to   *)
(* the queues of its publications, a consumer of each publishes it on the  *)
(* connection (Connections), whose senders end in one way or another       *)
(* (Senders); a rest_sender posts it to another server, which knows it     *)
(* already, or stores and publishes it in its turn.                        *)
(*                                                                         *)
(* A network says how the servers are configured, by files that Peering    *)
(* makes; it is chosen at the start.  Storing a file is one step here,     *)
(* HandledFiles and Backend have what happens in it; and so is taking an   *)
(* item from a queue, see StandardPublisher.  Each publication has one     *)
(* consumer thread.                                                        *)
(***************************************************************************)
EXTENDS Naturals, Sequences, FiniteSets, Connections, Peering
LOCAL INSTANCE SequencesExt

CONSTANTS Nodes,     \* the servers
          Files,     \* the files, which are their hashes
          Networks,  \* how the servers are configured
          MaxPublications  \* bound: no server has more

Elsewhere == "elsewhere"   \* a recipient that is no server

VARIABLES net,       \* the network
          hears,     \* hears[n]: the nodes whose requests n does not answer 401
          subs,      \* subs[n]: its subscriptions, by the file that configures each
          pubs,      \* pubs[n]: its publications, likewise
          handled,   \* handled[n]: its HandledFiles, newest first
          incoming,  \* incoming[n]: files that its runner will still find
          queues,    \* queues[n][p]: the queue of publication p
          calls,     \* calls[n][p]: what the consumer of p is doing, or did last
          taken,     \* taken[n]: the files a subscription of n has been given
          restarts   \* how often a server has been restarted

setup == <<net, hears, subs, pubs>>
vars == <<net, hears, subs, pubs, handled, incoming, queues, calls, taken, restarts>>

NetworkAssumption ==
  /\ Elsewhere \notin Nodes /\ NoNode \notin Nodes
  /\ IsFiniteSet(Files) /\ MaxPublications \in Nat
  /\ \A w \in Networks :
       /\ w.limit \in Nat \ {0} /\ w.queue \in Nat \ {0} /\ w.restarts \in Nat
       /\ w.lossy \in BOOLEAN /\ w.incoming \in [Nodes -> SUBSET Files]
       /\ \A n \in Nodes :
            /\ IsFiniteSet(DOMAIN w.subscriptions[n])
            /\ DOMAIN w.publications[n] \subseteq 1..MaxPublications
            /\ \A i \in DOMAIN w.publications[n] :
                 IsConnection(ConnectionFromConf(w.publications[n][i].connection),
                              Nodes \cup {Elsewhere})
ASSUME NetworkAssumption

(* The providers of server n, and the keys it knows when it has started.   *)
ProvidersOf(n) == ProvidersFromConf(net.configured[n])
KeysOf(n) ==
  FoldLeft(LAMBDA known, b : KeysFromConf(ProvidersOf(n), known, b),
           KeysAtStart(net.named[n], n, net.signing[n]), net.subscriptions[n])

(* What rest_sender of server m posts. *)
Post(m) == Signed(RestRequest("POST", "/file/", "hdf5", "id"), "exchange-crypto", m, net.signing[m])

(* What came of the files that did not come to nothing. *)
Made(results) == [i \in {j \in DOMAIN results : results[j] # <<>>} |-> results[i][1]]

NoCalls(p) == [i \in DOMAIN p |-> [Called(p[i].connection, "") EXCEPT !.outcome = "idle"]]

Init ==
  /\ net \in Networks
  /\ hears = [n \in Nodes |->
                {m \in Nodes : ~IsAnonymous(Authenticated(ProvidersOf(n), KeysOf(n), Post(m)))}]
  /\ subs = [n \in Nodes |-> Made([i \in DOMAIN net.subscriptions[n] |->
               SubscriptionFromConf(ProvidersOf(n), net.subscriptions[n][i])])]
  /\ pubs = [n \in Nodes |-> Made([i \in DOMAIN net.publications[n] |->
               PublicationFromConf(net.publications[n][i])])]
  /\ handled = [n \in Nodes |-> <<>>]
  /\ incoming = net.incoming
  /\ queues = [n \in Nodes |-> [p \in DOMAIN pubs[n] |-> <<>>]]
  /\ calls = [n \in Nodes |-> NoCalls(pubs[n])]
  /\ taken = [n \in Nodes |-> {}]
  /\ restarts = 0

----------------------------------------------------------------------------
(* store_file and publish of server n.                                     *)

Repeated(n, f) == \E i \in DOMAIN handled[n] : handled[n][i] = f
Refused(n, f) == Repeated(n, f) /\ \A s \in DOMAIN subs[n] : ~subs[n][s].tolerant
Added(n, f) ==
  SubSeq(<<f>> \o handled[n], 1,
         IF Len(handled[n]) < net.limit THEN Len(handled[n]) + 1 ELSE net.limit)

(* Mutant: that the file is a repeated one is forgotten. *)
TakersOfAny(n, nid, f) ==
  {s \in DOMAIN subs[n] :
     /\ subs[n][s].allowed = {} \/ nid \in subs[n][s].allowed
     /\ f \in subs[n][s].filter}

(* The subscriptions that are given the file. *)
Takers(n, nid, f) ==
  {s \in DOMAIN subs[n] :
     /\ Repeated(n, f) => subs[n][s].tolerant
     /\ subs[n][s].allowed = {} \/ nid \in subs[n][s].allowed
     /\ f \in subs[n][s].filter}

(* A file is put into a queue so many times; what finds it full is dropped.*)
Queued(queue, f, times) ==
  LET all == queue \o [i \in 1..times |-> f]
  IN SubSeq(all, 1, IF Len(all) < net.queue THEN Len(all) ELSE net.queue)

(* How often publication p gets the file: every subscription publishes by  *)
(* itself.                                                                 *)
Times(n, p, takers, f) ==
  IF f \in pubs[n][p].filter
  THEN Cardinality({s \in takers : pubs[n][p].origin = {} \/ s \in pubs[n][p].origin})
  ELSE 0

StoreFile(n, nid, f) ==
  /\ handled' = [handled EXCEPT ![n] = IF Repeated(n, f) THEN @ ELSE Added(n, f)]
  /\ taken' = [taken EXCEPT ![n] = IF Takers(n, nid, f) = {} THEN @ ELSE @ \cup {f}]
  /\ queues' = [queues EXCEPT ![n] =
       [p \in DOMAIN @ |-> Queued(@[p], f, Times(n, p, Takers(n, nid, f), f))]]

(* A file comes in on another way: a runner of the server finds it, and    *)
(* unlinks it whatever becomes of it.                                      *)
ComeIn(n, f) ==
  /\ f \in incoming[n]
  /\ incoming' = [incoming EXCEPT ![n] = @ \ {f}]
  /\ StoreFile(n, "runner", f)
  /\ UNCHANGED <<setup, calls, restarts>>

----------------------------------------------------------------------------
(* What n answers when m posts a file: 401, 409, or 200.                   *)
Answer(n, m, f) ==
  CASE m \notin hears[n] -> Raises("nothing")
    [] m \in hears[n] /\ Refused(n, f) -> Raises("whole")
    [] OTHER -> Returns("whole")

----------------------------------------------------------------------------
(* The consumer of publication p of server n.                              *)

Busy(n, p) == calls[n][p].outcome = "busy"

Take(n, p) ==
  /\ ~Busy(n, p) /\ queues[n][p] # <<>>
  /\ queues' = [queues EXCEPT ![n][p] = Tail(@)]
  /\ calls' = [calls EXCEPT ![n][p] = Called(pubs[n][p].connection, Head(queues[n][p]))]
  /\ UNCHANGED <<setup, handled, incoming, taken, restarts>>

Sends(n, p, r) == calls' = [calls EXCEPT ![n][p] = Ended(@, r)]

(* The request is lost, or it arrives and the answer may be lost.          *)
SendToServer(n, p) ==
  /\ InSender(calls[n][p]) /\ Sender(calls[n][p]).to \in Nodes
  /\ LET f == calls[n][p].file
         to == Sender(calls[n][p]).to
         answer == Answer(to, n, f)
     IN \/ /\ net.lossy
           /\ Sends(n, p, Raises("nothing"))
           /\ UNCHANGED <<handled, queues, taken>>
        \/ /\ \/ Sends(n, p, answer)
              \/ net.lossy /\ Sends(n, p, Raises(answer.there))
           /\ IF n \in hears[to] THEN StoreFile(to, n, f)
              ELSE UNCHANGED <<handled, queues, taken>>
  /\ UNCHANGED <<setup, incoming, restarts>>

SendElsewhere(n, p) ==
  /\ InSender(calls[n][p]) /\ Sender(calls[n][p]).to \notin Nodes
  /\ \E r \in SendResults(Sender(calls[n][p]).kind) : Sends(n, p, r)
  /\ UNCHANGED <<setup, handled, incoming, queues, taken, restarts>>

EndOfSenders(n, p) ==
  /\ InPart(calls[n][p]) /\ ~InSender(calls[n][p])
  /\ calls' = [calls EXCEPT ![n][p] = SendersExhausted(@)]
  /\ UNCHANGED <<setup, handled, incoming, queues, taken, restarts>>

EndOfParts(n, p) ==
  /\ Busy(n, p) /\ ~InPart(calls[n][p])
  /\ calls' = [calls EXCEPT ![n][p] = CombinedReturns(@)]
  /\ UNCHANGED <<setup, handled, incoming, queues, taken, restarts>>

Consume(n, p) ==
  /\ p \in DOMAIN pubs[n]
  /\ \/ Take(n, p) \/ SendToServer(n, p) \/ SendElsewhere(n, p)
     \/ EndOfSenders(n, p) \/ EndOfParts(n, p)

(* Server n is restarted: what it had in memory is gone. *)
Restart(n) ==
  /\ restarts < net.restarts
  /\ restarts' = restarts + 1
  /\ handled' = [handled EXCEPT ![n] = <<>>]
  /\ queues' = [queues EXCEPT ![n] = [p \in DOMAIN pubs[n] |-> <<>>]]
  /\ calls' = [calls EXCEPT ![n] = NoCalls(pubs[n])]
  /\ UNCHANGED <<setup, incoming, taken>>

Next ==
  \E n \in Nodes :
    \/ \E f \in Files : ComeIn(n, f)
    \/ \E p \in 1..MaxPublications : Consume(n, p)
    \/ Restart(n)

(* The consumers are threads that run whenever there is something to do,   *)
(* and requests end.                                                       *)
Spec ==
  /\ Init /\ [][Next]_vars
  /\ \A n \in Nodes, p \in 1..MaxPublications : WF_vars(Consume(n, p))

----------------------------------------------------------------------------
(* Every publish that returned kept the promise of its connection; see     *)
(* KeptPromise.                                                            *)
ReturnKeepsPromise ==
  \A n \in Nodes : \A p \in DOMAIN calls[n] :
    calls[n][p].outcome = "returned" => KeptPromise(calls[n][p])

AtRest == \A n \in Nodes : \A p \in DOMAIN pubs[n] : ~Busy(n, p) /\ queues[n][p] = <<>>

(* No server takes duplicates, and each remembers as many hashes as there  *)
(* are files on their way.                                                 *)
Remembers ==
  /\ \A n \in Nodes : \A s \in DOMAIN subs[n] : ~subs[n][s].tolerant
  /\ Cardinality(Files) <= net.limit

(* The check of duplicates is what keeps files from going round for ever   *)
(* in a network with cycles: whatever is lost and restarted, the servers   *)
(* come to rest.                                                           *)
CirculationEnds == Remembers => <>[]AtRest

(* Server n takes f from whoever may send it: nobody is heard and turned   *)
(* away later, which would leave the hash behind and the file untaken.     *)
Recipients(m, p) ==
  UNION {{pubs[m][p].connection.parts[i].senders[k].to :
            k \in DOMAIN pubs[m][p].connection.parts[i].senders} :
         i \in DOMAIN pubs[m][p].connection.parts}
Welcomes(n, f) ==
  LET Wanted(nid) == \E s \in DOMAIN subs[n] :
                       /\ subs[n][s].allowed = {} \/ nid \in subs[n][s].allowed
                       /\ f \in subs[n][s].filter
  IN /\ f \in net.incoming[n] => Wanted("runner")
     /\ \A m \in Nodes : \A p \in DOMAIN pubs[m] :
          f \in pubs[m][p].filter /\ n \in Recipients(m, p) => m \in hears[n] /\ Wanted(m)

(* Nothing is lost on the way, no queue is too small, and the publication  *)
(* is one of servers that welcome the file.                                *)
Calm(n, p, f) ==
  /\ ~net.lossy /\ net.restarts = 0 /\ Remembers
  /\ net.queue >= Cardinality(Files) * Cardinality(DOMAIN subs[n])
  /\ f \in pubs[n][p].filter /\ pubs[n][p].origin = {}
  /\ ~pubs[n][p].connection.combined
  /\ Recipients(n, p) # {} /\ \A m \in Recipients(n, p) : m \in Nodes /\ Welcomes(m, f)

Spread(n, p, f) ==
  LET have == {m \in Nodes \cap Recipients(n, p) : f \in taken[m]}
  IN IF pubs[n][p].connection.parts[1].kind = "failover" THEN have # {} ELSE have = Recipients(n, p)

(* A file that a server takes reaches every recipient of its publications, *)
(* one of them for a failover_connection, although it may meet copies of   *)
(* itself that came another way, whose answer 409 the senders raise: when  *)
(* the servers are at rest, none of them lacks it.                         *)
FilesSpread ==
  AtRest =>
    \A n \in Nodes : \A p \in DOMAIN pubs[n] : \A f \in taken[n] :
      Calm(n, p, f) => Spread(n, p, f)
=============================================================================
