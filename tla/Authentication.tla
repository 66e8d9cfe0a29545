--------------------------- MODULE Authentication ---------------------------
(***************************************************************************)
(* Requests, their signatures, and the providers that verify them:         *)
(* client/rest.py and dex_sender on one side, auth/coreauth.py,            *)
(* auth/tinkauth.py, auth/keyczarauth.py and web/auth.py on the other.     *)
(*                                                                         *)
(* A request is [method, path, url, headers, authorization]; url is what   *)
(* the server takes its address for.  headers is a function from the names *)
(* of those present to their values.  A signature is the key and the text  *)
(* it was made of; a text is the sequence of the fragments joined in it.   *)
(***************************************************************************)
LOCAL INSTANCE Sequences

Providers == {"noauth", "crypto", "tink", "keyczar"}
NoKey == 0

Fragments(first, order, req) ==
  LET present == SelectSeq(order, LAMBDA h : h \in DOMAIN req.headers)
  IN first \o [n \in DOMAIN present |-> req.headers[present[n]]]

----------------------------------------------------------------------------
(* The client.                                                             *)

NoAuthorization == [scheme |-> "none"]

(* What RestfulServer makes of a method, a path and a body.  Every request *)
(* has an identity of its own and none has a content-md5.                  *)
RestRequest(method, path, type, id) ==
  [method |-> method, path |-> path, url |-> path, authorization |-> NoAuthorization,
   headers |-> [h \in {"content-type", "message-id", "date"} |->
                  CASE h = "content-type" -> type [] h = "message-id" -> id [] h = "date" -> <<"date", id>>]]

ClientSignable(req) ==
  Fragments(<<req.method>>, <<"content-md5", "content-type", "date", "message-id">>, req)

(* CryptoAuth and TinkAuth of the client. *)
Signed(req, scheme, node, key) ==
  [req EXCEPT !.authorization =
     [scheme |-> scheme, node |-> node, sig |-> [key |-> key, text |-> ClientSignable(req)]]]

(* The headers and the signature of dex_sender: no word tells the scheme.  *)
(* The server may be seen under another address than its own.              *)
DexRequest(address, seen, node, key, date) ==
  LET path == "/BaltradDex/post_file.htm"
      url == <<address, path>>
  IN [method |-> "POST", path |-> path, url |-> <<seen, path>>,
      headers |-> [h \in {"node-name", "content-type", "content-md5", "date"} |->
                     CASE h = "node-name" -> node [] h = "content-type" -> "hdf5"
                       [] h = "content-md5" -> url [] h = "date" -> date],
      authorization |-> [scheme |-> "", node |-> node,
                         sig |-> [key |-> key,
                                  text |-> <<"POST", url, "hdf5", url, date>>]]]

----------------------------------------------------------------------------
(* The server.  keys[provider][node] is the key that verifies the node.    *)

(* Mutant: the path is signed, too, as it is for tink. *)
CryptoSignableWithPath(req) ==
  Fragments(<<req.method, req.path>>, <<"content-md5", "content-type", "date", "message-id">>, req)

CryptoSignable(req) ==
  Fragments(<<req.method>>, <<"content-md5", "content-type", "date", "message-id">>, req)

TinkSignable(req) ==
  Fragments(<<req.method, req.path>>, <<"content-md5", "message-id", "content-type", "date">>, req)

KeyczarSignable(req) ==
  Fragments(<<req.method, req.url>>, <<"content-type", "content-md5", "date">>, req)

(* get_credentials: the provider asked for, or none for a header that does *)
(* not name one in the way it should.                                      *)
Credentials(req) ==
  LET scheme == req.authorization.scheme
      known == [s \in {"exchange-crypto", "exchange-tink", "exchange-keyczar"} |->
                  CASE s = "exchange-crypto" -> "crypto" [] s = "exchange-tink" -> "tink"
                    [] s = "exchange-keyczar" -> "keyczar"]
  IN CASE scheme = "none" -> "noauth"
       [] scheme = "" /\ "node-name" \in DOMAIN req.headers
            /\ req.path = "/BaltradDex/post_file.htm" -> "keyczar"
       [] scheme \in DOMAIN known -> known[scheme]
       [] OTHER -> "nobody"

(* The providers hold the same kind of keys and differ in the text that is *)
(* signed.  A node without key, and a verification that fails or raises,   *)
(* come to the same.                                                       *)
SignedBy(keys, a, text) ==
  /\ a.node \in DOMAIN keys /\ keys[a.node] # NoKey
  /\ a.sig = [key |-> keys[a.node], text |-> text]

CryptoVerifies(keys, req) == SignedBy(keys, req.authorization, CryptoSignable(req))
TinkVerifies(keys, req) == SignedBy(keys, req.authorization, TinkSignable(req))
KeyczarVerifies(keys, req) == SignedBy(keys, req.authorization, KeyczarSignable(req))

(* noauth lets everybody in. *)
Verifies(provider, keys, req) ==
  CASE provider = "noauth" -> TRUE
    [] provider = "crypto" -> CryptoVerifies(keys["crypto"], req)
    [] provider = "tink" -> TinkVerifies(keys["tink"], req)
    [] provider = "keyczar" -> KeyczarVerifies(keys["keyczar"], req)

(* auth_manager.authenticate with the configured providers.                *)
Authenticated(configured, keys, req) ==
  LET provider == Credentials(req)
  IN IF provider \in configured /\ Verifies(provider, keys, req) THEN provider ELSE "nobody"

(* A new key from the configuration of a subscription: crypto keeps the    *)
(* first key of a node, the others take the last one.  Without that        *)
(* provider nothing happens.                                               *)
CryptoWithKey(known, node, key) == IF known[node] = NoKey THEN [known EXCEPT ![node] = key] ELSE known
TinkWithKey(known, node, key) == [known EXCEPT ![node] = key]
KeyczarWithKey(known, node, key) == [known EXCEPT ![node] = key]

WithKey(configured, keys, provider, node, key) ==
  IF provider \notin configured THEN keys
  ELSE [keys EXCEPT ![provider] =
          CASE provider = "crypto" -> CryptoWithKey(@, node, key)
            [] provider = "tink" -> TinkWithKey(@, node, key)
            [] provider = "keyczar" -> KeyczarWithKey(@, node, key)]

(* What the properties of a server configure: its providers, noauth if     *)
(* they list none, and the keys they name.  crypto adds the public part of *)
(* the key the server signs with itself.                                   *)
ProvidersFromConf(listed) == IF listed = {} THEN {"noauth"} ELSE listed

WithOwnKey(known, node, private) ==
  IF private = NoKey \/ known[node] # NoKey THEN known ELSE [known EXCEPT ![node] = private]

KeysAtStart(named, node, private) ==
  [named EXCEPT !["crypto"] = WithOwnKey(@, node, private)]

(* Requests without a provider, and those of noauth, are anonymous.        *)
IsAnonymous(provider) == provider \in {"nobody", "noauth"}
=============================================================================
