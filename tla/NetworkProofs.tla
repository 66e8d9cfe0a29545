---------------------------- MODULE NetworkProofs ----------------------------
(***************************************************************************)
(* Network, for any servers, files, keys and subscriptions, any number of  *)
(* publications and every connection: what a publish that returned has     *)
(* done, and that files reach every recipient.                             *)
(***************************************************************************)
EXTENDS Network, FiniteSetTheorems, SequenceTheorems, TLAPS

(* One publish, of a connection g. *)
Outcomes == {"idle", "busy", "returned", "raised"}
Places == Nat \X Nat
CallsOn(g) ==
  [conf : {g}, file : Files \cup {""}, part : Nat \ {0}, pos : Nat \ {0},
   tried : SUBSET Places, worked : SUBSET Places, got : SUBSET Places,
   outcome : Outcomes]

Everyone == Nodes \cup {Elsewhere}

(* What the senders of the running part have done so far. *)
RunsWell(c) ==
  /\ c.pos <= Len(Running(c).senders) + 1
  /\ \A k \in Nat : <<c.part, k>> \in c.tried <=> k \in 1..(c.pos - 1)
  /\ Running(c).kind # "all" => \A k \in Nat : <<c.part, k>> \notin c.worked
  /\ Running(c).kind = "simple" => c.pos = 1

(* The parts before the running one kept their promise, those behind it    *)
(* have not been called.                                                   *)
Keeping(c) ==
  /\ ~c.conf.combined => c.part = 1
  /\ \A n \in DOMAIN c.conf.parts : n < c.part => KeptPart(c, n)
  /\ \A n \in DOMAIN c.conf.parts : n > c.part => \A k \in Nat : <<n, k>> \notin c.tried
  /\ InPart(c) => RunsWell(c)

Good(c) ==
  /\ c.worked \subseteq c.tried
  /\ c.outcome = "returned" => KeptPromise(c)
  /\ c.outcome = "busy" => Keeping(c)

(* A result is one that such a sender may end in. *)
Possible(r, kind) ==
  r.returned => r.there = "whole" \/ kind \in MayWithhold

LEMMA SendResultsArePossible ==
  ASSUME NEW kind \in Kinds, NEW r \in SendResults(kind)
  PROVE  Possible(r, kind)
<1> USE DEF Possible, Contents, MayWithhold, Returns, Raises
<1>1. CASE kind = "storage"
  BY <1>1 DEF SendResults, StorageResults
<1>2. CASE kind = "noop"
  BY <1>2 DEF SendResults, NoopResults
<1>3. CASE kind = "dex"
  BY <1>3 DEF SendResults, DexResults, DexPost, DexRedirected
<1>4. CASE kind = "rest"
  BY <1>4 DEF SendResults, RestResults
<1>5. CASE kind = "scp"
  BY <1>5 DEF SendResults, ScpResults
<1>6. CASE kind = "ftp"
  BY <1>6 DEF SendResults, FtpResults
<1>7. CASE kind = "sftp"
  BY <1>7 DEF SendResults, SftpResults
<1>8. CASE kind = "copy"
  BY <1>8 DEF SendResults, CopyResults
<1> QED
  BY <1>1, <1>2, <1>3, <1>4, <1>5, <1>6, <1>7, <1>8 DEF Kinds

LEMMA ConnectionFacts ==
  ASSUME NEW g, IsConnection(g, Everyone)
  PROVE  /\ g.combined \in BOOLEAN /\ Len(g.parts) \in Nat /\ DOMAIN g.parts = 1..Len(g.parts)
         /\ ~g.combined => Len(g.parts) = 1
         /\ \A n \in DOMAIN g.parts :
              /\ g.parts[n].kind \in PartKinds
              /\ Len(g.parts[n].senders) \in Nat
              /\ DOMAIN g.parts[n].senders = 1..Len(g.parts[n].senders)
              /\ g.parts[n].kind = "simple" => Len(g.parts[n].senders) = 1
              /\ \A k \in DOMAIN g.parts[n].senders :
                   /\ g.parts[n].senders[k].kind \in Kinds
                   /\ g.parts[n].senders[k].to \in Everyone
<1> DEFINE Senders == [kind : Kinds, to : Everyone]
           Part == [kind : PartKinds, senders : Seq(Senders)]
<1>1. /\ g.combined \in BOOLEAN /\ g.parts \in Seq(Part)
      /\ ~g.combined => Len(g.parts) = 1
      /\ \A n \in DOMAIN g.parts : g.parts[n].kind = "simple" => Len(g.parts[n].senders) = 1
  BY DEF IsConnection
<1>2. \A x \in Senders : x.kind \in Kinds /\ x.to \in Everyone
  OBVIOUS
<1> HIDE DEF Senders
<1>3. \A x \in Part : x.kind \in PartKinds /\ x.senders \in Seq(Senders)
  OBVIOUS
<1> HIDE DEF Part
<1>4. Len(g.parts) \in Nat /\ DOMAIN g.parts = 1..Len(g.parts)
      /\ \A n \in DOMAIN g.parts : g.parts[n] \in Part
  BY <1>1
<1>5. \A l \in Seq(Senders) : Len(l) \in Nat /\ DOMAIN l = 1..Len(l)
                              /\ \A k \in DOMAIN l : l[k] \in Senders
  OBVIOUS
<1> QED
  BY <1>1, <1>2, <1>3, <1>4, <1>5

LEMMA CalledIsGood ==
  ASSUME NEW g, IsConnection(g, Everyone), NEW f \in Files
  PROVE  Called(g, f) \in CallsOn(g) /\ Good(Called(g, f))
<1> DEFINE c == Called(g, f)
<1>1. /\ c.conf = g /\ c.part = 1 /\ c.pos = 1 /\ c.tried = {} /\ c.worked = {}
      /\ c.outcome = "busy"
  BY DEF Called
<1>5. c \in CallsOn(g)
  <2>1. 1 \in Nat \ {0} /\ {} \in SUBSET Places
    OBVIOUS
  <2>2. "busy" \in Outcomes /\ f \in Files \cup {""}
    BY Zenon DEF Outcomes
  <2> QED
    BY <2>1, <2>2 DEF Called, CallsOn
<1> HIDE DEF c
<1>2. \A n \in DOMAIN g.parts : ~(n < 1)
  BY ConnectionFacts
<1>3. InPart(c) => RunsWell(c)
  <2> SUFFICES ASSUME InPart(c) PROVE RunsWell(c)
    OBVIOUS
  <2>1. 1 \in DOMAIN g.parts
    BY <1>1, ConnectionFacts DEF InPart
  <2> QED
    BY <1>1, <2>1, ConnectionFacts DEF RunsWell, Running
<1>4. Keeping(c)
  BY <1>1, <1>2, <1>3 DEF Keeping
<1> QED
  BY <1>1, <1>4, <1>5 DEF Good, c

(* The parts that are over do not change. *)
LEMMA OtherPartsStay ==
  ASSUME NEW c, NEW d, NEW n,
         d.conf = c.conf,
         \A k \in Nat : /\ <<n, k>> \in d.tried <=> <<n, k>> \in c.tried
                        /\ <<n, k>> \in d.worked <=> <<n, k>> \in c.worked
                        /\ <<n, k>> \in d.got <=> <<n, k>> \in c.got,
         DOMAIN c.conf.parts[n].senders \subseteq Nat
  PROVE  KeptPart(d, n) <=> KeptPart(c, n)
<1> DEFINE D == DOMAIN c.conf.parts[n].senders
           td == {k \in D : <<n, k>> \in d.tried}
           tc == {k \in D : <<n, k>> \in c.tried}
<1>1. td = tc
  OBVIOUS
<1>2. {l \in td : <<n, l>> \in d.worked} = {l \in tc : <<n, l>> \in c.worked}
  BY <1>1
<1>3. \A k \in tc : <<n, k>> \in d.got <=> <<n, k>> \in c.got
  OBVIOUS
<1> QED
  BY <1>1, <1>2, <1>3 DEF KeptPart

Kind(c) == Running(c).kind
GoesOn(c, e) == e.outcome = c.outcome /\ e.part = c.part /\ e.pos = c.pos + 1
PartIsOver(c, e) ==
  /\ e.outcome = IF c.conf.combined THEN "busy" ELSE "returned"
  /\ e.part = c.part + 1 /\ e.pos = 1
GivesUp(c, e) == e.outcome = "raised"

(* How the call goes on when its sender ends in r. *)
EndsAs(g, c, r, e) ==
  /\ e \in CallsOn(g) /\ e.file = c.file
  /\ e.tried = c.tried \cup {<<c.part, c.pos>>}
  /\ e.worked = IF r.returned THEN c.worked \cup {<<c.part, c.pos>>} ELSE c.worked
  /\ e.got = IF r.there = "whole" THEN c.got \cup {<<c.part, c.pos>>} ELSE c.got
  /\ \/ ((r.returned /\ Kind(c) = "all") \/ (~r.returned /\ Kind(c) # "simple")) /\ GoesOn(c, e)
     \/ r.returned /\ Kind(c) # "all" /\ PartIsOver(c, e)
     \/ ~r.returned /\ Kind(c) = "simple" /\ GivesUp(c, e)

LEMMA EndedCases ==
  ASSUME NEW g, NEW c \in CallsOn(g), NEW r
  PROVE  EndsAs(g, c, r, Ended(c, r))
<1> DEFINE e == Ended(c, r)
           here == {<<c.part, c.pos>>}
           w == IF r.returned THEN c.worked \cup here ELSE c.worked
           h == IF r.there = "whole" THEN c.got \cup here ELSE c.got
           d == [c EXCEPT !.tried = @ \cup here,
                          !.worked = IF r.returned THEN @ \cup here ELSE @,
                          !.got = IF r.there = "whole" THEN @ \cup here ELSE @]
<1> SUFFICES EndsAs(g, c, r, e)
  OBVIOUS
<1>0. c.part \in Nat \ {0} /\ c.pos \in Nat \ {0}
  BY DEF CallsOn
<1>1. c.part + 1 \in Nat \ {0} /\ c.pos + 1 \in Nat \ {0}
  BY <1>0
<1>7. here \subseteq Places
  BY <1>0 DEF Places
<1>2. /\ c.tried \cup here \subseteq Places /\ w \subseteq Places /\ h \subseteq Places
      /\ {"busy", "returned", "raised"} \subseteq Outcomes
  BY <1>7 DEF CallsOn, Outcomes
<1>3. /\ d \in CallsOn(g) /\ d.conf = c.conf /\ d.file = c.file /\ d.part = c.part /\ d.pos = c.pos
      /\ d.outcome = c.outcome /\ d.tried = c.tried \cup here /\ d.worked = w /\ d.got = h
  BY <1>1, <1>2 DEF CallsOn
<1>4. e = IF r.returned THEN SenderReturns(d) ELSE SenderRaises(d)
  BY DEF Ended
<1>5. Running(d) = Running(c)
  BY <1>3 DEF Running
<1> HIDE DEF d, h, w, here, e
<1>8. CASE (r.returned /\ Kind(c) = "all") \/ (~r.returned /\ Kind(c) # "simple")
  <2>1. e = [d EXCEPT !.pos = d.pos + 1]
    BY <1>4, <1>5, <1>8 DEF NextSender, SenderReturns, SenderRaises, Kind
  <2>2. e \in CallsOn(g)
    BY <1>1, <1>3, <2>1 DEF CallsOn
  <2>3. e.file = d.file /\ e.tried = d.tried /\ e.worked = d.worked /\ e.got = d.got
        /\ e.outcome = d.outcome /\ e.part = d.part /\ e.pos = d.pos + 1
    BY <1>3, <2>1 DEF CallsOn
  <2> QED
    BY <1>3, <1>8, <2>2, <2>3 DEF EndsAs, GoesOn, w, h, here
<1>9. CASE r.returned /\ Kind(c) # "all"
  <2> DEFINE o == IF d.conf.combined THEN "busy" ELSE "returned"
  <2>1. e = [d EXCEPT !.part = d.part + 1, !.pos = 1, !.outcome = o]
    BY <1>4, <1>5, <1>9 DEF PartReturns, SenderReturns, Kind
  <2>2. o \in Outcomes
    BY <1>2
  <2> HIDE DEF o
  <2>5. d.part + 1 \in Nat \ {0} /\ 1 \in Nat \ {0}
    BY <1>1, <1>3
  <2>3. e \in CallsOn(g)
    BY <1>3, <2>1, <2>2, <2>5 DEF CallsOn
  <2>4. e.file = d.file /\ e.tried = d.tried /\ e.worked = d.worked /\ e.got = d.got
        /\ e.outcome = o /\ e.part = d.part + 1 /\ e.pos = 1
    BY <1>3, <2>1 DEF CallsOn
  <2> QED
    BY <1>3, <1>9, <2>3, <2>4 DEF EndsAs, PartIsOver, o, w, h, here
<1>10. CASE ~r.returned /\ Kind(c) = "simple"
  <2>1. e = [d EXCEPT !.outcome = "raised"]
    BY <1>4, <1>5, <1>10 DEF PartRaises, SenderRaises, Kind
  <2>2. e \in CallsOn(g)
    BY <1>2, <1>3, <2>1 DEF CallsOn
  <2>3. e.file = d.file /\ e.tried = d.tried /\ e.worked = d.worked /\ e.got = d.got
        /\ e.outcome = "raised"
    BY <1>3, <2>1 DEF CallsOn
  <2> QED
    BY <1>3, <1>10, <2>2, <2>3 DEF EndsAs, GivesUp, w, h, here
<1> QED
  BY <1>8, <1>9, <1>10

LEMMA CallTypes ==
  ASSUME NEW g, NEW c \in CallsOn(g)
  PROVE  /\ c.conf = g /\ c.part \in Nat /\ c.part >= 1 /\ c.pos \in Nat /\ c.pos >= 1
         /\ c.tried \subseteq Places /\ c.worked \subseteq Places /\ c.got \subseteq Places
<1>1. c.conf = g /\ c.part \in Nat \ {0} /\ c.pos \in Nat \ {0}
      /\ c.tried \subseteq Places /\ c.worked \subseteq Places /\ c.got \subseteq Places
  BY DEF CallsOn
<1> QED
  BY <1>1

(* The sender that is called is one of the list of the running part. *)
LEMMA InSenderFacts ==
  ASSUME NEW g, IsConnection(g, Everyone), NEW c \in CallsOn(g), InSender(c)
  PROVE  /\ c.outcome = "busy" /\ InPart(c)
         /\ c.part \in DOMAIN g.parts /\ c.pos \in DOMAIN g.parts[c.part].senders
         /\ Running(c) = g.parts[c.part] /\ Sender(c) = g.parts[c.part].senders[c.pos]
         /\ Sender(c).kind \in Kinds /\ Sender(c).to \in Everyone
<1>1. /\ c.outcome = "busy" /\ InPart(c) /\ Running(c) = g.parts[c.part]
      /\ Sender(c) = g.parts[c.part].senders[c.pos]
      /\ c.part <= Len(g.parts) /\ c.pos <= Len(g.parts[c.part].senders)
  BY CallTypes DEF InSender, InPart, Running, Sender
<1>2. c.part \in DOMAIN g.parts
  BY <1>1, CallTypes, ConnectionFacts
<1>3. c.pos \in DOMAIN g.parts[c.part].senders
  BY <1>1, <1>2, CallTypes, ConnectionFacts
<1> QED
  BY <1>1, <1>2, <1>3, ConnectionFacts

(* A part that is over and kept its promise. *)
LEMMA PartOverIsGood ==
  ASSUME NEW g, IsConnection(g, Everyone), NEW c \in CallsOn(g), Good(c), InPart(c),
         NEW e \in CallsOn(g), PartIsOver(c, e), e.worked \subseteq e.tried,
         \A n, k \in Nat : n # c.part =>
           /\ <<n, k>> \in e.tried <=> <<n, k>> \in c.tried
           /\ <<n, k>> \in e.worked <=> <<n, k>> \in c.worked
           /\ <<n, k>> \in e.got <=> <<n, k>> \in c.got,
         KeptPart(e, c.part)
  PROVE  Good(e)
<1>1. /\ c.conf = g /\ e.conf = g /\ c.outcome = "busy" /\ Keeping(c) /\ c.part \in DOMAIN g.parts
      /\ e.part = c.part + 1 /\ e.pos = 1
      /\ e.outcome = IF g.combined THEN "busy" ELSE "returned"
  <2>1. c.conf = g /\ e.conf = g /\ c.outcome = "busy" /\ c.part <= Len(g.parts)
    BY CallTypes DEF InPart
  <2>2. c.part \in DOMAIN g.parts
    BY <2>1, CallTypes, ConnectionFacts
  <2> QED
    BY <2>1, <2>2 DEF PartIsOver, Good
<1>2. ASSUME NEW n \in DOMAIN g.parts, n # c.part
      PROVE  /\ KeptPart(e, n) <=> KeptPart(c, n)
             /\ \A k \in Nat : <<n, k>> \in e.tried <=> <<n, k>> \in c.tried
  <2>1. n \in Nat /\ DOMAIN g.parts[n].senders \subseteq Nat
    BY ConnectionFacts
  <2> QED
    BY <1>1, <1>2, <2>1, OtherPartsStay
<1>3. CASE g.combined
  <2>1. \A n \in DOMAIN g.parts : n < e.part => KeptPart(e, n)
    <3> SUFFICES ASSUME NEW n \in DOMAIN g.parts, n < e.part PROVE KeptPart(e, n)
      OBVIOUS
    <3>1. n = c.part \/ (n < c.part /\ n # c.part)
      BY <1>1, ConnectionFacts, CallTypes
    <3> QED
      BY <1>1, <1>2, <3>1 DEF Keeping
  <2>2. \A n \in DOMAIN g.parts : n > c.part => \A k \in Nat : <<n, k>> \notin e.tried
    <3> SUFFICES ASSUME NEW n \in DOMAIN g.parts, n > c.part
                 PROVE  \A k \in Nat : <<n, k>> \notin e.tried
      OBVIOUS
    <3>1. n # c.part
      BY CallTypes, ConnectionFacts
    <3> QED
      BY <1>1, <1>2, <3>1 DEF Keeping
  <2>3. InPart(e) => RunsWell(e)
    <3> SUFFICES ASSUME InPart(e) PROVE RunsWell(e)
      OBVIOUS
    <3>1. e.part \in DOMAIN g.parts /\ e.part > c.part
      BY <1>1, ConnectionFacts, CallTypes DEF InPart
    <3>2. \A k \in Nat : <<e.part, k>> \notin e.tried /\ <<e.part, k>> \notin e.worked
      BY <2>2, <3>1
    <3>3. e.pos <= Len(Running(e).senders) + 1
      BY <1>1, <3>1, ConnectionFacts DEF Running
    <3> QED
      BY <1>1, <3>2, <3>3 DEF RunsWell
  <2>4. \A n \in DOMAIN g.parts : n > e.part => n > c.part
    BY <1>1, ConnectionFacts, CallTypes
  <2>5. Keeping(e)
    BY <1>1, <1>3, <2>1, <2>2, <2>3, <2>4 DEF Keeping
  <2> QED
    BY <1>1, <1>3, <2>5 DEF Good
<1>4. CASE ~g.combined
  <2>1. DOMAIN g.parts = {c.part}
    BY <1>1, <1>4, ConnectionFacts DEF Keeping
  <2> QED
    BY <1>1, <1>4, <2>1 DEF Good, KeptPromise
<1> QED
  BY <1>3, <1>4

LEMMA EndedIsGood ==
  ASSUME NEW g, IsConnection(g, Everyone), NEW c \in CallsOn(g), Good(c), InSender(c),
         NEW r, Possible(r, Sender(c).kind)
  PROVE  Good(Ended(c, r))
<1> SUFFICES ASSUME NEW e, e = Ended(c, r) PROVE Good(e)
  OBVIOUS
<1> DEFINE S == g.parts[c.part].senders
           here == <<c.part, c.pos>>
<1>0. EndsAs(g, c, r, e)
  BY EndedCases
<1> HIDE DEF here
<1>1. /\ c.conf = g /\ c.outcome = "busy" /\ InPart(c) /\ Keeping(c) /\ RunsWell(c)
      /\ Running(c) = g.parts[c.part] /\ c.part \in DOMAIN g.parts /\ c.pos \in DOMAIN S
      /\ Kind(c) \in PartKinds
  BY InSenderFacts, CallTypes, ConnectionFacts DEF Good, Keeping, Kind
<1>2. e \in CallsOn(g) /\ e.conf = g /\ e.worked \subseteq e.tried
      /\ \A n, k \in Nat : n # c.part \/ k # c.pos =>
           /\ <<n, k>> \in e.tried <=> <<n, k>> \in c.tried
           /\ <<n, k>> \in e.worked <=> <<n, k>> \in c.worked
           /\ <<n, k>> \in e.got <=> <<n, k>> \in c.got
      /\ here \in e.tried
  <2>1. e \in CallsOn(g) /\ e.conf = g
    BY <1>0, CallTypes DEF EndsAs
  <2>2. /\ e.tried = c.tried \cup {here}
        /\ e.worked = c.worked \/ e.worked = c.worked \cup {here}
        /\ e.got = c.got \/ e.got = c.got \cup {here}
    BY <1>0 DEF EndsAs, here
  <2>3. e.worked \subseteq e.tried
    BY <2>2 DEF Good
  <2>4. \A n, k \in Nat : n # c.part \/ k # c.pos => <<n, k>> # here
    BY DEF here
  <2> QED
    BY <2>1, <2>2, <2>3, <2>4
<1>3. ASSUME NEW n \in DOMAIN g.parts, n # c.part
      PROVE  /\ KeptPart(e, n) <=> KeptPart(c, n)
             /\ \A k \in Nat : <<n, k>> \in e.tried <=> <<n, k>> \in c.tried
  <2>1. n \in Nat /\ DOMAIN g.parts[n].senders \subseteq Nat
    BY ConnectionFacts
  <2> QED
    BY <1>1, <1>2, <1>3, <2>1, OtherPartsStay
<1>11. here \in e.tried
  BY <1>0 DEF EndsAs, here
<1>12. ASSUME NEW k \in Nat PROVE <<c.part, k>> \in e.tried <=> k \in 1..c.pos
  <2>1. CASE k = c.pos
    <3>1. <<c.part, k>> = here /\ k \in 1..c.pos
      BY <2>1, CallTypes DEF here
    <3> QED
      BY <1>11, <3>1
  <2>2. CASE k # c.pos
    <3>1. <<c.part, k>> \in e.tried <=> k \in 1..(c.pos - 1)
      BY <1>1, <1>2, <2>2, CallTypes DEF RunsWell
    <3> QED
      BY <2>2, <3>1, CallTypes
  <2> QED
    BY <2>1, <2>2
<1>4. CASE GoesOn(c, e) /\ ((r.returned /\ Kind(c) = "all") \/ (~r.returned /\ Kind(c) # "simple"))
  <2>1. e.outcome = "busy" /\ e.part = c.part /\ e.pos = c.pos + 1 /\ Running(e) = Running(c)
    BY <1>1, <1>2, <1>4 DEF GoesOn, Running
  <2>2. \A k \in Nat : <<e.part, k>> \in e.tried <=> k \in 1..(e.pos - 1)
    BY <1>12, <2>1, CallTypes
  <2>3. Kind(c) # "all" => e.worked = c.worked
    BY <1>0, <1>4 DEF EndsAs
  <2>4. Kind(c) # "all" => \A k \in Nat : <<e.part, k>> \notin e.worked
    BY <1>1, <2>1, <2>3 DEF RunsWell, Kind
  <2>5. e.pos <= Len(S) + 1
    BY <1>1, <2>1, ConnectionFacts, CallTypes
  <2>6. Kind(c) # "simple"
    BY <1>4
  <2>7. RunsWell(e)
    BY <1>1, <2>1, <2>2, <2>4, <2>5, <2>6 DEF RunsWell, Kind
  <2>8. Keeping(e)
    BY SMTT(40), <1>1, <1>2, <1>3, <2>1, <2>7, ConnectionFacts, CallTypes DEF Keeping
  <2> QED
    BY <1>2, <2>1, <2>8 DEF Good
<1>5. CASE PartIsOver(c, e) /\ r.returned /\ Kind(c) # "all"
  <2>1. e.part = c.part + 1 /\ e.pos = 1
        /\ e.outcome = IF g.combined THEN "busy" ELSE "returned"
    BY <1>1, <1>5 DEF PartIsOver
  <2>2. KeptPart(e, c.part)
    <3> DEFINE tried == {k \in DOMAIN S : <<c.part, k>> \in e.tried}
               Delivered(k) == <<c.part, k>> \in e.got \/ S[k].kind \in MayWithhold
    <3>1. c.pos \in tried
      BY <1>1, <1>11 DEF here
    <3>2. tried = 1..c.pos
      <4>1. DOMAIN S = 1..Len(S) /\ Len(S) \in Nat
        BY <1>1, ConnectionFacts
      <4>2. c.pos <= Len(S)
        BY <1>1, <4>1, CallTypes
      <4> QED
        BY <1>12, <4>1, <4>2, CallTypes
    <3>3. Delivered(c.pos)
      BY <1>0, <1>1, <1>5, InSenderFacts DEF EndsAs, Possible, here
    <3>4. {l \in tried : <<c.part, l>> \in e.worked} = {c.pos}
      <4>1. e.worked = c.worked \cup {here}
        BY <1>0, <1>5 DEF EndsAs, here
      <4>2. \A l \in tried : <<c.part, l>> \notin c.worked
        BY <1>1, <1>5, ConnectionFacts DEF RunsWell, Kind
      <4> QED
        BY <3>1, <4>1, <4>2 DEF here
    <3>5. g.parts[c.part].kind # "all"
      BY <1>1, <1>5 DEF Kind
    <3> QED
      BY <1>2, <3>1, <3>2, <3>3, <3>4, <3>5 DEF KeptPart
  <2> QED
    BY <1>1, <1>2, <1>5, <2>2, PartOverIsGood
<1>6. CASE GivesUp(c, e)
  BY <1>2, <1>6 DEF GivesUp, Good
<1> QED
  BY <1>0, <1>4, <1>5, <1>6 DEF EndsAs

IsAfter(g, c, e) == e \in CallsOn(g) /\ e.file = c.file /\ Good(e)

(* The list of the running part is over. *)
LEMMA ExhaustedIsGood ==
  ASSUME NEW g, IsConnection(g, Everyone), NEW c \in CallsOn(g), Good(c),
         InPart(c), ~InSender(c)
  PROVE  /\ IsAfter(g, c, SendersExhausted(c))
         /\ c.part \in DOMAIN g.parts /\ c.pos = Len(g.parts[c.part].senders) + 1
<1> SUFFICES ASSUME NEW e, e = SendersExhausted(c)
             PROVE  /\ e \in CallsOn(g) /\ e.file = c.file /\ Good(e)
                    /\ c.part \in DOMAIN g.parts /\ c.pos = Len(g.parts[c.part].senders) + 1
  BY DEF IsAfter
<1> DEFINE S == g.parts[c.part].senders
<1>1. /\ c.conf = g /\ c.outcome = "busy" /\ Keeping(c) /\ RunsWell(c) /\ c.part <= Len(g.parts)
      /\ Running(c) = g.parts[c.part]
  BY CallTypes DEF InPart, Good, Keeping, Running
<1>2. c.part \in DOMAIN g.parts
  BY <1>1, CallTypes, ConnectionFacts
<1>3. Len(S) \in Nat /\ DOMAIN S = 1..Len(S) /\ (Kind(c) = "simple" => Len(S) = 1)
      /\ Kind(c) \in PartKinds
  BY <1>1, <1>2, ConnectionFacts DEF Kind
<1>4. ~(c.pos <= Len(S)) /\ c.pos <= Len(S) + 1
  BY <1>1 DEF InSender, RunsWell
<1>5. c.pos = Len(S) + 1
  BY SMTT(40), <1>3, <1>4, CallTypes
<1>6. Kind(c) # "simple"
  <2> SUFFICES ASSUME Kind(c) = "simple" PROVE FALSE
    OBVIOUS
  <2>1. c.pos = 1
    BY <1>1 DEF RunsWell, Kind
  <2>2. Len(S) = 1
    BY <1>3
  <2> QED
    BY <1>4, <2>1, <2>2
<1>7. CASE Kind(c) = "failover"
  <2>1. e = [c EXCEPT !.outcome = "raised"]
    BY <1>7 DEF SendersExhausted, PartRaises, Kind
  <2>2. "raised" \in Outcomes
    BY DEF Outcomes
  <2>3. e \in CallsOn(g) /\ e.file = c.file /\ e.outcome = "raised"
        /\ e.worked = c.worked /\ e.tried = c.tried
    BY <2>1, <2>2 DEF CallsOn
  <2> QED
    BY <1>2, <1>5, <2>3 DEF Good
<1>8. CASE Kind(c) = "all"
  <2> DEFINE o == IF g.combined THEN "busy" ELSE "returned"
  <2>1. e = [c EXCEPT !.part = c.part + 1, !.pos = 1, !.outcome = o]
    BY <1>1, <1>8 DEF SendersExhausted, PartReturns, Kind
  <2>2. o \in Outcomes
    BY DEF Outcomes
  <2> HIDE DEF o
  <2>3. c.part + 1 \in Nat \ {0} /\ 1 \in Nat \ {0}
    BY CallTypes
  <2>4. e \in CallsOn(g) /\ e.conf = g
    BY <2>1, <2>2, <2>3 DEF CallsOn
  <2>5. e.file = c.file /\ e.worked = c.worked /\ e.tried = c.tried /\ e.got = c.got
        /\ e.part = c.part + 1 /\ e.pos = 1 /\ e.outcome = o
    BY <2>1 DEF CallsOn
  <2>6. {k \in DOMAIN S : <<c.part, k>> \in e.tried} = DOMAIN S
    BY <1>1, <1>3, <1>5, <2>5 DEF RunsWell
  <2>7. KeptPart(e, c.part)
    BY <1>1, <1>8, <2>4, <2>6 DEF KeptPart, Kind
  <2>8. PartIsOver(c, e)
    BY <1>1, <2>5 DEF PartIsOver, o
  <2>9. e.worked \subseteq e.tried
    BY <2>5 DEF Good
  <2>10. Good(e)
    BY <2>4, <2>5, <2>7, <2>8, <2>9, PartOverIsGood
  <2> QED
    BY <1>2, <1>5, <2>4, <2>5, <2>10
<1> QED
  BY <1>3, <1>6, <1>7, <1>8 DEF PartKinds

(* The parts of a combined connection are over. *)
LEMMA CombinedIsGood ==
  ASSUME NEW g, IsConnection(g, Everyone), NEW c \in CallsOn(g), Good(c),
         c.outcome = "busy", ~InPart(c)
  PROVE  IsAfter(g, c, CombinedReturns(c)) /\ g.combined
<1> SUFFICES ASSUME NEW e, e = CombinedReturns(c)
             PROVE  e \in CallsOn(g) /\ e.file = c.file /\ Good(e) /\ g.combined
  BY DEF IsAfter
<1>1. c.conf = g /\ Keeping(c) /\ ~(c.part <= Len(g.parts))
  BY CallTypes DEF InPart, Good
<1>2. g.combined
  <2> SUFFICES ASSUME ~g.combined PROVE FALSE
    OBVIOUS
  <2>1. c.part = 1
    BY <1>1 DEF Keeping
  <2>2. Len(g.parts) = 1
    BY ConnectionFacts
  <2> QED
    BY <1>1, <2>1, <2>2
<1>3. e = [c EXCEPT !.outcome = "returned"] /\ "returned" \in Outcomes
  BY DEF CombinedReturns, Outcomes
<1>4. e \in CallsOn(g) /\ e.conf = g /\ e.file = c.file /\ e.outcome = "returned"
      /\ e.worked = c.worked /\ e.tried = c.tried /\ e.got = c.got
  BY <1>1, <1>3 DEF CallsOn
<1>5. \A n \in DOMAIN g.parts : n < c.part /\ DOMAIN g.parts[n].senders \subseteq Nat
  BY <1>1, ConnectionFacts, CallTypes
<1>6. \A n \in DOMAIN g.parts : KeptPart(e, n)
  BY <1>1, <1>4, <1>5, OtherPartsStay DEF Keeping
<1> QED
  BY <1>2, <1>4, <1>6 DEF Good, KeptPromise

----------------------------------------------------------------------------
(* The state of the servers.                                               *)

Wanted(n, p) == Files \cap pubs[n][p].filter
Known(n) == {handled[n][i] : i \in DOMAIN handled[n]}

SetupInv ==
  /\ net \in Networks
  /\ DOMAIN subs = Nodes /\ DOMAIN pubs = Nodes
  /\ \A n \in Nodes :
       /\ IsFiniteSet(DOMAIN subs[n])
       /\ DOMAIN pubs[n] \subseteq 1..MaxPublications
       /\ \A p \in DOMAIN pubs[n] : IsConnection(pubs[n][p].connection, Everyone)

(* What the servers hold: a queue only what its publication lets pass, and *)
(* the runners will find what they would at the start.                     *)
StoreInv ==
  /\ restarts \in Nat
  /\ handled \in [Nodes -> Seq(Files)] /\ taken \in [Nodes -> SUBSET Files]
  /\ incoming \in [Nodes -> SUBSET Files] /\ \A n \in Nodes : incoming[n] \subseteq net.incoming[n]
  /\ DOMAIN queues = Nodes
  /\ \A n \in Nodes : DOMAIN queues[n] = DOMAIN pubs[n]
  /\ \A n \in Nodes : \A p \in DOMAIN pubs[n] : queues[n][p] \in Seq(Wanted(n, p))

CallInv(n, p, c) ==
  /\ c \in CallsOn(pubs[n][p].connection) /\ Good(c)
  /\ c.outcome # "idle" => c.file \in Wanted(n, p)

CallsInv ==
  /\ DOMAIN calls = Nodes
  /\ \A n \in Nodes : DOMAIN calls[n] = DOMAIN pubs[n]
  /\ \A n \in Nodes : \A p \in DOMAIN pubs[n] : CallInv(n, p, calls[n][p])

NetworkInv == SetupInv /\ StoreInv /\ CallsInv

LEMMA NetFacts ==
  ASSUME SetupInv
  PROVE  /\ net.limit \in Nat \ {0} /\ net.queue \in Nat \ {0} /\ net.restarts \in Nat
         /\ net.incoming \in [Nodes -> SUBSET Files] /\ net.lossy \in BOOLEAN
         /\ IsFiniteSet(Files) /\ Cardinality(Files) \in Nat
         /\ \A n \in Nodes : Cardinality(DOMAIN subs[n]) \in Nat
BY NetworkAssumption, FS_CardinalityType DEF SetupInv, NetworkAssumption

(* What is put into a queue goes behind what is there, what finds no room  *)
(* is dropped.                                                             *)
LEMMA QueuedFacts ==
  ASSUME SetupInv, NEW S, NEW q \in Seq(S), NEW f, NEW t \in Nat, t = 0 \/ f \in S
  PROVE  /\ Queued(q, f, t) \in Seq(S)
         /\ Len(Queued(q, f, t)) <= Len(q) + t
         /\ Len(q) + t <= net.queue =>
              /\ Len(Queued(q, f, t)) = Len(q) + t
              /\ \A i \in DOMAIN q : i \in DOMAIN Queued(q, f, t) /\ Queued(q, f, t)[i] = q[i]
              /\ t > 0 => \E i \in DOMAIN Queued(q, f, t) : Queued(q, f, t)[i] = f
<1> DEFINE more == [i \in 1..t |-> f]
           all == q \o more
           l == IF Len(all) < net.queue THEN Len(all) ELSE net.queue
<1>1. more \in Seq(S) /\ Len(more) = t
  <2>1. \A i \in 1..t : f \in S
    OBVIOUS
  <2> QED
    BY <2>1
<1>2. all \in Seq(S) /\ Len(all) = Len(q) + t
  BY <1>1
<1>3. l \in 0..Len(all) /\ (Len(q) + t <= net.queue => l = Len(all))
  BY <1>2, NetFacts
<1>4. Queued(q, f, t) = SubSeq(all, 1, l)
  BY DEF Queued
<1>5. \A i \in 1..Len(all) : all[i] = IF i <= Len(q) THEN q[i] ELSE f
  BY <1>1, <1>2
<1> HIDE DEF all, l
<1>6. SubSeq(all, 1, l) \in Seq(S) /\ Len(SubSeq(all, 1, l)) = l
      /\ \A i \in 1..l : SubSeq(all, 1, l)[i] = all[i]
  BY <1>2, <1>3, SubSeqProperties
<1>7. ASSUME Len(q) + t <= net.queue
      PROVE  /\ Len(Queued(q, f, t)) = Len(q) + t
             /\ \A i \in DOMAIN q : i \in DOMAIN Queued(q, f, t) /\ Queued(q, f, t)[i] = q[i]
             /\ t > 0 => \E i \in DOMAIN Queued(q, f, t) : Queued(q, f, t)[i] = f
  <2>1. DOMAIN Queued(q, f, t) = 1..(Len(q) + t) /\ Len(Queued(q, f, t)) = Len(q) + t
    BY <1>2, <1>3, <1>4, <1>6, <1>7
  <2>2. \A i \in 1..(Len(q) + t) : Queued(q, f, t)[i] = IF i <= Len(q) THEN q[i] ELSE f
    BY <1>2, <1>3, <1>4, <1>5, <1>6, <1>7
  <2>3. t > 0 => Len(q) + 1 \in 1..(Len(q) + t) /\ Queued(q, f, t)[Len(q) + 1] = f
    BY <2>2
  <2> QED
    BY <2>1, <2>2, <2>3
<1> QED
  BY <1>2, <1>3, <1>4, <1>6, <1>7

LEMMA TimesFacts ==
  ASSUME SetupInv, NEW n \in Nodes, NEW p \in DOMAIN pubs[n], NEW f \in Files,
         NEW T \in SUBSET DOMAIN subs[n]
  PROVE  /\ Times(n, p, T, f) \in Nat
         /\ Times(n, p, T, f) = 0 \/ f \in Wanted(n, p)
         /\ Times(n, p, T, f) <= Cardinality(DOMAIN subs[n])
         /\ T = {} => Times(n, p, T, f) = 0
         /\ T # {} /\ f \in pubs[n][p].filter /\ pubs[n][p].origin = {} => Times(n, p, T, f) > 0
<1> DEFINE X == {s \in T : pubs[n][p].origin = {} \/ s \in pubs[n][p].origin}
<1>1. IsFiniteSet(DOMAIN subs[n]) /\ X \subseteq DOMAIN subs[n]
  BY DEF SetupInv
<1>2. IsFiniteSet(X) /\ Cardinality(X) <= Cardinality(DOMAIN subs[n]) /\ Cardinality(X) \in Nat
      /\ Cardinality(DOMAIN subs[n]) \in Nat
  BY <1>1, FS_Subset, FS_CardinalityType
<1>3. Cardinality(X) = 0 <=> X = {}
  BY <1>2, FS_EmptySet
<1>4. Times(n, p, T, f) = IF f \in pubs[n][p].filter THEN Cardinality(X) ELSE 0
  BY DEF Times
<1>5. pubs[n][p].origin = {} => X = T
  OBVIOUS
<1>6. T = {} => X = {}
  OBVIOUS
<1> HIDE DEF X
<1> QED
  BY <1>2, <1>3, <1>4, <1>5, <1>6 DEF Wanted

LEMMA AddedFacts ==
  ASSUME SetupInv, StoreInv, NEW n \in Nodes, NEW f \in Files
  PROVE  /\ Added(n, f) \in Seq(Files)
         /\ Len(handled[n]) < net.limit =>
              /\ Len(Added(n, f)) = Len(handled[n]) + 1
              /\ {Added(n, f)[i] : i \in DOMAIN Added(n, f)} = Known(n) \cup {f}
<1> DEFINE h == handled[n]
           all == <<f>> \o h
           l == IF Len(h) < net.limit THEN Len(h) + 1 ELSE net.limit
<1>1. h \in Seq(Files) /\ all \in Seq(Files) /\ Len(all) = Len(h) + 1 /\ Len(h) \in Nat
  BY DEF StoreInv
<1>2. l \in 0..Len(all)
  BY <1>1, NetFacts
<1>3. Added(n, f) = SubSeq(all, 1, l)
  BY DEF Added
<1>4. \A i \in 1..Len(all) : all[i] = IF i = 1 THEN f ELSE h[i - 1]
  BY <1>1
<1> HIDE DEF all
<1>5. SubSeq(all, 1, l) \in Seq(Files) /\ Len(SubSeq(all, 1, l)) = l
      /\ \A i \in 1..l : SubSeq(all, 1, l)[i] = all[i]
  BY <1>1, <1>2, SubSeqProperties
<1>6. ASSUME Len(h) < net.limit
      PROVE  /\ Len(Added(n, f)) = Len(h) + 1
             /\ {Added(n, f)[i] : i \in DOMAIN Added(n, f)} = Known(n) \cup {f}
  <2>1. l = Len(h) + 1
    BY <1>6
  <2>2. DOMAIN Added(n, f) = 1..(Len(h) + 1) /\ Len(Added(n, f)) = Len(h) + 1
    BY <1>1, <1>3, <1>5, <2>1
  <2>3. \A i \in 1..(Len(h) + 1) : Added(n, f)[i] = IF i = 1 THEN f ELSE h[i - 1]
    BY <1>1, <1>3, <1>4, <1>5, <2>1
  <2>4. DOMAIN h = 1..Len(h)
    BY <1>1
  <2>5. ASSUME NEW i \in 1..(Len(h) + 1) PROVE Added(n, f)[i] \in Known(n) \cup {f}
    <3>1. i # 1 => i - 1 \in DOMAIN h
      BY <1>1, <2>4
    <3> QED
      BY <2>3, <3>1 DEF Known
  <2>6. ASSUME NEW i \in DOMAIN h PROVE i + 1 \in 1..(Len(h) + 1) /\ Added(n, f)[i + 1] = h[i]
    BY <1>1, <2>3, <2>4
  <2>7. 1 \in 1..(Len(h) + 1) /\ Added(n, f)[1] = f
    BY <1>1, <2>3
  <2> QED
    BY <2>2, <2>5, <2>6, <2>7 DEF Known
<1> QED
  BY <1>3, <1>5, <1>6

(* Only StoreFile changes what a server holds: how, and that it is right.  *)
LEMMA TakersFacts ==
  ASSUME SetupInv, NEW n \in Nodes, NEW nid, NEW f
  PROVE  Takers(n, nid, f) \in SUBSET DOMAIN subs[n]
BY DEF Takers

LEMMA StoreKeepsInv ==
  ASSUME SetupInv, StoreInv, NEW n \in Nodes, NEW nid, NEW f \in Files,
         StoreFile(n, nid, f), setup' = setup, restarts' \in Nat,
         \A m \in Nodes : incoming'[m] \subseteq incoming[m], incoming' \in [Nodes -> SUBSET Files]
  PROVE  StoreInv'
<1> DEFINE T == Takers(n, nid, f)
<1>1. net' = net /\ pubs' = pubs /\ T \in SUBSET DOMAIN subs[n]
  BY TakersFacts DEF setup
<1>2. handled' \in [Nodes -> Seq(Files)]
  BY AddedFacts DEF StoreFile, StoreInv
<1>3. taken' \in [Nodes -> SUBSET Files]
  BY DEF StoreFile, StoreInv
<1>4. /\ DOMAIN queues' = Nodes
      /\ \A m \in Nodes : m # n => queues'[m] = queues[m]
      /\ queues'[n] = [p \in DOMAIN queues[n] |-> Queued(queues[n][p], f, Times(n, p, T, f))]
  BY DEF StoreFile, StoreInv
<1> HIDE DEF T
<1>5. ASSUME NEW m \in Nodes, NEW p \in DOMAIN pubs[m]
      PROVE  /\ DOMAIN queues'[m] = DOMAIN pubs[m] /\ queues'[m][p] \in Seq(Wanted(m, p))
  <2>1. CASE m # n
    BY <1>4, <2>1 DEF StoreInv
  <2>2. CASE m = n
    <3> DEFINE t == Times(n, p, T, f)
    <3>1. t \in Nat /\ (t = 0 \/ f \in Wanted(n, p))
      BY <1>1, <2>2, TimesFacts
    <3>2. queues[n][p] \in Seq(Wanted(n, p)) /\ DOMAIN queues[n] = DOMAIN pubs[n]
      BY <2>2 DEF StoreInv
    <3> HIDE DEF t
    <3>3. Queued(queues[n][p], f, t) \in Seq(Wanted(n, p))
      BY <3>1, <3>2, QueuedFacts
    <3> QED
      BY <1>4, <2>2, <3>2, <3>3 DEF t
  <2> QED
    BY <2>1, <2>2
<1>6. \A m \in Nodes : DOMAIN queues'[m] = DOMAIN pubs[m]
  BY <1>4 DEF StoreInv
<1>7. \A m \in Nodes : incoming'[m] \subseteq net.incoming[m]
  BY DEF StoreInv
<1>8. \A m, p : Wanted(m, p)' = Wanted(m, p)
  BY <1>1 DEF Wanted
<1> QED
  BY <1>1, <1>2, <1>3, <1>4, <1>5, <1>6, <1>7, <1>8 DEF StoreInv

LEMMA SetupStays ==
  ASSUME SetupInv, setup' = setup
  PROVE  SetupInv'
BY DEF SetupInv, setup

(* One consumer goes on. *)
LEMMA CallKeepsInv ==
  ASSUME SetupInv, CallsInv, setup' = setup, NEW n \in Nodes, NEW p \in DOMAIN pubs[n],
         NEW d, CallInv(n, p, d), calls' = [calls EXCEPT ![n][p] = d]
  PROVE  /\ CallsInv' /\ calls'[n][p] = d
         /\ \A m \in Nodes : \A q \in DOMAIN pubs[m] :
              m # n \/ q # p => calls'[m][q] = calls[m][q]
<1>1. pubs' = pubs
  BY DEF setup
<1>2. DOMAIN calls' = Nodes /\ \A m \in Nodes : DOMAIN calls'[m] = DOMAIN pubs[m]
  BY DEF CallsInv
<1>3. calls'[n][p] = d
  BY DEF CallsInv
<1>4. \A m \in Nodes : \A q \in DOMAIN pubs[m] :
        m # n \/ q # p => calls'[m][q] = calls[m][q]
  BY DEF CallsInv
<1>5. \A m \in Nodes : \A q \in DOMAIN pubs[m] : CallInv(m, q, calls'[m][q])
  BY <1>3, <1>4 DEF CallsInv
<1> QED
  BY <1>1, <1>2, <1>3, <1>4, <1>5 DEF CallsInv, CallInv, Wanted

LEMMA CallsStay ==
  ASSUME CallsInv, setup' = setup, calls' = calls
  PROVE  CallsInv'
BY DEF CallsInv, CallInv, Wanted, setup

LEMMA InitSetup ==
  Init => SetupInv
<1> SUFFICES ASSUME Init PROVE SetupInv
  OBVIOUS
<1>1. net \in Networks /\ DOMAIN subs = Nodes /\ DOMAIN pubs = Nodes
  BY DEF Init
<1>2. ASSUME NEW n \in Nodes
      PROVE  /\ IsFiniteSet(DOMAIN subs[n])
             /\ DOMAIN pubs[n] \subseteq 1..MaxPublications
             /\ \A p \in DOMAIN pubs[n] : IsConnection(pubs[n][p].connection, Everyone)
  <2> DEFINE S == [i \in DOMAIN net.subscriptions[n] |->
                     SubscriptionFromConf(ProvidersOf(n), net.subscriptions[n][i])]
             P == [i \in DOMAIN net.publications[n] |->
                     PublicationFromConf(net.publications[n][i])]
  <2>1. subs[n] = Made(S) /\ pubs[n] = Made(P)
    BY DEF Init
  <2>2. /\ IsFiniteSet(DOMAIN net.subscriptions[n])
        /\ DOMAIN net.publications[n] \subseteq 1..MaxPublications
        /\ \A i \in DOMAIN net.publications[n] :
             IsConnection(ConnectionFromConf(net.publications[n][i].connection), Everyone)
    BY <1>1, NetworkAssumption DEF NetworkAssumption, Everyone
  <2>3. DOMAIN S = DOMAIN net.subscriptions[n] /\ DOMAIN P = DOMAIN net.publications[n]
        /\ \A i \in DOMAIN P : P[i] = PublicationFromConf(net.publications[n][i])
    OBVIOUS
  <2> HIDE DEF S, P
  <2>4. DOMAIN subs[n] \subseteq DOMAIN S /\ DOMAIN pubs[n] \subseteq DOMAIN P
    BY <2>1 DEF Made
  <2>5. IsFiniteSet(DOMAIN subs[n])
    BY <2>2, <2>3, <2>4, FS_Subset
  <2>6. ASSUME NEW p \in DOMAIN pubs[n] PROVE IsConnection(pubs[n][p].connection, Everyone)
    <3>1. p \in DOMAIN P /\ P[p] # <<>> /\ pubs[n][p] = P[p][1]
      BY <2>1, <2>6 DEF Made
    <3>2. pubs[n][p].connection = ConnectionFromConf(net.publications[n][p].connection)
      <4> DEFINE conf == net.publications[n][p]
                 made == [origin |-> conf.origin, filter |-> conf.filter,
                          connection |-> ConnectionFromConf(conf.connection)]
      <4>1. P[p] = <<made>>
        BY <2>3, <3>1 DEF PublicationFromConf
      <4>2. made.connection = ConnectionFromConf(conf.connection)
        OBVIOUS
      <4> HIDE DEF made
      <4>3. pubs[n][p] = made
        BY <3>1, <4>1
      <4> QED
        BY <4>2, <4>3
    <3> QED
      BY <2>2, <2>3, <3>1, <3>2
  <2> QED
    BY <2>2, <2>3, <2>4, <2>5, <2>6
<1> QED
  BY <1>1, <1>2 DEF SetupInv

LEMMA IdleIsGood ==
  ASSUME NEW g
  PROVE  LET c == [Called(g, "") EXCEPT !.outcome = "idle"]
         IN c \in CallsOn(g) /\ Good(c) /\ c.outcome = "idle"
<1> DEFINE d == Called(g, "")
<1>1. 1 \in Nat \ {0} /\ {} \in SUBSET Places
  OBVIOUS
<1>2. {"busy", "idle"} \subseteq Outcomes /\ "" \in Files \cup {""}
  BY Zenon DEF Outcomes
<1>3. d \in CallsOn(g) /\ d.worked = {} /\ d.tried = {}
  BY <1>1, <1>2 DEF Called, CallsOn
<1> HIDE DEF d
<1> SUFFICES ASSUME NEW c, c = [d EXCEPT !.outcome = "idle"]
             PROVE  c \in CallsOn(g) /\ Good(c) /\ c.outcome = "idle"
  BY DEF d
<1>4. c \in CallsOn(g)
  BY <1>2, <1>3 DEF CallsOn
<1>5. c.outcome = "idle" /\ c.worked = {} /\ c.tried = {}
  BY <1>3 DEF CallsOn
<1> QED
  BY <1>4, <1>5 DEF Good

(* No consumer of server n is doing anything. *)
LEMMA NoCallsAreGood ==
  ASSUME SetupInv, NEW n \in Nodes
  PROVE  /\ DOMAIN NoCalls(pubs[n]) = DOMAIN pubs[n]
         /\ \A p \in DOMAIN pubs[n] :
              CallInv(n, p, NoCalls(pubs[n])[p]) /\ NoCalls(pubs[n])[p].outcome = "idle"
BY IdleIsGood DEF NoCalls, CallInv

LEMMA InitNetworkInv ==
  Init => NetworkInv
<1> SUFFICES ASSUME Init PROVE NetworkInv
  OBVIOUS
<1>1. SetupInv
  BY InitSetup
<1>2. StoreInv
  <2>1. 0 \in Nat /\ <<>> \in Seq(Files) /\ \A n, p : <<>> \in Seq(Wanted(n, p))
    OBVIOUS
  <2> QED
    BY <1>1, <2>1, NetFacts DEF Init, StoreInv
<1>3. CallsInv
  <2>1. calls = [n \in Nodes |-> NoCalls(pubs[n])]
    BY DEF Init
  <2> QED
    BY <1>1, <2>1, NoCallsAreGood DEF CallsInv
<1> QED
  BY <1>1, <1>2, <1>3 DEF NetworkInv

(* What a consumer does next is right. *)
LEMMA TakenCallIsGood ==
  ASSUME NetworkInv, NEW n \in Nodes, NEW p \in DOMAIN pubs[n], queues[n][p] # <<>>
  PROVE  /\ CallInv(n, p, Called(pubs[n][p].connection, Head(queues[n][p])))
         /\ Head(queues[n][p]) \in Wanted(n, p)
         /\ Tail(queues[n][p]) \in Seq(Wanted(n, p))
<1>1. queues[n][p] \in Seq(Wanted(n, p)) /\ IsConnection(pubs[n][p].connection, Everyone)
  BY DEF NetworkInv, StoreInv, SetupInv
<1>2. Head(queues[n][p]) \in Wanted(n, p) /\ Tail(queues[n][p]) \in Seq(Wanted(n, p))
  BY <1>1
<1>3. Wanted(n, p) \subseteq Files
  BY DEF Wanted
<1> DEFINE c == Called(pubs[n][p].connection, Head(queues[n][p]))
<1>4. c.file = Head(queues[n][p])
  BY DEF Called
<1>5. c \in CallsOn(pubs[n][p].connection) /\ Good(c)
  BY <1>1, <1>2, <1>3, CalledIsGood
<1> HIDE DEF c
<1> QED
  BY <1>2, <1>4, <1>5 DEF CallInv, c

(* The result that SendToServer or SendElsewhere has for the sender. *)
LEMMA AnswerIsPossible ==
  ASSUME NEW n, NEW m, NEW f, NEW kind
  PROVE  /\ Possible(Answer(n, m, f), kind)
         /\ \A there : Possible(Raises(there), kind)
BY DEF Answer, Possible, Raises, Returns

LEMMA SentCallIsGood ==
  ASSUME NetworkInv, NEW n \in Nodes, NEW p \in DOMAIN pubs[n], InSender(calls[n][p]),
         NEW r, Possible(r, Sender(calls[n][p]).kind)
  PROVE  CallInv(n, p, Ended(calls[n][p], r))
<1> DEFINE c == calls[n][p]
           g == pubs[n][p].connection
<1>1. c \in CallsOn(g) /\ Good(c) /\ IsConnection(g, Everyone) /\ (c.outcome # "idle" => c.file \in Wanted(n, p))
  BY DEF NetworkInv, CallsInv, CallInv, SetupInv
<1>2. EndsAs(g, c, r, Ended(c, r)) /\ Good(Ended(c, r))
  BY <1>1, EndedCases, EndedIsGood
<1>3. c.outcome = "busy"
  BY DEF InSender, InPart
<1> HIDE DEF c, g
<1>4. CallInv(n, p, Ended(c, r)) <=> /\ Ended(c, r) \in CallsOn(g) /\ Good(Ended(c, r))
                                     /\ Ended(c, r).outcome # "idle" => Ended(c, r).file \in Wanted(n, p)
  BY DEF CallInv, g
<1>5. Ended(c, r) \in CallsOn(g) /\ Ended(c, r).file = c.file
  BY <1>2 DEF EndsAs
<1> QED
  BY <1>1, <1>2, <1>3, <1>4, <1>5 DEF c

(* A request arrives or is lost, and its answer too; in a network that     *)
(* loses nothing, the sender hears the answer.                             *)
LEMMA SendToServerFacts ==
  ASSUME NetworkInv, NEW n \in Nodes, NEW p \in DOMAIN pubs[n], SendToServer(n, p)
  PROVE  LET c == calls[n][p]
             to == Sender(c).to
         IN /\ InSender(c) /\ to \in Nodes /\ c.file \in Wanted(n, p) /\ c.outcome = "busy"
            /\ \E r : /\ Possible(r, Sender(c).kind)
                      /\ calls' = [calls EXCEPT ![n][p] = Ended(c, r)]
                      /\ ~net.lossy => r = Answer(to, n, c.file)
            /\ \/ n \in hears[to] /\ StoreFile(to, n, c.file)
               \/ (net.lossy \/ n \notin hears[to]) /\ UNCHANGED <<handled, queues, taken>>
            /\ UNCHANGED <<setup, incoming, restarts>>
<1> DEFINE c == calls[n][p]
           to == Sender(c).to
           Goes(r) == calls' = [calls EXCEPT ![n][p] = Ended(c, r)]
<1>1. InSender(c) /\ to \in Nodes /\ c.file \in Wanted(n, p) /\ c.outcome = "busy"
  BY DEF SendToServer, NetworkInv, CallsInv, CallInv, InSender, InPart
<1>2. UNCHANGED <<setup, incoming, restarts>>
  BY DEF SendToServer
<1>3. \/ /\ net.lossy
         /\ Goes(Raises("nothing"))
         /\ UNCHANGED <<handled, queues, taken>>
      \/ /\ \/ Goes(Answer(to, n, c.file))
            \/ net.lossy /\ Goes(Raises(Answer(to, n, c.file).there))
         /\ IF n \in hears[to] THEN StoreFile(to, n, c.file)
            ELSE UNCHANGED <<handled, queues, taken>>
  BY DEF SendToServer, Sends
<1>4. \E r : Possible(r, Sender(c).kind) /\ Goes(r) /\ (~net.lossy => r = Answer(to, n, c.file))
  BY <1>3, AnswerIsPossible
<1> QED
  BY <1>1, <1>2, <1>3, <1>4

LEMMA SendElsewhereFacts ==
  ASSUME NetworkInv, NEW n \in Nodes, NEW p \in DOMAIN pubs[n], SendElsewhere(n, p)
  PROVE  LET c == calls[n][p]
         IN /\ InSender(c) /\ Sender(c).to \notin Nodes
            /\ \E r : /\ Possible(r, Sender(c).kind)
                      /\ calls' = [calls EXCEPT ![n][p] = Ended(c, r)]
            /\ UNCHANGED <<setup, handled, incoming, queues, taken, restarts>>
<1> DEFINE c == calls[n][p]
<1>1. InSender(c) /\ Sender(c).to \notin Nodes
      /\ UNCHANGED <<setup, handled, incoming, queues, taken, restarts>>
  BY DEF SendElsewhere
<1>2. PICK r \in SendResults(Sender(c).kind) : calls' = [calls EXCEPT ![n][p] = Ended(c, r)]
  BY DEF SendElsewhere, Sends
<1>3. Sender(c).kind \in Kinds
  BY <1>1, InSenderFacts DEF NetworkInv, SetupInv, CallsInv, CallInv
<1>4. Possible(r, Sender(c).kind)
  BY <1>3, SendResultsArePossible
<1> QED
  BY <1>1, <1>2, <1>4

LEMMA EndOfSendersFacts ==
  ASSUME NetworkInv, NEW n \in Nodes, NEW p \in DOMAIN pubs[n], EndOfSenders(n, p)
  PROVE  LET c == calls[n][p]
         IN /\ CallInv(n, p, SendersExhausted(c)) /\ InPart(c)
            /\ c.pos = Len(pubs[n][p].connection.parts[c.part].senders) + 1
            /\ calls' = [calls EXCEPT ![n][p] = SendersExhausted(c)]
            /\ UNCHANGED <<setup, handled, incoming, queues, taken, restarts>>
<1> DEFINE c == calls[n][p]
           g == pubs[n][p].connection
<1>1. /\ InPart(c) /\ ~InSender(c) /\ calls' = [calls EXCEPT ![n][p] = SendersExhausted(c)]
      /\ UNCHANGED <<setup, handled, incoming, queues, taken, restarts>>
  BY DEF EndOfSenders
<1>2. c \in CallsOn(g) /\ Good(c) /\ c.file \in Wanted(n, p) /\ IsConnection(g, Everyone)
  BY <1>1 DEF NetworkInv, SetupInv, CallsInv, CallInv, InPart
<1>3. IsAfter(g, c, SendersExhausted(c)) /\ c.pos = Len(g.parts[c.part].senders) + 1
  BY <1>1, <1>2, ExhaustedIsGood
<1> QED
  BY <1>1, <1>2, <1>3 DEF IsAfter, CallInv

LEMMA EndOfPartsFacts ==
  ASSUME NetworkInv, NEW n \in Nodes, NEW p \in DOMAIN pubs[n], EndOfParts(n, p)
  PROVE  LET c == calls[n][p]
         IN /\ CallInv(n, p, CombinedReturns(c)) /\ pubs[n][p].connection.combined
            /\ calls' = [calls EXCEPT ![n][p] = CombinedReturns(c)]
            /\ UNCHANGED <<setup, handled, incoming, queues, taken, restarts>>
<1> DEFINE c == calls[n][p]
           g == pubs[n][p].connection
<1>1. /\ c.outcome = "busy" /\ ~InPart(c) /\ calls' = [calls EXCEPT ![n][p] = CombinedReturns(c)]
      /\ UNCHANGED <<setup, handled, incoming, queues, taken, restarts>>
  BY DEF EndOfParts, Busy
<1>2. c \in CallsOn(g) /\ Good(c) /\ c.file \in Wanted(n, p) /\ IsConnection(g, Everyone)
  BY <1>1 DEF NetworkInv, SetupInv, CallsInv, CallInv
<1>3. IsAfter(g, c, CombinedReturns(c)) /\ g.combined
  BY <1>1, <1>2, CombinedIsGood
<1> QED
  BY <1>1, <1>2, <1>3 DEF IsAfter, CallInv

LEMMA TakeFacts ==
  ASSUME NetworkInv, NEW n \in Nodes, NEW p \in DOMAIN pubs[n], Take(n, p)
  PROVE  /\ StoreInv' /\ CallsInv'
         /\ calls' = [calls EXCEPT ![n][p] = Called(pubs[n][p].connection, Head(queues[n][p]))]
         /\ \A m \in Nodes : \A q \in DOMAIN pubs[m] :
              queues'[m][q] = IF m = n /\ q = p THEN Tail(queues[n][p]) ELSE queues[m][q]
<1>1. /\ queues[n][p] # <<>> /\ queues' = [queues EXCEPT ![n][p] = Tail(queues[n][p])]
      /\ calls' = [calls EXCEPT ![n][p] = Called(pubs[n][p].connection, Head(queues[n][p]))]
      /\ UNCHANGED <<setup, handled, incoming, taken, restarts>>
  BY DEF Take
<1>2. /\ DOMAIN queues' = Nodes
      /\ \A m \in Nodes : DOMAIN queues'[m] = DOMAIN pubs[m]
      /\ \A m \in Nodes : \A q \in DOMAIN pubs[m] :
           queues'[m][q] = IF m = n /\ q = p THEN Tail(queues[n][p]) ELSE queues[m][q]
  BY <1>1 DEF NetworkInv, StoreInv
<1>3. \A m \in Nodes : \A q \in DOMAIN pubs[m] : queues'[m][q] \in Seq(Wanted(m, q))
  BY <1>1, <1>2, TakenCallIsGood DEF NetworkInv, StoreInv
<1>4. net' = net /\ pubs' = pubs /\ setup' = setup
  BY <1>1 DEF setup
<1>5. StoreInv'
  <2>1. \A m, q : Wanted(m, q)' = Wanted(m, q)
    BY <1>4 DEF Wanted
  <2> QED
    BY <1>1, <1>2, <1>3, <1>4, <2>1 DEF NetworkInv, StoreInv
<1>6. CallsInv'
  BY <1>1, <1>4, TakenCallIsGood, CallKeepsInv DEF NetworkInv
<1> QED
  BY <1>1, <1>2, <1>5, <1>6

LEMMA RestartFacts ==
  ASSUME NetworkInv, NEW n \in Nodes, Restart(n)
  PROVE  /\ StoreInv' /\ CallsInv' /\ net.restarts > 0 /\ setup' = setup
<1>1. /\ restarts < net.restarts /\ restarts' = restarts + 1
      /\ handled' = [handled EXCEPT ![n] = <<>>]
      /\ queues' = [queues EXCEPT ![n] = [p \in DOMAIN pubs[n] |-> <<>>]]
      /\ calls' = [calls EXCEPT ![n] = NoCalls(pubs[n])]
      /\ UNCHANGED <<setup, incoming, taken>>
  BY DEF Restart
<1>2. net' = net /\ pubs' = pubs /\ \A m, q : Wanted(m, q)' = Wanted(m, q)
  BY <1>1 DEF setup, Wanted
<1>3. handled' \in [Nodes -> Seq(Files)]
  BY <1>1 DEF NetworkInv, StoreInv
<1>4. DOMAIN queues' = Nodes /\ \A m \in Nodes :
         queues'[m] = IF m = n THEN [p \in DOMAIN pubs[n] |-> <<>>] ELSE queues[m]
  BY <1>1 DEF NetworkInv, StoreInv
<1>5. \A m \in Nodes : /\ DOMAIN queues'[m] = DOMAIN pubs[m]
                       /\ \A q \in DOMAIN pubs[m] : queues'[m][q] \in Seq(Wanted(m, q))
  <2>1. \A m, q : <<>> \in Seq(Wanted(m, q))
    OBVIOUS
  <2>2. \A m \in Nodes : /\ DOMAIN queues[m] = DOMAIN pubs[m]
                         /\ \A q \in DOMAIN pubs[m] : queues[m][q] \in Seq(Wanted(m, q))
    BY DEF NetworkInv, StoreInv
  <2>3. \A m \in Nodes : m # n => queues'[m] = queues[m]
    BY <1>4
  <2>4. DOMAIN queues'[n] = DOMAIN pubs[n] /\ \A q \in DOMAIN pubs[n] : queues'[n][q] = <<>>
    BY <1>4
  <2>5. \A m \in Nodes : m # n => /\ DOMAIN queues'[m] = DOMAIN pubs[m]
                                 /\ \A q \in DOMAIN pubs[m] : queues'[m][q] \in Seq(Wanted(m, q))
    BY <2>2, <2>3
  <2>6. \A q \in DOMAIN pubs[n] : queues'[n][q] \in Seq(Wanted(n, q))
    BY <2>1, <2>4
  <2> QED
    BY <2>4, <2>5, <2>6
<1>6. StoreInv'
  BY <1>1, <1>2, <1>3, <1>4, <1>5 DEF NetworkInv, StoreInv
<1>7. DOMAIN calls' = Nodes /\ \A m \in Nodes :
         calls'[m] = IF m = n THEN NoCalls(pubs[n]) ELSE calls[m]
  BY <1>1 DEF NetworkInv, CallsInv
<1>8. \A m \in Nodes : /\ DOMAIN calls'[m] = DOMAIN pubs[m]
                       /\ \A q \in DOMAIN pubs[m] : CallInv(m, q, calls'[m][q])
  BY <1>7, NoCallsAreGood DEF NetworkInv, CallsInv
<1>9. CallsInv'
  BY <1>2, <1>7, <1>8 DEF CallsInv, CallInv
<1>10. net.restarts > 0
  BY <1>1, NetFacts DEF NetworkInv, StoreInv
<1> QED
  BY <1>1, <1>6, <1>9, <1>10

(* What is the same whichever of its steps a consumer takes.               *)
LEMMA ComeInKeepsInv ==
  ASSUME NetworkInv, NEW n \in Nodes, NEW f \in Files, ComeIn(n, f)
  PROVE  NetworkInv' /\ setup' = setup /\ calls' = calls /\ f \in net.incoming[n]
<1>1. /\ f \in incoming[n] /\ incoming' = [incoming EXCEPT ![n] = @ \ {f}]
      /\ StoreFile(n, "runner", f) /\ UNCHANGED <<setup, calls, restarts>>
  BY DEF ComeIn
<1>2. incoming' \in [Nodes -> SUBSET Files] /\ \A m \in Nodes : incoming'[m] \subseteq incoming[m]
  BY <1>1 DEF NetworkInv, StoreInv
<1>3. restarts' \in Nat /\ f \in net.incoming[n]
  BY <1>1 DEF NetworkInv, StoreInv
<1>4. StoreInv'
  BY <1>1, <1>2, <1>3, StoreKeepsInv DEF NetworkInv
<1> QED
  BY <1>1, <1>3, <1>4, SetupStays, CallsStay DEF NetworkInv

LEMMA HeldStays ==
  ASSUME StoreInv, UNCHANGED <<setup, handled, incoming, queues, taken, restarts>>
  PROVE  StoreInv'
BY DEF StoreInv, Wanted, setup

LEMMA ConsumeKeepsInv ==
  ASSUME NetworkInv, NEW n \in Nodes, NEW p, Consume(n, p)
  PROVE  NetworkInv' /\ setup' = setup /\ p \in DOMAIN pubs[n]
<1>1. p \in DOMAIN pubs[n]
  BY DEF Consume
<1>2. CASE Take(n, p)
  <2>1. setup' = setup
    BY <1>2 DEF Take
  <2> QED
    BY <1>1, <1>2, <2>1, TakeFacts, SetupStays DEF NetworkInv
<1>3. CASE SendToServer(n, p)
  <2> DEFINE c == calls[n][p]
             to == Sender(c).to
  <2>1. /\ InSender(c) /\ to \in Nodes /\ c.file \in Files
        /\ StoreFile(to, n, c.file) \/ UNCHANGED <<handled, queues, taken>>
        /\ UNCHANGED <<setup, incoming, restarts>>
    BY <1>1, <1>3, SendToServerFacts DEF Wanted
  <2>2. PICK r : Possible(r, Sender(c).kind) /\ calls' = [calls EXCEPT ![n][p] = Ended(c, r)]
    BY <1>1, <1>3, SendToServerFacts
  <2>3. CallInv(n, p, Ended(c, r))
    BY <1>1, <2>1, <2>2, SentCallIsGood
  <2>4. CallsInv'
    BY <1>1, <2>1, <2>2, <2>3, CallKeepsInv DEF NetworkInv
  <2>5. StoreInv'
    <3>1. CASE StoreFile(to, n, c.file)
      <4>1. /\ restarts' \in Nat /\ incoming' \in [Nodes -> SUBSET Files]
            /\ \A m \in Nodes : incoming'[m] \subseteq incoming[m]
        BY <2>1 DEF NetworkInv, StoreInv
      <4> QED
        BY <2>1, <3>1, <4>1, StoreKeepsInv DEF NetworkInv
    <3>2. CASE UNCHANGED <<handled, queues, taken>>
      BY <2>1, <3>2, HeldStays DEF NetworkInv
    <3> QED
      BY <2>1, <3>1, <3>2
  <2> QED
    BY <1>1, <2>1, <2>4, <2>5, SetupStays DEF NetworkInv
<1>4. CASE SendElsewhere(n, p)
  <2> DEFINE c == calls[n][p]
  <2>1. InSender(c) /\ UNCHANGED <<setup, handled, incoming, queues, taken, restarts>>
    BY <1>1, <1>4, SendElsewhereFacts
  <2>2. PICK r : Possible(r, Sender(c).kind) /\ calls' = [calls EXCEPT ![n][p] = Ended(c, r)]
    BY <1>1, <1>4, SendElsewhereFacts
  <2>3. CallInv(n, p, Ended(c, r))
    BY <1>1, <2>1, <2>2, SentCallIsGood
  <2>4. CallsInv'
    BY <1>1, <2>1, <2>2, <2>3, CallKeepsInv DEF NetworkInv
  <2> QED
    BY <1>1, <2>1, <2>4, HeldStays, SetupStays DEF NetworkInv
<1>5. CASE EndOfSenders(n, p)
  <2>1. CallInv(n, p, SendersExhausted(calls[n][p]))
        /\ calls' = [calls EXCEPT ![n][p] = SendersExhausted(calls[n][p])]
        /\ UNCHANGED <<setup, handled, incoming, queues, taken, restarts>>
    BY <1>1, <1>5, EndOfSendersFacts
  <2>2. CallsInv'
    BY <1>1, <2>1, CallKeepsInv DEF NetworkInv
  <2> QED
    BY <1>1, <2>1, <2>2, HeldStays, SetupStays DEF NetworkInv
<1>6. CASE EndOfParts(n, p)
  <2>1. CallInv(n, p, CombinedReturns(calls[n][p]))
        /\ calls' = [calls EXCEPT ![n][p] = CombinedReturns(calls[n][p])]
        /\ UNCHANGED <<setup, handled, incoming, queues, taken, restarts>>
    BY <1>1, <1>6, EndOfPartsFacts
  <2>2. CallsInv'
    BY <1>1, <2>1, CallKeepsInv DEF NetworkInv
  <2> QED
    BY <1>1, <2>1, <2>2, HeldStays, SetupStays DEF NetworkInv
<1> QED
  BY <1>2, <1>3, <1>4, <1>5, <1>6 DEF Consume

LEMMA NextKeepsNetworkInv ==
  ASSUME NetworkInv, [Next]_vars
  PROVE  NetworkInv' /\ setup' = setup
<1>1. CASE UNCHANGED vars
  <2>1. UNCHANGED <<setup, handled, incoming, queues, taken, restarts>> /\ calls' = calls
    BY <1>1 DEF vars, setup
  <2> QED
    BY <2>1, SetupStays, HeldStays, CallsStay DEF NetworkInv
<1>2. ASSUME NEW n \in Nodes, NEW f \in Files, ComeIn(n, f) PROVE NetworkInv' /\ setup' = setup
  BY <1>2, ComeInKeepsInv
<1>3. ASSUME NEW n \in Nodes, NEW p, Consume(n, p) PROVE NetworkInv' /\ setup' = setup
  BY <1>3, ConsumeKeepsInv
<1>4. ASSUME NEW n \in Nodes, Restart(n) PROVE NetworkInv' /\ setup' = setup
  BY <1>4, RestartFacts, SetupStays DEF NetworkInv
<1> QED
  BY <1>1, <1>2, <1>3, <1>4 DEF Next

(* Whatever gets lost and whoever restarts: a queue holds only what its     *)
(* publication lets pass, and every publish goes through the parts and      *)
(* senders of its connection in order, each as its kind asks for.           *)
THEOREM NetworkInvariant == Spec => []NetworkInv
<1>1. Init => NetworkInv
  BY InitNetworkInv
<1>2. NetworkInv /\ [Next]_vars => NetworkInv'
  BY NextKeepsNetworkInv
<1> QED
  BY <1>1, <1>2, PTL DEF Spec

(* Whatever the servers publish on whatever connections, in whatever order *)
(* their consumers and the answers come: a publish that returned has done  *)
(* what its connection is for, in every part.                              *)
THEOREM ReturnsKeepPromises == Spec => []ReturnKeepsPromise
<1>1. NetworkInv => ReturnKeepsPromise
  BY DEF NetworkInv, CallsInv, CallInv, Good, ReturnKeepsPromise
<1> QED
  BY <1>1, NetworkInvariant, PTL

----------------------------------------------------------------------------
(* What a network that loses nothing owes its files.                       *)

Quiet == ~net.lossy /\ net.restarts = 0 /\ Remembers

(* No hash is forgotten, a server has taken what it knows and welcomes, and *)
(* the queues hold no more than what each subscription published of each   *)
(* file.                                                                   *)
QuietAt(n) ==
  /\ Len(handled[n]) = Cardinality(Known(n))
  /\ taken[n] \subseteq Known(n)
  /\ \A f \in Known(n) : Welcomes(n, f) => f \in taken[n]
  /\ \A p \in DOMAIN pubs[n] :
       Len(queues[n][p]) <= Cardinality(Known(n)) * Cardinality(DOMAIN subs[n])
QuietInv == Quiet => \A n \in Nodes : QuietAt(n)

SendersOf(n, p) == pubs[n][p].connection.parts[1].senders

(* The senders before the one that is called have reached their recipient, *)
(* whether they returned or raised.                                        *)
ReachedAt(n, p) ==
  Busy(n, p) /\ Calm(n, p, calls[n][p].file) =>
    \A k \in DOMAIN SendersOf(n, p) :
      k < calls[n][p].pos => calls[n][p].file \in taken[SendersOf(n, p)[k].to]

(* A file is in the queue, with the consumer, or where it was to go.       *)
Waits(n, p, f) == \E i \in DOMAIN queues[n][p] : queues[n][p][i] = f
Underway(n, p, f) ==
  Waits(n, p, f) \/ (Busy(n, p) /\ calls[n][p].file = f) \/ Spread(n, p, f)

SpreadInv ==
  \A n \in Nodes : \A p \in DOMAIN pubs[n] :
    /\ ReachedAt(n, p)
    /\ \A f \in taken[n] : Calm(n, p, f) => Underway(n, p, f)

LEMMA SetupConstants ==
  ASSUME setup' = setup
  PROVE  /\ Quiet' <=> Quiet
         /\ \A n, f : Welcomes(n, f)' <=> Welcomes(n, f)
         /\ \A n, p : Recipients(n, p)' = Recipients(n, p) /\ SendersOf(n, p)' = SendersOf(n, p)
         /\ \A n, p, f : Calm(n, p, f)' <=> Calm(n, p, f)
<1>1. net' = net /\ subs' = subs /\ pubs' = pubs /\ hears' = hears
  BY DEF setup
<1>2. \A n, p : Recipients(n, p)' = Recipients(n, p) /\ SendersOf(n, p)' = SendersOf(n, p)
  BY <1>1 DEF Recipients, SendersOf
<1>3. ASSUME NEW n, NEW f PROVE Welcomes(n, f)' <=> Welcomes(n, f)
  <2> DEFINE Asked == net.incoming[n]
             Peers(m, p) == f \in pubs[m][p].filter /\ n \in Recipients(m, p)
             Wants(nid) == \E s \in DOMAIN subs[n] :
                              /\ subs[n][s].allowed = {} \/ nid \in subs[n][s].allowed
                              /\ f \in subs[n][s].filter
  <2>1. Asked' = Asked /\ \A nid : Wants(nid)' <=> Wants(nid)
    BY <1>1
  <2>2. \A m, p : Peers(m, p)' <=> Peers(m, p)
    BY <1>1, <1>2
  <2>3. Welcomes(n, f) <=>
          /\ f \in Asked => Wants("runner")
          /\ \A m \in Nodes : \A p \in DOMAIN pubs[m] :
               Peers(m, p) => m \in hears[n] /\ Wants(m)
    BY DEF Welcomes
  <2>4. Welcomes(n, f)' <=>
          /\ f \in Asked' => Wants("runner")'
          /\ \A m \in Nodes : \A p \in DOMAIN pubs'[m] :
               Peers(m, p)' => m \in hears'[n] /\ Wants(m)'
    BY DEF Welcomes
  <2> HIDE DEF Asked, Peers, Wants
  <2> QED
    BY <1>1, <2>1, <2>2, <2>3, <2>4
<1>4. Quiet' <=> Quiet
  BY <1>1 DEF Quiet, Remembers
<1>5. \A n, p, f : Calm(n, p, f)' <=> Calm(n, p, f)
  BY <1>1, <1>2, <1>3 DEF Calm, Remembers
<1> QED
  BY <1>2, <1>3, <1>4, <1>5

LEMMA KnownFacts ==
  ASSUME NetworkInv, NEW n \in Nodes
  PROVE  /\ Known(n) \subseteq Files /\ IsFiniteSet(Known(n)) /\ Cardinality(Known(n)) \in Nat
         /\ Cardinality(Known(n)) <= Cardinality(Files)
<1>1. handled[n] \in Seq(Files)
  BY DEF NetworkInv, StoreInv
<1>2. Known(n) \subseteq Files
  BY <1>1 DEF Known
<1> QED
  BY <1>2, NetFacts, FS_Subset, FS_CardinalityType DEF NetworkInv

(* The files a calm publication may have to hold fit into its queue.       *)
LEMMA Rooms ==
  ASSUME NEW l \in Nat, NEW k \in Nat, NEW c \in Nat, NEW s \in Nat, NEW q \in Nat,
         k <= c, l <= k * s, c * s <= q
  PROVE  l <= q
<1>1. k * s <= c * s
  <2>1. (c - k) * s >= 0
    <3>1. c - k \in Nat
      OBVIOUS
    <3>2. \A x, y \in Nat : x * y >= 0
      OBVIOUS
    <3> QED
      BY <3>1, <3>2
  <2>2. (c - k) * s = c * s - k * s
    OBVIOUS
  <2> QED
    BY <2>1, <2>2
<1>2. k * s \in Nat /\ c * s \in Nat
  OBVIOUS
<1> QED
  BY <1>1, <1>2

(* The first time a file is stored; somebody who may send it to those that *)
(* welcome it is given to a subscription.                                  *)
LEMMA StoredFirst ==
  ASSUME NetworkInv, NetworkInv', Quiet, QuietInv, NEW n \in Nodes, NEW nid, NEW f \in Files,
         StoreFile(n, nid, f), setup' = setup, ~Repeated(n, f),
         Welcomes(n, f) => Takers(n, nid, f) # {}
  PROVE  /\ QuietAt(n)' /\ Known(n)' = Known(n) \cup {f} /\ taken[n] \subseteq taken'[n]
         /\ taken'[n] \subseteq taken[n] \cup {f}
         /\ \A p \in DOMAIN pubs[n] : \A f1 : Calm(n, p, f1) =>
              /\ Waits(n, p, f1) => Waits(n, p, f1)'
              /\ f1 \in taken'[n] \ taken[n] => Waits(n, p, f1)'
<1> DEFINE T == Takers(n, nid, f)
           k == Cardinality(Known(n))
           s == Cardinality(DOMAIN subs[n])
<1>1. T \in SUBSET DOMAIN subs[n] /\ (Welcomes(n, f) => T # {})
  BY TakersFacts DEF NetworkInv
<1>2. /\ handled'[n] = Added(n, f)
      /\ taken'[n] = IF T = {} THEN taken[n] ELSE taken[n] \cup {f}
      /\ queues'[n] = [p \in DOMAIN queues[n] |-> Queued(queues[n][p], f, Times(n, p, T, f))]
  BY DEF StoreFile, NetworkInv, StoreInv
<1> HIDE DEF T
<1>3. k \in Nat /\ s \in Nat /\ IsFiniteSet(Known(n)) /\ Known(n) \subseteq Files
      /\ Len(handled[n]) = k
  BY KnownFacts, NetFacts DEF NetworkInv, QuietInv, QuietAt
<1>4. f \notin Known(n)
  BY DEF Repeated, Known
<1>5. Cardinality(Known(n) \cup {f}) = k + 1
  BY <1>3, <1>4, FS_AddElement
<1>6. Cardinality(Known(n) \cup {f}) <= Cardinality(Files) /\ Cardinality(Files) \in Nat
  BY <1>3, NetFacts, FS_Subset DEF NetworkInv
<1>7. Len(handled[n]) < net.limit
  BY <1>3, <1>5, <1>6, NetFacts DEF NetworkInv, Quiet, Remembers
<1>8. Known(n)' = Known(n) \cup {f} /\ Len(handled'[n]) = k + 1
  <2>1. Known(n)' = {handled'[n][i] : i \in DOMAIN handled'[n]}
    BY DEF Known
  <2> QED
    BY <1>2, <1>3, <1>7, <2>1, AddedFacts DEF NetworkInv
<1> HIDE DEF k, s
<1>9. ASSUME NEW p \in DOMAIN pubs[n]
      PROVE  /\ Len(queues'[n][p]) <= (k + 1) * s
             /\ \A f1 : Calm(n, p, f1) =>
                  /\ Waits(n, p, f1) => Waits(n, p, f1)'
                  /\ f1 \in taken'[n] \ taken[n] => Waits(n, p, f1)'
  <2> DEFINE q == queues[n][p]
             t == Times(n, p, T, f)
  <2>1. /\ q \in Seq(Wanted(n, p)) /\ DOMAIN queues[n] = DOMAIN pubs[n]
        /\ Len(q) <= k * s /\ Len(q) \in Nat
    BY DEF NetworkInv, StoreInv, QuietInv, QuietAt, k, s
  <2>2. t \in Nat /\ (t = 0 \/ f \in Wanted(n, p)) /\ t <= s
        /\ (T # {} /\ f \in pubs[n][p].filter /\ pubs[n][p].origin = {} => t > 0)
    BY <1>1, TimesFacts DEF NetworkInv, s
  <2>3. queues'[n][p] = Queued(q, f, t)
    BY <1>2, <2>1
  <2> HIDE DEF q, t
  <2>4. (k + 1) * s = k * s + s /\ k * s \in Nat /\ (k + 1) * s \in Nat
    BY <1>3
  <2>5. Len(q) + t <= (k + 1) * s
    BY <1>3, <2>1, <2>2, <2>4
  <2>6. Len(queues'[n][p]) <= Len(q) + t /\ queues'[n][p] \in Seq(Wanted(n, p))
    BY <2>1, <2>2, <2>3, QueuedFacts DEF NetworkInv
  <2>7. Len(queues'[n][p]) <= (k + 1) * s
    BY <1>3, <2>1, <2>2, <2>4, <2>5, <2>6
  <2>8. ASSUME NEW f1, Calm(n, p, f1)
        PROVE  /\ Waits(n, p, f1) => Waits(n, p, f1)'
               /\ f1 \in taken'[n] \ taken[n] => Waits(n, p, f1)'
    <3>1. Cardinality(Files) * s <= net.queue /\ pubs[n][p].origin = {}
      BY <1>3, <1>6, <2>8, NetFacts DEF Calm, NetworkInv, s
    <3>2. Len(q) + t <= net.queue
      <4>1. Len(q) + t \in Nat /\ k + 1 \in Nat /\ k + 1 <= Cardinality(Files) /\ net.queue \in Nat
        BY <1>3, <1>5, <1>6, <2>1, <2>2, NetFacts DEF NetworkInv
      <4> QED
        BY <1>3, <1>6, <2>5, <3>1, <4>1, Rooms
    <3>3. /\ \A i \in DOMAIN q : i \in DOMAIN queues'[n][p] /\ queues'[n][p][i] = q[i]
          /\ t > 0 => \E i \in DOMAIN queues'[n][p] : queues'[n][p][i] = f
      BY <2>1, <2>2, <2>3, <3>2, QueuedFacts DEF NetworkInv
    <3>4. Waits(n, p, f1) => Waits(n, p, f1)'
      BY <3>3 DEF Waits, q
    <3>5. ASSUME f1 \in taken'[n] \ taken[n] PROVE Waits(n, p, f1)'
      <4>1. T # {} /\ f1 = f
        BY <1>2, <3>5
      <4>2. t > 0
        BY <2>2, <2>8, <3>1, <4>1 DEF Calm
      <4> QED
        BY <3>3, <4>1, <4>2 DEF Waits
    <3> QED
      BY <3>4, <3>5
  <2> QED
    BY <2>7, <2>8
<1>10. taken[n] \subseteq taken'[n] /\ taken'[n] \subseteq taken[n] \cup {f}
  BY <1>2
<1>11. \A f1 \in Known(n)' : Welcomes(n, f1)' => f1 \in taken'[n]
  <2>1. \A f1 \in Known(n) : Welcomes(n, f1) => f1 \in taken[n]
    BY DEF QuietInv, QuietAt
  <2>2. \A f1 : Welcomes(n, f1)' <=> Welcomes(n, f1)
    BY SetupConstants
  <2>3. Welcomes(n, f) => f \in taken'[n]
    BY <1>1, <1>2
  <2> QED
    BY <1>8, <1>10, <2>1, <2>2, <2>3
<1>12. taken'[n] \subseteq Known(n)'
  BY <1>8, <1>10 DEF QuietInv, QuietAt
<1>13. QuietAt(n)'
  <2>1. subs' = subs /\ pubs' = pubs /\ Cardinality(Known(n)') = k + 1
    BY <1>5, <1>8 DEF setup
  <2> QED
    BY <1>8, <1>9, <1>11, <1>12, <2>1 DEF QuietAt, s
<1> QED
  BY <1>8, <1>9, <1>10, <1>13

(* A file that the server knows already: nobody is given it.               *)
LEMMA StoredAgain ==
  ASSUME NetworkInv, NetworkInv', Quiet, QuietInv, NEW n \in Nodes, NEW nid, NEW f \in Files,
         StoreFile(n, nid, f), setup' = setup, Repeated(n, f)
  PROVE  /\ QuietAt(n)' /\ Known(n)' = Known(n) /\ taken'[n] = taken[n] /\ f \in Known(n)
         /\ \A p \in DOMAIN pubs[n] : \A f1 : Calm(n, p, f1) =>
              (Waits(n, p, f1) => Waits(n, p, f1)')
<1> DEFINE T == Takers(n, nid, f)
           k == Cardinality(Known(n))
           s == Cardinality(DOMAIN subs[n])
<1>1. T = {}
  BY DEF Takers, Quiet, Remembers
<1>2. /\ handled'[n] = handled[n] /\ taken'[n] = taken[n]
      /\ queues'[n] = [p \in DOMAIN queues[n] |-> Queued(queues[n][p], f, Times(n, p, T, f))]
  BY <1>1 DEF StoreFile, NetworkInv, StoreInv
<1>3. Known(n)' = Known(n) /\ f \in Known(n)
  BY <1>2 DEF Known, Repeated
<1>4. k \in Nat /\ s \in Nat /\ k <= Cardinality(Files) /\ Cardinality(Files) \in Nat
  BY KnownFacts, NetFacts DEF NetworkInv
<1> HIDE DEF T, k, s
<1>5. ASSUME NEW p \in DOMAIN pubs[n]
      PROVE  /\ Len(queues'[n][p]) <= k * s
             /\ \A f1 : Calm(n, p, f1) => (Waits(n, p, f1) => Waits(n, p, f1)')
  <2> DEFINE q == queues[n][p]
  <2>1. /\ q \in Seq(Wanted(n, p)) /\ DOMAIN queues[n] = DOMAIN pubs[n]
        /\ Len(q) <= k * s /\ Len(q) \in Nat
    BY DEF NetworkInv, StoreInv, QuietInv, QuietAt, k, s
  <2>2. Times(n, p, T, f) = 0
    BY <1>1, TimesFacts DEF NetworkInv
  <2>3. queues'[n][p] = Queued(q, f, 0)
    BY <1>2, <2>1, <2>2
  <2> HIDE DEF q
  <2>4. k * s \in Nat
    BY <1>4
  <2>5. Len(queues'[n][p]) <= Len(q) + 0 /\ queues'[n][p] \in Seq(Wanted(n, p))
    BY <2>1, <2>3, QueuedFacts DEF NetworkInv
  <2>6. Len(queues'[n][p]) <= k * s
    BY <2>1, <2>4, <2>5
  <2>7. ASSUME NEW f1, Calm(n, p, f1), Waits(n, p, f1) PROVE Waits(n, p, f1)'
    <3>1. Len(q) <= net.queue
      BY <1>4, <2>1, <2>7, NetFacts, Rooms DEF Calm, NetworkInv, s
    <3>2. \A i \in DOMAIN q : i \in DOMAIN queues'[n][p] /\ queues'[n][p][i] = q[i]
      BY <2>1, <2>3, <3>1, QueuedFacts DEF NetworkInv
    <3> QED
      BY <2>7, <3>2 DEF Waits, q
  <2> QED
    BY <2>6, <2>7
<1>6. QuietAt(n)'
  <2>1. subs' = subs /\ pubs' = pubs /\ \A f1 : Welcomes(n, f1)' <=> Welcomes(n, f1)
    BY SetupConstants DEF setup
  <2> QED
    BY <1>2, <1>3, <1>5, <2>1 DEF QuietInv, QuietAt, k, s
<1> QED
  BY <1>2, <1>3, <1>5, <1>6

LEMMA QuietStays ==
  ASSUME NEW n \in Nodes, QuietAt(n), setup' = setup, handled'[n] = handled[n], taken'[n] = taken[n],
         \A p \in DOMAIN pubs[n] : Len(queues'[n][p]) <= Len(queues[n][p]),
         NetworkInv, NetworkInv'
  PROVE  QuietAt(n)'
<1>1. Known(n)' = Known(n) /\ subs' = subs /\ pubs' = pubs
      /\ \A f1 : Welcomes(n, f1)' <=> Welcomes(n, f1)
  BY SetupConstants DEF setup, Known
<1>2. Cardinality(Known(n)) * Cardinality(DOMAIN subs[n]) \in Nat
  BY KnownFacts, NetFacts DEF NetworkInv
<1>3. ASSUME NEW p \in DOMAIN pubs[n]
      PROVE  Len(queues'[n][p]) <= Cardinality(Known(n)) * Cardinality(DOMAIN subs[n])
  <2>1. Len(queues'[n][p]) \in Nat /\ Len(queues[n][p]) \in Nat
    <3>1. queues[n][p] \in Seq(Wanted(n, p)) /\ queues'[n][p] \in Seq(Wanted(n, p)')
      BY <1>1 DEF NetworkInv, StoreInv
    <3> QED
      BY <3>1
  <2> QED
    BY <1>2, <2>1 DEF QuietAt
<1> QED
  BY <1>1, <1>3 DEF QuietAt

(* What storing a file does in a quiet network. *)
LEMMA Stored ==
  ASSUME NetworkInv, NetworkInv', Quiet, QuietInv, NEW n \in Nodes, NEW nid, NEW f \in Files,
         StoreFile(n, nid, f), setup' = setup,
         Welcomes(n, f) => \E s \in DOMAIN subs[n] :
                             /\ subs[n][s].allowed = {} \/ nid \in subs[n][s].allowed
                             /\ f \in subs[n][s].filter
  PROVE  /\ \A m \in Nodes : QuietAt(m)' /\ taken[m] \subseteq taken'[m]
         /\ Welcomes(n, f) => f \in taken'[n]
         /\ \A m \in Nodes : \A p \in DOMAIN pubs[m] : \A f1 : Calm(m, p, f1) =>
              /\ Waits(m, p, f1) => Waits(m, p, f1)'
              /\ f1 \in taken'[m] \ taken[m] => Waits(m, p, f1)'
<1>1. \A m \in Nodes : m # n =>
        handled'[m] = handled[m] /\ taken'[m] = taken[m] /\ queues'[m] = queues[m]
  BY DEF StoreFile, NetworkInv, StoreInv
<1>2. ASSUME NEW m \in Nodes, m # n PROVE QuietAt(m)'
  <2>1. QuietAt(m) /\ \A p \in DOMAIN pubs[m] : Len(queues[m][p]) \in Nat
    BY DEF QuietInv, NetworkInv, StoreInv
  <2>2. \A p \in DOMAIN pubs[m] : Len(queues'[m][p]) <= Len(queues[m][p])
    BY <1>1, <1>2, <2>1
  <2> QED
    BY <1>1, <1>2, <2>1, <2>2, QuietStays
<1>3. \A m \in Nodes : \A p, f1 : m # n /\ Waits(m, p, f1) => Waits(m, p, f1)'
  BY <1>1 DEF Waits
<1>4. CASE Repeated(n, f)
  <2>1. /\ QuietAt(n)' /\ Known(n)' = Known(n) /\ taken'[n] = taken[n] /\ f \in Known(n)
        /\ \A p \in DOMAIN pubs[n] : \A f1 : Calm(n, p, f1) =>
             (Waits(n, p, f1) => Waits(n, p, f1)')
    BY <1>4, StoredAgain
  <2> QED
    BY <1>1, <1>2, <1>3, <2>1 DEF QuietInv, QuietAt
<1>5. CASE ~Repeated(n, f)
  <2>1. Welcomes(n, f) => Takers(n, nid, f) # {}
    BY <1>5 DEF Takers
  <2>2. /\ QuietAt(n)' /\ Known(n)' = Known(n) \cup {f} /\ taken[n] \subseteq taken'[n]
        /\ \A p \in DOMAIN pubs[n] : \A f1 : Calm(n, p, f1) =>
             /\ Waits(n, p, f1) => Waits(n, p, f1)'
             /\ f1 \in taken'[n] \ taken[n] => Waits(n, p, f1)'
    BY <1>5, <2>1, StoredFirst
  <2>3. Welcomes(n, f) => f \in taken'[n]
    <3>1. Welcomes(n, f)' <=> Welcomes(n, f)
      BY SetupConstants
    <3> QED
      BY <2>2, <3>1 DEF QuietAt
  <2> QED
    BY <1>1, <1>2, <1>3, <2>2, <2>3
<1> QED
  BY <1>4, <1>5

(* Whom a publication is for.                                             *)
LEMMA RecipientsFacts ==
  ASSUME SetupInv, NEW n \in Nodes, NEW p \in DOMAIN pubs[n], ~pubs[n][p].connection.combined
  PROVE  /\ Recipients(n, p) = {SendersOf(n, p)[k].to : k \in DOMAIN SendersOf(n, p)}
         /\ \A k \in DOMAIN SendersOf(n, p) : SendersOf(n, p)[k].to \in Recipients(n, p)
         /\ Len(SendersOf(n, p)) \in Nat /\ DOMAIN SendersOf(n, p) = 1..Len(SendersOf(n, p))
         /\ pubs[n][p].connection.parts[1].kind = "simple" => Len(SendersOf(n, p)) = 1
         /\ pubs[n][p].connection.parts[1].kind \in PartKinds
<1> DEFINE g == pubs[n][p].connection
           To(i) == {g.parts[i].senders[k].to : k \in DOMAIN g.parts[i].senders}
<1>1. IsConnection(g, Everyone)
  BY DEF SetupInv
<1>2. DOMAIN g.parts = {1}
  <2>1. DOMAIN g.parts = 1..Len(g.parts) /\ Len(g.parts) = 1
    BY <1>1, ConnectionFacts
  <2> QED
    BY <2>1
<1>3. Recipients(n, p) = UNION {To(i) : i \in DOMAIN g.parts}
  BY DEF Recipients
<1> HIDE DEF g, To
<1>4. UNION {To(i) : i \in DOMAIN g.parts} = To(1)
  BY <1>2
<1>5. Recipients(n, p) = {SendersOf(n, p)[k].to : k \in DOMAIN SendersOf(n, p)}
  BY <1>3, <1>4 DEF To, SendersOf, g
<1>6. /\ Len(g.parts[1].senders) \in Nat
      /\ DOMAIN g.parts[1].senders = 1..Len(g.parts[1].senders)
      /\ g.parts[1].kind = "simple" => Len(g.parts[1].senders) = 1
      /\ g.parts[1].kind \in PartKinds
  BY <1>1, <1>2, ConnectionFacts
<1> QED
  BY <1>5, <1>6 DEF SendersOf, g

(* Where a file is, it stays. *)
LEMMA SpreadStays ==
  ASSUME setup' = setup, NEW m \in Nodes, NEW p, NEW f, Spread(m, p, f),
         \A n \in Nodes : taken[n] \subseteq taken'[n], Calm(m, p, f)
  PROVE  Spread(m, p, f)'
<1> DEFINE R == Recipients(m, p)
           have == {n \in Nodes \cap R : f \in taken[n]}
           haveThen == {n \in Nodes \cap R : f \in taken'[n]}
<1>1. R' = R /\ pubs' = pubs
  BY SetupConstants DEF setup
<1>2. Spread(m, p, f) <=> IF pubs[m][p].connection.parts[1].kind = "failover"
                          THEN have # {} ELSE have = R
  BY DEF Spread
<1>3. Spread(m, p, f)' <=> IF pubs[m][p].connection.parts[1].kind = "failover"
                           THEN haveThen # {} ELSE haveThen = R
  BY <1>1 DEF Spread
<1>4. have \subseteq haveThen /\ haveThen \subseteq R
  OBVIOUS
<1> QED
  BY <1>2, <1>3, <1>4

(* Nothing is stored, and the queues only shrink. *)
LEMMA NothingStored ==
  ASSUME NetworkInv, NetworkInv', QuietInv, setup' = setup, handled' = handled, taken' = taken,
         \A m \in Nodes : \A p \in DOMAIN pubs[m] : Len(queues'[m][p]) <= Len(queues[m][p])
  PROVE  QuietInv'
<1> SUFFICES ASSUME Quiet, NEW m \in Nodes PROVE QuietAt(m)'
  BY SetupConstants DEF QuietInv
<1>1. QuietAt(m) /\ handled'[m] = handled[m] /\ taken'[m] = taken[m]
  BY DEF QuietInv
<1> QED
  BY <1>1, QuietStays

(* Steps that take no file from a queue, or away from where it is.         *)
TakenGrows == \A m \in Nodes : taken[m] \subseteq taken'[m]
Grows(m, p) ==
  \A f : Calm(m, p, f) =>
    /\ Waits(m, p, f) => Waits(m, p, f)'
    /\ f \in taken'[m] \ taken[m] => Waits(m, p, f)'

LEMMA UnderwayStays ==
  ASSUME NetworkInv, SpreadInv, setup' = setup, TakenGrows,
         NEW m \in Nodes, NEW p \in DOMAIN pubs[m], Grows(m, p),
         \A f : Busy(m, p) /\ calls[m][p].file = f /\ Calm(m, p, f) => Underway(m, p, f)'
  PROVE  \A f \in taken'[m] : Calm(m, p, f)' => Underway(m, p, f)'
<1> SUFFICES ASSUME NEW f \in taken'[m], Calm(m, p, f) PROVE Underway(m, p, f)'
  BY SetupConstants
<1>1. CASE f \notin taken[m]
  BY <1>1 DEF Grows, Underway
<1>2. CASE f \in taken[m] /\ Spread(m, p, f)
  <2>1. Spread(m, p, f)'
    BY <1>2, SpreadStays DEF TakenGrows
  <2> QED
    BY <2>1 DEF Underway
<1>3. CASE f \in taken[m] /\ Waits(m, p, f)
  BY <1>3 DEF Grows, Underway
<1> QED
  BY <1>1, <1>2, <1>3 DEF SpreadInv, Underway

LEMMA OtherConsumers ==
  ASSUME NetworkInv, SpreadInv, setup' = setup, TakenGrows,
         NEW m \in Nodes, NEW p \in DOMAIN pubs[m], Grows(m, p), calls'[m][p] = calls[m][p]
  PROVE  /\ ReachedAt(m, p)'
         /\ \A f \in taken'[m] : Calm(m, p, f)' => Underway(m, p, f)'
<1>1. /\ \A f : Calm(m, p, f)' <=> Calm(m, p, f)
      /\ SendersOf(m, p)' = SendersOf(m, p)
  BY SetupConstants
<1>2. Busy(m, p)' <=> Busy(m, p)
  BY DEF Busy
<1>3. ReachedAt(m, p)'
  <2> SUFFICES ASSUME Busy(m, p), Calm(m, p, calls[m][p].file), NEW k \in DOMAIN SendersOf(m, p),
                      k < calls[m][p].pos
               PROVE  calls[m][p].file \in taken'[SendersOf(m, p)[k].to]
    BY <1>1, <1>2 DEF ReachedAt
  <2>1. calls[m][p].file \in taken[SendersOf(m, p)[k].to]
    BY DEF SpreadInv, ReachedAt
  <2>2. SendersOf(m, p)[k].to \in Nodes
    BY RecipientsFacts DEF NetworkInv, Calm
  <2> QED
    BY <2>1, <2>2 DEF TakenGrows
<1>4. \A f : Busy(m, p) /\ calls[m][p].file = f => Underway(m, p, f)'
  BY <1>2 DEF Underway
<1>5. \A f \in taken'[m] : Calm(m, p, f)' => Underway(m, p, f)'
  BY <1>4, UnderwayStays
<1> QED
  BY <1>3, <1>5

(* Elsewhere there is nothing to show. *)
LEMMA NotQuiet ==
  ASSUME setup' = setup, ~Quiet
  PROVE  QuietInv' /\ SpreadInv'
<1>1. ~Quiet' /\ \A n, p, f : ~Calm(n, p, f)'
  BY SetupConstants DEF Quiet, Calm
<1> QED
  BY <1>1 DEF QuietInv, SpreadInv, ReachedAt

(* A step of consumer p of n, whose call is c before and e after it.       *)
LEMMA ConsumerSteps ==
  ASSUME NetworkInv, NetworkInv', SpreadInv, setup' = setup, TakenGrows,
         NEW n \in Nodes, NEW p \in DOMAIN pubs[n],
         \A m \in Nodes : \A q \in DOMAIN pubs[m] : Grows(m, q) \/ (m = n /\ q = p),
         \A m \in Nodes : \A q \in DOMAIN pubs[m] :
           m # n \/ q # p => calls'[m][q] = calls[m][q],
         ReachedAt(n, p)',
         \A f \in taken'[n] : Calm(n, p, f)' => Underway(n, p, f)'
  PROVE  SpreadInv'
<1>1. pubs' = pubs
  BY DEF setup
<1>2. ASSUME NEW m \in Nodes, NEW q \in DOMAIN pubs[m]
      PROVE  /\ ReachedAt(m, q)'
             /\ \A f \in taken'[m] : Calm(m, q, f)' => Underway(m, q, f)'
  <2>1. CASE m = n /\ q = p
    BY <2>1
  <2>2. CASE m # n \/ q # p
    BY <2>2, OtherConsumers
  <2> QED
    BY <2>1, <2>2
<1> QED
  BY <1>1, <1>2 DEF SpreadInv

LEMMA ComeInSpreads ==
  ASSUME NetworkInv, NetworkInv', QuietInv, SpreadInv, Quiet,
         NEW n \in Nodes, NEW f \in Files, ComeIn(n, f)
  PROVE  QuietInv' /\ SpreadInv'
<1>1. StoreFile(n, "runner", f) /\ setup' = setup /\ calls' = calls /\ f \in net.incoming[n]
  BY ComeInKeepsInv DEF ComeIn
<1>2. Welcomes(n, f) => \E s \in DOMAIN subs[n] :
                          /\ subs[n][s].allowed = {} \/ "runner" \in subs[n][s].allowed
                          /\ f \in subs[n][s].filter
  BY <1>1 DEF Welcomes
<1>3. /\ \A m \in Nodes : QuietAt(m)'
      /\ TakenGrows /\ \A m \in Nodes : \A p \in DOMAIN pubs[m] : Grows(m, p)
  BY <1>1, <1>2, Stored DEF TakenGrows, Grows
<1>4. pubs' = pubs
  BY <1>1 DEF setup
<1>5. SpreadInv'
  BY <1>1, <1>3, <1>4, OtherConsumers DEF SpreadInv
<1> QED
  BY <1>3, <1>5 DEF QuietInv

LEMMA TakeSpreads ==
  ASSUME NetworkInv, NetworkInv', QuietInv, SpreadInv,
         NEW n \in Nodes, NEW p \in DOMAIN pubs[n], Take(n, p)
  PROVE  QuietInv' /\ SpreadInv'
<1> DEFINE q == queues[n][p]
           d == Called(pubs[n][p].connection, Head(q))
<1>1. /\ ~Busy(n, p) /\ q # <<>> /\ setup' = setup /\ handled' = handled /\ taken' = taken
      /\ calls' = [calls EXCEPT ![n][p] = d] /\ CallInv(n, p, d)
      /\ \A m \in Nodes : \A r \in DOMAIN pubs[m] :
           queues'[m][r] = IF m = n /\ r = p THEN Tail(q) ELSE queues[m][r]
  BY TakeFacts, TakenCallIsGood DEF Take
<1>3. d.outcome = "busy" /\ d.file = Head(q) /\ d.pos = 1
  BY DEF Called
<1> HIDE DEF q, d
<1>2. calls'[n][p] = d /\ \A m \in Nodes : \A r \in DOMAIN pubs[m] :
        m # n \/ r # p => calls'[m][r] = calls[m][r]
  <2>1. SetupInv /\ CallsInv
    BY DEF NetworkInv
  <2>2. setup' = setup /\ CallInv(n, p, d) /\ calls' = [calls EXCEPT ![n][p] = d]
    BY <1>1
  <2> QED
    BY ZenonT(60), <2>1, <2>2, CallKeepsInv
<1>4. /\ \A m \in Nodes : \A r \in DOMAIN pubs[m] : queues[m][r] \in Seq(Wanted(m, r))
      /\ q \in Seq(Wanted(n, p))
  BY DEF NetworkInv, StoreInv, q
<1>5. /\ Len(Tail(q)) <= Len(q)
      /\ \A i \in DOMAIN q : i = 1 \/ (i - 1 \in DOMAIN Tail(q) /\ Tail(q)[i - 1] = q[i])
      /\ Head(q) = q[1]
  BY <1>1, <1>4
<1>6. QuietInv'
  <2>1. ASSUME NEW m \in Nodes, NEW r \in DOMAIN pubs[m]
        PROVE  Len(queues'[m][r]) <= Len(queues[m][r])
    <3>1. CASE m = n /\ r = p
      BY <1>1, <1>5, <3>1 DEF q
    <3>2. CASE ~(m = n /\ r = p)
      <4>1. Len(queues[m][r]) \in Nat
        BY <1>4
      <4> QED
        BY <1>1, <3>2, <4>1
    <3> QED
      BY <3>1, <3>2
  <2> QED
    BY <1>1, <2>1, NothingStored
<1>7. TakenGrows /\ \A m \in Nodes : \A r \in DOMAIN pubs[m] : Grows(m, r) \/ (m = n /\ r = p)
  BY <1>1 DEF TakenGrows, Grows, Waits
<1>8. ReachedAt(n, p)'
  <2>1. /\ SendersOf(n, p)' = SendersOf(n, p)
        /\ \A f : Calm(n, p, f)' => ~pubs[n][p].connection.combined
    BY <1>1, SetupConstants DEF Calm
  <2>2. ASSUME ~pubs[n][p].connection.combined
        PROVE  \A k \in DOMAIN SendersOf(n, p) : ~(k < 1)
    BY <2>2, RecipientsFacts DEF NetworkInv
  <2>3. calls'[n][p].pos = 1
    BY <1>2, <1>3
  <2> QED
    BY <2>1, <2>2, <2>3 DEF ReachedAt
<1>9. \A f \in taken'[n] : Calm(n, p, f)' => Underway(n, p, f)'
  <2> SUFFICES ASSUME NEW f \in taken[n], Calm(n, p, f) PROVE Underway(n, p, f)'
    BY <1>1, SetupConstants
  <2>1. CASE Waits(n, p, f)
    <3>1. PICK i \in DOMAIN q : q[i] = f
      BY <2>1 DEF Waits, q
    <3>2. CASE i = 1
      BY <1>2, <1>3, <1>5, <3>1, <3>2 DEF Underway, Busy
    <3>3. CASE i # 1
      <4>1. Waits(n, p, f)'
        BY <1>1, <1>5, <3>1, <3>3 DEF Waits
      <4> QED
        BY <4>1 DEF Underway
    <3> QED
      BY <3>2, <3>3
  <2>2. CASE Spread(n, p, f)
    <3>1. Spread(n, p, f)'
      BY <1>1, <2>2, SpreadStays
    <3> QED
      BY <3>1 DEF Underway
  <2> QED
    BY <1>1, <2>1, <2>2 DEF SpreadInv, Underway
<1> QED
  BY <1>1, <1>2, <1>6, <1>7, <1>8, <1>9, ConsumerSteps

(* What a connection that is not combined does next. *)
LEMMA EndsOnce ==
  ASSUME NEW g, NEW c \in CallsOn(g), ~g.combined
  PROVE  SendersExhausted(c).outcome # "busy"
BY DEF CallsOn, SendersExhausted, PartRaises, PartReturns

LEMMA SendToServerSpreads ==
  ASSUME NetworkInv, NetworkInv', QuietInv, SpreadInv, Quiet,
         NEW n \in Nodes, NEW p \in DOMAIN pubs[n], SendToServer(n, p)
  PROVE  QuietInv' /\ SpreadInv'
<1>0. PICK f : f = calls[n][p].file
  OBVIOUS
<1> DEFINE c == calls[n][p]
           g == pubs[n][p].connection
           S == SendersOf(n, p)
           to == Sender(c).to
<1>1. /\ InSender(c) /\ to \in Nodes /\ f \in Wanted(n, p) /\ c.outcome = "busy"
      /\ \/ n \in hears[to] /\ StoreFile(to, n, f)
         \/ n \notin hears[to] /\ UNCHANGED <<handled, queues, taken>>
      /\ setup' = setup
  BY <1>0, SendToServerFacts DEF Quiet
<1>2. PICK r : /\ Possible(r, Sender(c).kind) /\ calls' = [calls EXCEPT ![n][p] = Ended(c, r)]
               /\ r = Answer(to, n, f)
  BY <1>0, SendToServerFacts DEF Quiet
<1> DEFINE e == Ended(c, r)
<1>3. c \in CallsOn(g) /\ Good(c) /\ IsConnection(g, Everyone) /\ pubs' = pubs
  BY <1>1 DEF NetworkInv, CallsInv, CallInv, SetupInv, setup
<1>4. EndsAs(g, c, r, e) /\ CallInv(n, p, e)
  BY <1>1, <1>2, <1>3, EndedCases, SentCallIsGood
<1>5. /\ c.part \in DOMAIN g.parts /\ c.pos \in DOMAIN g.parts[c.part].senders
      /\ Running(c) = g.parts[c.part] /\ to = g.parts[c.part].senders[c.pos].to
  BY <1>1, <1>3, InSenderFacts
<1>6. to \in Recipients(n, p)
  <2> DEFINE To(i) == {g.parts[i].senders[k].to : k \in DOMAIN g.parts[i].senders}
  <2>1. to \in To(c.part)
    BY <1>5
  <2>2. Recipients(n, p) = UNION {To(i) : i \in DOMAIN g.parts}
    BY DEF Recipients
  <2> HIDE DEF To, to, c, g
  <2> QED
    BY <1>5, <2>1, <2>2
<1> HIDE DEF e
<1>7. calls'[n][p] = e /\ \A m \in Nodes : \A q \in DOMAIN pubs[m] :
        m # n \/ q # p => calls'[m][q] = calls[m][q]
  <2>1. SetupInv /\ CallsInv
    BY DEF NetworkInv
  <2>2. calls' = [calls EXCEPT ![n][p] = e]
    BY <1>2 DEF e
  <2>3. setup' = setup /\ CallInv(n, p, e)
    BY <1>1, <1>4
  <2> QED
    BY ZenonT(60), <2>1, <2>2, <2>3, CallKeepsInv
<1>8. Welcomes(to, f) => n \in hears[to]
        /\ \E s \in DOMAIN subs[to] :
             /\ subs[to][s].allowed = {} \/ n \in subs[to][s].allowed
             /\ f \in subs[to][s].filter
  BY <1>1, <1>6 DEF Welcomes, Wanted
<1> HIDE DEF c, g, S, to
<1>9. /\ \A m \in Nodes : QuietAt(m)'
      /\ TakenGrows /\ \A m \in Nodes : \A q \in DOMAIN pubs[m] : Grows(m, q)
      /\ Welcomes(to, f) => f \in taken'[to]
  <2>1. CASE n \in hears[to] /\ StoreFile(to, n, f)
    <3>1. f \in Files
      BY <1>1 DEF Wanted
    <3> QED
      BY <1>1, <1>8, <2>1, <3>1, Stored DEF TakenGrows, Grows
  <2>2. CASE n \notin hears[to] /\ UNCHANGED <<handled, queues, taken>>
    <3>1. \A m \in Nodes : \A q \in DOMAIN pubs[m] :
            queues'[m][q] = queues[m][q] /\ Len(queues[m][q]) \in Nat
      BY <2>2 DEF NetworkInv, StoreInv
    <3>2. QuietInv'
      BY <1>1, <2>2, <3>1, NothingStored
    <3>3. \A m \in Nodes : QuietAt(m)'
      BY <1>1, <3>2, SetupConstants DEF QuietInv
    <3> QED
      BY <1>8, <2>2, <3>3 DEF TakenGrows, Grows, Waits
  <2> QED
    BY <1>1, <2>1, <2>2
<1>10. ASSUME Calm(n, p, f)
       PROVE  /\ ~g.combined /\ c.part = 1 /\ Running(c) = g.parts[1] /\ c.pos \in DOMAIN S /\ to = S[c.pos].to
              /\ Welcomes(to, f) /\ f \in taken'[to]
              /\ \A k \in DOMAIN S : k < c.pos => f \in taken'[S[k].to]
  <2>1. ~g.combined /\ Welcomes(to, f)
    BY <1>6, <1>10 DEF Calm, g
  <2>2. c.part = 1
    BY <1>1, <1>3, <2>1, CallTypes DEF Good, Keeping
  <2>3. Running(c) = g.parts[1] /\ c.pos \in DOMAIN S /\ to = S[c.pos].to
    BY <1>5, <2>2 DEF S, SendersOf, g
  <2>4. \A k \in DOMAIN S : S[k].to \in Nodes
    BY <1>10, <2>1, RecipientsFacts DEF Calm, NetworkInv, g, S
  <2>5. \A k \in DOMAIN S : k < c.pos => f \in taken[S[k].to]
    BY <1>0, <1>1, <1>10 DEF SpreadInv, ReachedAt, Busy, c, S
  <2> QED
    BY <1>9, <2>1, <2>2, <2>3, <2>4, <2>5 DEF TakenGrows
<1>11. /\ \A f1 : Calm(n, p, f1)' <=> Calm(n, p, f1)
       /\ SendersOf(n, p)' = S /\ Recipients(n, p)' = Recipients(n, p)
  BY <1>1, SetupConstants DEF S
<1>12. e.file = f
  BY <1>0, <1>4 DEF EndsAs, c
<1>13. ASSUME Calm(n, p, f)
       PROVE  \/ Spread(n, p, f)' /\ e.outcome # "busy"
              \/ /\ e.outcome = "busy"
                 /\ \A k \in DOMAIN S : k < e.pos => f \in taken'[S[k].to]
  <2> DEFINE have == {m \in Nodes \cap Recipients(n, p) : f \in taken'[m]}
  <2>1. Spread(n, p, f)' <=> IF g.parts[1].kind = "failover" THEN have # {}
                             ELSE have = Recipients(n, p)
    BY <1>3, <1>11 DEF Spread, g
  <2>2. to \in have
    BY <1>1, <1>6, <1>10, <1>13
  <2>3. Kind(c) = g.parts[1].kind /\ Kind(c) \in PartKinds
    BY <1>3, <1>10, <1>13, RecipientsFacts DEF Kind, NetworkInv, g
  <2>4. CASE Kind(c) = "simple"
    <3>1. Recipients(n, p) = {to}
      <4>1. DOMAIN S = {1} /\ Recipients(n, p) = {S[k].to : k \in DOMAIN S}
        <5>1. Len(S) = 1 /\ DOMAIN S = 1..Len(S) /\ Recipients(n, p) = {S[k].to : k \in DOMAIN S}
          BY <1>10, <1>13, <2>3, <2>4, RecipientsFacts DEF NetworkInv, g, S
        <5> QED
          BY <5>1
      <4>2. to = S[1].to
        BY <1>10, <1>13, <4>1
      <4> QED
        BY <4>1, <4>2
    <3>2. Spread(n, p, f)'
      BY <2>1, <2>2, <2>3, <2>4, <3>1
    <3>3. e.outcome # "busy"
      BY <1>3, <1>4, <1>10, <1>13, <2>4, CallTypes DEF EndsAs, GivesUp, PartIsOver
    <3> QED
      BY <3>2, <3>3
  <2>5. CASE Kind(c) # "simple" /\ GoesOn(c, e)
    <3>1. e.outcome = "busy" /\ e.pos = c.pos + 1
      BY <1>1, <2>5 DEF GoesOn
    <3>2. \A k \in DOMAIN S : k < e.pos => k < c.pos \/ k = c.pos
      BY <1>3, <1>10, <1>13, <3>1, CallTypes, RecipientsFacts DEF NetworkInv, g, S
    <3> QED
      BY <1>10, <1>13, <3>1, <3>2
  <2>6. CASE Kind(c) = "failover" /\ PartIsOver(c, e)
    <3>1. e.outcome # "busy"
      BY <1>3, <1>10, <1>13, <2>6, CallTypes DEF PartIsOver
    <3> QED
      BY <2>1, <2>2, <2>3, <2>6, <3>1
  <2> QED
    BY <1>4, <2>3, <2>4, <2>5, <2>6 DEF EndsAs, PartKinds
<1>14. ReachedAt(n, p)'
  BY <1>7, <1>11, <1>12, <1>13 DEF ReachedAt, Busy
<1>15. ASSUME NEW f1, Busy(n, p), calls[n][p].file = f1, Calm(n, p, f1)
       PROVE  Underway(n, p, f1)'
  <2>1. f1 = f
    BY <1>0, <1>15
  <2> QED
    BY <1>7, <1>12, <1>13, <1>15, <2>1 DEF Underway, Busy
<1>16. \A f1 \in taken'[n] : Calm(n, p, f1)' => Underway(n, p, f1)'
  BY <1>1, <1>9, <1>15, UnderwayStays
<1>17. SpreadInv'
  BY <1>1, <1>7, <1>9, <1>14, <1>16, ConsumerSteps
<1> QED
  BY <1>9, <1>17 DEF QuietInv

(* Steps of a consumer that store nothing; those that end the publish of a *)
(* calm publication leave the file where it was to go.                     *)
LEMMA NoStoreSpreads ==
  ASSUME NetworkInv, NetworkInv', QuietInv, SpreadInv,
         NEW n \in Nodes, NEW p \in DOMAIN pubs[n],
         UNCHANGED <<setup, handled, incoming, queues, taken, restarts>>,
         NEW d, CallInv(n, p, d), calls' = [calls EXCEPT ![n][p] = d], Busy(n, p),
         NEW f, calls[n][p].file = f, d.file = f,
         Calm(n, p, f) => d.outcome # "busy" /\ Spread(n, p, f)
  PROVE  QuietInv' /\ SpreadInv'
<1>1. calls'[n][p] = d /\ \A m \in Nodes : \A q \in DOMAIN pubs[m] :
        m # n \/ q # p => calls'[m][q] = calls[m][q]
  <2>1. SetupInv /\ CallsInv /\ setup' = setup
    BY DEF NetworkInv
  <2> QED
    BY ZenonT(60), <2>1, CallKeepsInv
<1>2. QuietInv'
  <2>1. \A m \in Nodes : \A q \in DOMAIN pubs[m] :
          queues'[m][q] = queues[m][q] /\ Len(queues[m][q]) \in Nat
    BY DEF NetworkInv, StoreInv
  <2> QED
    BY <2>1, NothingStored
<1>3. TakenGrows /\ \A m \in Nodes : \A q \in DOMAIN pubs[m] : Grows(m, q)
  BY DEF TakenGrows, Grows, Waits
<1>4. \A f1 : Calm(n, p, f1)' <=> Calm(n, p, f1)
  BY SetupConstants
<1>5. ReachedAt(n, p)'
  BY <1>1, <1>4 DEF ReachedAt, Busy
<1>6. ASSUME NEW f1, Busy(n, p), calls[n][p].file = f1, Calm(n, p, f1)
      PROVE  Underway(n, p, f1)'
  <2>1. f1 = f /\ Spread(n, p, f1)
    BY <1>6
  <2>2. Spread(n, p, f1)'
    BY <1>3, <1>6, <2>1, SpreadStays DEF TakenGrows
  <2> QED
    BY <2>2 DEF Underway
<1>7. \A f1 \in taken'[n] : Calm(n, p, f1)' => Underway(n, p, f1)'
  BY <1>3, <1>6, UnderwayStays
<1>8. SpreadInv'
  BY <1>1, <1>3, <1>5, <1>7, ConsumerSteps
<1> QED
  BY <1>2, <1>8

LEMMA SendElsewhereSpreads ==
  ASSUME NetworkInv, NetworkInv', QuietInv, SpreadInv,
         NEW n \in Nodes, NEW p \in DOMAIN pubs[n], SendElsewhere(n, p)
  PROVE  QuietInv' /\ SpreadInv'
<1>0. PICK f : f = calls[n][p].file
  OBVIOUS
<1> DEFINE c == calls[n][p]
           g == pubs[n][p].connection
<1>1. /\ InSender(c) /\ Sender(c).to \notin Nodes
      /\ UNCHANGED <<setup, handled, incoming, queues, taken, restarts>>
  BY SendElsewhereFacts
<1>2. PICK r : Possible(r, Sender(c).kind) /\ calls' = [calls EXCEPT ![n][p] = Ended(c, r)]
  BY SendElsewhereFacts
<1> DEFINE e == Ended(c, r)
<1>3. c \in CallsOn(g) /\ Good(c) /\ IsConnection(g, Everyone) /\ Busy(n, p)
  BY <1>1 DEF NetworkInv, CallsInv, CallInv, SetupInv, InSender, InPart, Busy
<1>4. EndsAs(g, c, r, e) /\ CallInv(n, p, e)
  BY <1>1, <1>2, <1>3, EndedCases, SentCallIsGood
<1>5. c.part \in DOMAIN g.parts /\ Sender(c) = g.parts[c.part].senders[c.pos]
      /\ c.pos \in DOMAIN g.parts[c.part].senders
  BY <1>1, <1>3, InSenderFacts
<1>6. ~Calm(n, p, f)
  <2> SUFFICES ASSUME Calm(n, p, f) PROVE FALSE
    OBVIOUS
  <2>1. ~g.combined
    BY DEF Calm
  <2>2. c.part = 1
    BY <1>1, <1>3, <2>1, CallTypes DEF Good, Keeping, InSender, InPart
  <2>3. Sender(c).to \in Recipients(n, p)
    BY <1>5, <2>1, <2>2, RecipientsFacts DEF NetworkInv, SendersOf
  <2> QED
    BY <1>1, <2>3 DEF Calm
<1>7. e.file = f
  BY <1>0, <1>4 DEF EndsAs
<1>8. calls' = [calls EXCEPT ![n][p] = e]
  BY <1>2
<1> HIDE DEF e
<1> QED
  BY <1>0, <1>1, <1>3, <1>4, <1>6, <1>7, <1>8, NoStoreSpreads

LEMMA EndOfSendersSpreads ==
  ASSUME NetworkInv, NetworkInv', QuietInv, SpreadInv,
         NEW n \in Nodes, NEW p \in DOMAIN pubs[n], EndOfSenders(n, p)
  PROVE  QuietInv' /\ SpreadInv'
<1>0. PICK f : f = calls[n][p].file
  OBVIOUS
<1> DEFINE c == calls[n][p]
           g == pubs[n][p].connection
           S == SendersOf(n, p)
           d == SendersExhausted(c)
<1>1. /\ CallInv(n, p, d) /\ InPart(c) /\ calls' = [calls EXCEPT ![n][p] = d]
      /\ c.pos = Len(g.parts[c.part].senders) + 1
      /\ UNCHANGED <<setup, handled, incoming, queues, taken, restarts>>
  BY EndOfSendersFacts
<1>2. c \in CallsOn(g) /\ Good(c) /\ IsConnection(g, Everyone) /\ Busy(n, p) /\ c.outcome = "busy"
  BY <1>1 DEF NetworkInv, CallsInv, CallInv, SetupInv, InPart, Busy
<1>3. d.file = f
  <2>1. ~InSender(c)
    BY DEF EndOfSenders
  <2> QED
    BY <1>0, <1>1, <1>2, <2>1, ExhaustedIsGood DEF IsAfter
<1>4. ASSUME Calm(n, p, f) PROVE d.outcome # "busy" /\ Spread(n, p, f)
  <2>1. ~g.combined /\ Recipients(n, p) # {} /\ Recipients(n, p) \subseteq Nodes
    BY <1>4 DEF Calm
  <2>2. c.part = 1
    BY <1>2, <2>1, CallTypes DEF Good, Keeping
  <2>3. /\ DOMAIN S = 1..Len(S) /\ Len(S) \in Nat /\ c.pos = Len(S) + 1
        /\ Recipients(n, p) = {S[k].to : k \in DOMAIN S}
    BY <1>1, <2>1, <2>2, RecipientsFacts DEF NetworkInv, SendersOf
  <2>4. \A k \in DOMAIN S : k < c.pos => f \in taken[S[k].to]
    BY <1>0, <1>2, <1>4 DEF SpreadInv, ReachedAt
  <2>5. \A m \in Recipients(n, p) : f \in taken[m]
    BY <2>3, <2>4
  <2>6. Spread(n, p, f)
    BY <2>1, <2>5 DEF Spread
  <2> QED
    BY <1>2, <2>1, <2>6, EndsOnce
<1> HIDE DEF d
<1> QED
  BY <1>0, <1>1, <1>2, <1>3, <1>4, NoStoreSpreads

LEMMA EndOfPartsSpreads ==
  ASSUME NetworkInv, NetworkInv', QuietInv, SpreadInv,
         NEW n \in Nodes, NEW p \in DOMAIN pubs[n], EndOfParts(n, p)
  PROVE  QuietInv' /\ SpreadInv'
<1>0. PICK f : f = calls[n][p].file
  OBVIOUS
<1> DEFINE d == CombinedReturns(calls[n][p])
<1>1. /\ CallInv(n, p, d) /\ pubs[n][p].connection.combined
      /\ calls' = [calls EXCEPT ![n][p] = d]
      /\ UNCHANGED <<setup, handled, incoming, queues, taken, restarts>>
  BY EndOfPartsFacts
<1>2. Busy(n, p) /\ ~InPart(calls[n][p])
  BY DEF EndOfParts
<1>3. d.file = f
  <2>1. /\ calls[n][p] \in CallsOn(pubs[n][p].connection) /\ Good(calls[n][p])
        /\ IsConnection(pubs[n][p].connection, Everyone) /\ calls[n][p].outcome = "busy"
    BY <1>2 DEF NetworkInv, CallsInv, CallInv, SetupInv, Busy
  <2> QED
    BY <1>0, <1>2, <2>1, CombinedIsGood DEF IsAfter
<1>4. ~Calm(n, p, f)
  BY <1>1 DEF Calm
<1> HIDE DEF d
<1> QED
  BY <1>0, <1>1, <1>2, <1>3, <1>4, NoStoreSpreads

LEMMA InitSpreads ==
  Init => QuietInv /\ SpreadInv
<1> SUFFICES ASSUME Init PROVE QuietInv /\ SpreadInv
  OBVIOUS
<1>1. NetworkInv
  BY InitNetworkInv
<1>2. ASSUME NEW n \in Nodes PROVE QuietAt(n)
  <2>1. handled[n] = <<>> /\ taken[n] = {} /\ \A p \in DOMAIN pubs[n] : queues[n][p] = <<>>
    BY DEF Init
  <2>2. Known(n) = {}
    BY <2>1 DEF Known
  <2>3. Cardinality(Known(n)) = 0 /\ Len(<<>>) = 0 /\ Cardinality(DOMAIN subs[n]) \in Nat
    BY <1>1, <2>2, FS_EmptySet, NetFacts DEF NetworkInv
  <2>4. Cardinality(Known(n)) * Cardinality(DOMAIN subs[n]) = 0
    BY <2>3
  <2> QED
    BY <2>1, <2>2, <2>3, <2>4 DEF QuietAt
<1>3. ASSUME NEW n \in Nodes, NEW p \in DOMAIN pubs[n] PROVE ~Busy(n, p) /\ taken[n] = {}
  <2>1. calls[n] = NoCalls(pubs[n]) /\ taken[n] = {}
    BY DEF Init
  <2>2. calls[n][p].outcome = "idle"
    BY <1>1, <2>1, NoCallsAreGood DEF NetworkInv
  <2> QED
    BY <2>1, <2>2 DEF Busy
<1> QED
  BY <1>2, <1>3 DEF QuietInv, SpreadInv, ReachedAt

LEMMA NextSpreads ==
  ASSUME NetworkInv, QuietInv, SpreadInv, [Next]_vars
  PROVE  QuietInv' /\ SpreadInv'
<1>1. NetworkInv' /\ setup' = setup
  BY NextKeepsNetworkInv
<1>2. CASE ~Quiet
  BY <1>1, <1>2, NotQuiet
<1>3. CASE Quiet
  <2>1. CASE UNCHANGED vars
    <3>1. setup' = setup /\ queues' = queues /\ taken' = taken /\ calls' = calls /\ pubs' = pubs
          /\ handled' = handled
      BY <2>1 DEF vars, setup
    <3>2. \A m \in Nodes : \A p \in DOMAIN pubs[m] :
            queues'[m][p] = queues[m][p] /\ Len(queues[m][p]) \in Nat
      BY <3>1 DEF NetworkInv, StoreInv
    <3>3. QuietInv'
      BY <1>1, <3>1, <3>2, NothingStored
    <3>4. TakenGrows /\ \A m \in Nodes : \A p \in DOMAIN pubs[m] : Grows(m, p)
      BY <3>1 DEF TakenGrows, Grows, Waits
    <3> QED
      BY <3>1, <3>3, <3>4, OtherConsumers DEF SpreadInv
  <2>2. ASSUME NEW n \in Nodes, NEW f \in Files, ComeIn(n, f) PROVE QuietInv' /\ SpreadInv'
    BY <1>1, <1>3, <2>2, ComeInSpreads
  <2>3. ASSUME NEW n \in Nodes, NEW p, Consume(n, p) PROVE QuietInv' /\ SpreadInv'
    BY <1>1, <1>3, <2>3, TakeSpreads, SendToServerSpreads, SendElsewhereSpreads,
       EndOfSendersSpreads, EndOfPartsSpreads DEF Consume
  <2>4. ASSUME NEW n \in Nodes, Restart(n) PROVE FALSE
    BY <1>3, <2>4, RestartFacts DEF Quiet
  <2> QED
    BY <2>1, <2>2, <2>3, <2>4 DEF Next
<1> QED
  BY <1>2, <1>3

(* In any network, with cycles, several ways and copies that meet: when    *)
(* nothing is lost and the servers are at rest, no recipient of a calm     *)
(* publication lacks a file that its server took.                          *)
THEOREM FilesReachEverybody == Spec => []FilesSpread
<1> DEFINE Inv == NetworkInv /\ QuietInv /\ SpreadInv
<1>1. Init => Inv
  BY InitNetworkInv, InitSpreads
<1>2. Inv /\ [Next]_vars => Inv'
  BY NextKeepsNetworkInv, NextSpreads
<1>3. Inv => FilesSpread
  <2> SUFFICES ASSUME Inv, AtRest, NEW n \in Nodes, NEW p \in DOMAIN pubs[n], NEW f \in taken[n],
                      Calm(n, p, f)
               PROVE  Spread(n, p, f)
    BY DEF FilesSpread
  <2>1. Underway(n, p, f) /\ ~Busy(n, p) /\ queues[n][p] = <<>>
    BY DEF SpreadInv, AtRest
  <2>2. ~Waits(n, p, f)
    BY <2>1 DEF Waits
  <2> QED
    BY <2>1, <2>2 DEF Underway
<1> QED
  BY <1>1, <1>2, <1>3, PTL DEF Spec
=============================================================================
