----------------------------- MODULE PartsProofs -----------------------------
(***************************************************************************)
(* What the requests promise: those that the middlewares share             *)
(* (RequestSharing), for any number of backends and concurrent calls and   *)
(* any mix of GraphQL operations, methods and filters, and the one that a  *)
(* router builds (RequestBuilder), for lists of any length.  And what Init *)
(* promises of a configuration (ConfigInit), for any set of them.          *)
(***************************************************************************)
EXTENDS RequestSharing, RequestBuilder, ConfigInit, FiniteSetTheorems, TLAPS

Calls == 1 .. MaxCalls

\* How far the merger is: it has launched the parts below next, and in a
\* sequential endpoint it goes on when the last one of them has returned.
MergerInv ==
    /\ pos[Merger] \in {"params", "clone", "await", "ok"}
    /\ \A p \in Parts : pos[<<p, 0>>] = "off" <=> p >= next[Merger]
    /\ pos[Merger] \in {"params", "clone"} => next[Merger] <= NumParts
    /\ pos[Merger] = "await" => next[Merger] > 1
    /\ pos[Merger] = "params" => conf.sequential
    /\ (pos[Merger] = "await" /\ ~conf.sequential) => next[Merger] > NumParts
    /\ conf.sequential =>
          \A p \in Parts :
              (p < next[Merger] - (IF pos[Merger] = "await" THEN 1 ELSE 0)
                 /\ pos[Merger] # "ok")
                  => pos[<<p, 0>>] \in {"ok", "failed"}

\* How far the parts and their calls are: a part spawns its calls one by one.
PartsInv ==
    \A p \in Parts :
        /\ pos[<<p, 0>>] \in {"off", "qfilter", "build", "spawn", "ok", "failed"}
        /\ pos[<<p, 0>>] \in {"off", "qfilter", "build"} => next[<<p, 0>>] = 1
        /\ pos[<<p, 0>>] \in {"ok", "failed"} => next[<<p, 0>>] > conf.calls[p]
        /\ \A c \in Calls :
              /\ pos[<<p, c>>] \in {"off", "balance", "filter", "graphql", "http",
                                      "ok", "failed"}
              /\ pos[<<p, c>>] # "off" <=> c < next[<<p, 0>>]

\* The objects of a deep clone: its own, but for the query and for the last
\* call of a part, which gets the request of the part.
Cloned == {"headers", "params", "body"}

OwnPart(p) ==
    pos[<<p, 0>>] # "off" => \A k \in Cloned : req[<<p, 0>>][k] = <<p, 0>>

OwnCall(p, c) ==
    pos[<<p, c>>] # "off" =>
        \A k \in Cloned : \/ req[<<p, c>>][k] = <<p, c>>
                          \/ c = conf.calls[p] /\ req[<<p, c>>][k] = <<p, 0>>

OwnInv ==
    conf.deep =>
        /\ \A k \in Cloned : req[Merger][k] = Merger
        /\ \A p \in Parts : OwnPart(p)
        /\ \A p \in Parts, c \in Calls : OwnCall(p, c)

\* The bodies that somebody is still going to read.
Live == {"balance", "filter", "graphql", "http"}

BodyPart(p) ==
    (pos[<<p, 0>>] # "off" /\ next[<<p, 0>>] <= conf.calls[p]) => full[<<p, 0>>]

BodyCall(p, c) == pos[<<p, c>>] \in Live => full[req[<<p, c>>]["body"]]

BodyInv ==
    (conf.deep /\ conf.hasBody) =>
        /\ full[Merger]
        /\ \A p \in Parts : BodyPart(p)
        /\ \A p \in Parts, c \in Calls : BodyCall(p, c)

\* Whose the query maps are, and what is in them.
QueryPart(p) ==
    /\ pos[<<p, 0>>] # "off" => req[<<p, 0>>]["query"] \in {Merger, <<p, 0>>}
    /\ (pos[<<p, 0>>] \notin {"off", "qfilter"} /\ conf.dropsQuery[p])
           => req[<<p, 0>>]["query"] = <<p, 0>>

QueryCall(p, c) ==
    pos[<<p, c>>] # "off" => req[<<p, c>>]["query"] = req[<<p, 0>>]["query"]

GetsHaveTheirQuery == \A p \in Parts : conf.get[p] => conf.dropsQuery[p]

QueryInv ==
    /\ req[Merger]["query"] = Merger
    /\ \A p \in Parts : QueryPart(p)
    /\ \A p \in Parts, c \in Calls : QueryCall(p, c)
    /\ GetsHaveTheirQuery =>
          /\ tags[Merger] \subseteq {Client}
          /\ \A p \in Parts : tags[<<p, 0>>] \subseteq {Client, p}

SharingIInv == /\ SharingTypeOK /\ MergerInv /\ PartsInv
               /\ OwnInv /\ BodyInv /\ QueryInv
               /\ BodiesAreWhole /\ UrlsDoNotMix

-----------------------------------------------------------------------------
\* The actors are pairs.
LEMMA ActorFacts ==
    /\ Merger \in Actors
    /\ \A p \in Parts, c \in 0 .. MaxCalls :
          <<p, c>> \in Actors /\ <<p, c>> # Merger /\ <<p, c>>[1] = p
    /\ \A p \in Parts : <<p, 0>> \in Actors /\ <<p, 0>> # Merger
    /\ \A p \in Parts, c \in Calls : <<p, c>> \in Actors /\ <<p, c>> # Merger
    /\ \A a \in Actors :
          a = Merger \/ \E p \in Parts, c \in 0 .. MaxCalls : a = <<p, c>>
    /\ 0 \in 0 .. MaxCalls /\ Calls \subseteq 0 .. MaxCalls /\ 0 \notin Calls
    /\ \A a \in Parts \X Calls :
          /\ a \in Actors /\ a[1] \in Parts /\ a[2] \in Calls /\ a = <<a[1], a[2]>>
          /\ a # Merger /\ \A p \in Parts : a # <<p, 0>>
    /\ Parts \subseteq Nat \ {0} /\ Calls \subseteq Nat \ {0}
    /\ NumParts \in Nat /\ MaxCalls \in Nat
<1> USE ConfigsAssumption DEF Actors, Merger, Parts, Calls
<1>1. Merger \in Actors
  OBVIOUS
<1>2. \A p \in Parts, c \in 0 .. MaxCalls :
          <<p, c>> \in Actors /\ <<p, c>> # Merger /\ <<p, c>>[1] = p
  OBVIOUS
<1>3. 0 \in 0 .. MaxCalls /\ Calls \subseteq 0 .. MaxCalls /\ 0 \notin Calls
  OBVIOUS
<1>4. \A a \in Actors :
          a = Merger \/ \E p \in Parts, c \in 0 .. MaxCalls : a = <<p, c>>
  OBVIOUS
<1>5. \A a \in Parts \X Calls :
          /\ a \in Actors /\ a[1] \in Parts /\ a[2] \in Calls /\ a = <<a[1], a[2]>>
          /\ a # Merger /\ \A p \in Parts : a # <<p, 0>>
  OBVIOUS
<1>6. /\ Parts \subseteq Nat \ {0} /\ Calls \subseteq Nat \ {0}
      /\ NumParts \in Nat /\ MaxCalls \in Nat
  OBVIOUS
<1> HIDE DEF Actors, Merger, Parts, Calls
<1> QED
  BY <1>1, <1>2, <1>3, <1>4, <1>5, <1>6

\* Before the first part nobody but the merger holds a request.
LEMMA InitInv == SharingInit => SharingIInv
<1> SUFFICES ASSUME SharingInit PROVE SharingIInv
  OBVIOUS
<1> USE ActorFacts, ConfigsAssumption DEF SharingInit
<1>1. SharingTypeOK
  BY DEF SharingTypeOK, Pos, Kinds, Config
<1>2. MergerInv
  BY DEF MergerInv, Parts
<1>3. PartsInv
  <2>1. \A p \in Parts : pos[<<p, 0>>] = "off" /\ next[<<p, 0>>] = 1
    OBVIOUS
  <2>2. ASSUME NEW p \in Parts, NEW c \in Calls PROVE pos[<<p, c>>] = "off" /\ ~(c < 1)
    <3>1. <<p, c>> \in Actors /\ <<p, c>> # Merger /\ c \in Nat \ {0}
      OBVIOUS
    <3> QED
      BY <3>1
  <2> QED
    BY <2>1, <2>2 DEF PartsInv
<1>4. OwnInv
  BY DEF OwnInv, OwnPart, OwnCall, Cloned, Kinds
<1>5. BodyInv
  BY DEF BodyInv, BodyPart, BodyCall, Live
<1>6. QueryInv
  BY DEF QueryInv, QueryPart, QueryCall, Kinds
<1>7. BodiesAreWhole /\ UrlsDoNotMix
  BY DEF BodiesAreWhole, UrlsDoNotMix
<1> QED
  BY <1>1, <1>2, <1>3, <1>4, <1>5, <1>6, <1>7 DEF SharingIInv

\* The call that takes a step is the only one that moves.
LEMMA CallPos ==
    ASSUME SharingIInv, NEW a \in Parts \X Calls, NEW s \in Live \cup {"ok", "failed"},
           pos[a] # "off", pos' = [pos EXCEPT ![a] = s], UNCHANGED <<conf, next>>
    PROVE  /\ MergerInv' /\ PartsInv' /\ pos' \in [Actors -> Pos]
           /\ \A x \in Actors : x # a => pos'[x] = pos[x]
           /\ pos'[a] = s /\ a \in Actors /\ a # Merger
           /\ \A p \in Parts : a # <<p, 0>>
<1> USE DEF SharingIInv
<1>1. a \in Actors /\ a # Merger /\ \A p \in Parts : a # <<p, 0>>
  BY ActorFacts
<1>2. s \in Pos /\ s # "off"
  BY DEF Live, Pos
<1>3. pos' \in [Actors -> Pos] /\ pos'[a] = s /\ \A x \in Actors : x # a => pos'[x] = pos[x]
  BY <1>1, <1>2 DEF SharingTypeOK
<1>4. MergerInv'
  <2>1. pos'[Merger] = pos[Merger] /\ \A p \in Parts : pos'[<<p, 0>>] = pos[<<p, 0>>]
    BY <1>1, <1>3, ActorFacts
  <2> QED
    BY <2>1 DEF MergerInv
<1>5. PartsInv'
  <2> SUFFICES ASSUME NEW p \in Parts
               PROVE  /\ pos'[<<p, 0>>] = pos[<<p, 0>>]
                      /\ \A c \in Calls :
                            \/ pos'[<<p, c>>] = pos[<<p, c>>]
                            \/ /\ pos[<<p, c>>] # "off"
                               /\ pos'[<<p, c>>] \in Live \cup {"ok", "failed"}
    BY <1>2 DEF PartsInv, Live
  <2>1. pos'[<<p, 0>>] = pos[<<p, 0>>]
    BY <1>1, <1>3, ActorFacts
  <2>2. ASSUME NEW c \in Calls
        PROVE  \/ pos'[<<p, c>>] = pos[<<p, c>>]
               \/ /\ pos[<<p, c>>] # "off"
                  /\ pos'[<<p, c>>] \in Live \cup {"ok", "failed"}
    <3>1. <<p, c>> \in Actors
      BY ActorFacts
    <3> QED
      BY <1>3, <3>1
  <2> QED
    BY <2>1, <2>2
<1> QED
  BY <1>1, <1>3, <1>4, <1>5

\* A step that changes nothing but where one actor is.
LEMMA MoveInv ==
    ASSUME SharingIInv, NEW a \in Actors, NEW s \in Pos \ {"off"},
           pos[a] \notin {"off", "qfilter"}, s \in Live => pos[a] \in Live,
           pos' = [pos EXCEPT ![a] = s], MergerInv', PartsInv',
           UNCHANGED <<conf, next, req, tags, full, url, sent>>
    PROVE  SharingIInv'
<1> USE DEF SharingIInv
<1>1. pos' \in [Actors -> Pos]
  BY DEF SharingTypeOK
<1>2. ASSUME NEW x \in Actors
      PROVE  /\ pos'[x] = "off" <=> pos[x] = "off"
             /\ pos'[x] \in Live => pos[x] \in Live
             /\ pos'[x] \notin {"off", "qfilter"} => pos[x] \notin {"off", "qfilter"}
                                                     \/ x = a
  BY DEF SharingTypeOK
<1>3. SharingTypeOK'
  BY <1>1 DEF SharingTypeOK
<1>4. ASSUME NEW p \in Parts
      PROVE  /\ pos'[<<p, 0>>] = "off" <=> pos[<<p, 0>>] = "off"
             /\ pos'[<<p, 0>>] \notin {"off", "qfilter"} =>
                    pos[<<p, 0>>] \notin {"off", "qfilter"}
  BY <1>2, ActorFacts
<1>5. ASSUME NEW p \in Parts, NEW c \in Calls
      PROVE  /\ pos'[<<p, c>>] = "off" <=> pos[<<p, c>>] = "off"
             /\ pos'[<<p, c>>] \in Live => pos[<<p, c>>] \in Live
  <2>1. <<p, c>> \in Actors
    BY ActorFacts
  <2> QED
    BY <1>2, <2>1
<1>6. OwnInv'
  <2>1. ASSUME NEW p \in Parts, OwnPart(p) PROVE OwnPart(p)'
    BY <1>4, <2>1 DEF OwnPart
  <2>2. ASSUME NEW p \in Parts, NEW c \in Calls, OwnCall(p, c) PROVE OwnCall(p, c)'
    BY <1>5, <2>2 DEF OwnCall
  <2> QED
    BY <2>1, <2>2 DEF OwnInv
<1>7. BodyInv'
  <2>1. ASSUME NEW p \in Parts, BodyPart(p) PROVE BodyPart(p)'
    BY <1>4, <2>1 DEF BodyPart
  <2>2. ASSUME NEW p \in Parts, NEW c \in Calls, BodyCall(p, c) PROVE BodyCall(p, c)'
    BY <1>5, <2>2 DEF BodyCall
  <2> QED
    BY <2>1, <2>2 DEF BodyInv
<1>8. QueryInv'
  <2>1. ASSUME NEW p \in Parts, QueryPart(p) PROVE QueryPart(p)'
    BY <1>4, <2>1 DEF QueryPart
  <2>2. ASSUME NEW p \in Parts, NEW c \in Calls, QueryCall(p, c) PROVE QueryCall(p, c)'
    BY <1>5, <2>2 DEF QueryCall
  <2> QED
    BY <2>1, <2>2 DEF QueryInv, GetsHaveTheirQuery
<1>9. BodiesAreWhole' /\ UrlsDoNotMix'
  BY DEF BodiesAreWhole, UrlsDoNotMix
<1> QED
  BY <1>3, <1>6, <1>7, <1>8, <1>9

\* The merger waits for a part, and goes on after it.
LEMMA MergerMoves ==
    ASSUME SharingIInv, WriteParams \/ NextPart \/ MergerReturns
    PROVE  SharingIInv'
<1> USE DEF SharingIInv
<1>1. PICK s \in {"clone", "params", "ok"} : pos' = [pos EXCEPT ![Merger] = s]
  BY DEF WriteParams, NextPart, MergerReturns, SharingStep
<1>2. /\ UNCHANGED <<conf, next, req, tags, full, url, sent>>
      /\ pos[Merger] \in {"params", "await"}
  BY DEF WriteParams, NextPart, MergerReturns
<1>3. /\ pos'[Merger] = s /\ \A x \in Actors : x # Merger => pos'[x] = pos[x]
      /\ pos' \in [Actors -> Pos]
  BY <1>1, ActorFacts DEF SharingTypeOK, Pos
<1>4. \A p \in Parts : pos'[<<p, 0>>] = pos[<<p, 0>>]
  BY <1>3, ActorFacts
<1>5. \A p \in Parts, c \in Calls : pos'[<<p, c>>] = pos[<<p, c>>]
  <2>1. ASSUME NEW p \in Parts, NEW c \in Calls
        PROVE  <<p, c>> \in Actors /\ <<p, c>> # Merger
    BY ActorFacts
  <2> QED
    BY <1>3, <2>1
<1>6. PartsInv'
  BY <1>2, <1>4, <1>5 DEF PartsInv
<1>7. MergerInv'
  <2>1. CASE WriteParams
    <3>1. pos[Merger] = "params" /\ s = "clone"
      BY <1>1, <1>3, <2>1, ActorFacts DEF WriteParams, SharingStep, SharingTypeOK
    <3> QED
      BY <1>2, <1>3, <1>4, <3>1 DEF MergerInv
  <2>2. CASE NextPart
    <3>1. pos[Merger] = "await" /\ s = "params" /\ next[Merger] <= NumParts
      BY <1>1, <1>3, <2>2, ActorFacts DEF NextPart, SharingStep, SharingTypeOK
    <3>2. /\ next[Merger] \in Nat /\ conf.sequential
          /\ pos[<<next[Merger] - 1, 0>>] = "ok"
      BY <2>2, <3>1, ActorFacts DEF MergerInv, SharingTypeOK, NextPart
    <3>3. \A p \in Parts : p < next[Merger] => pos[<<p, 0>>] \in {"ok", "failed"}
      <4> SUFFICES ASSUME NEW p \in Parts, p < next[Merger]
                   PROVE  pos[<<p, 0>>] \in {"ok", "failed"}
        OBVIOUS
      <4>1. p \in Nat
        BY ActorFacts
      <4>2. CASE p = next[Merger] - 1
        BY <3>2, <4>2
      <4>3. CASE p < next[Merger] - 1
        BY <3>1, <3>2, <4>3 DEF MergerInv
      <4> QED
        BY <3>2, <4>1, <4>2, <4>3
    <3> QED
      BY <1>2, <1>3, <1>4, <3>1, <3>2, <3>3 DEF MergerInv
  <2>3. CASE MergerReturns
    <3>1. s = "ok"
      BY <1>1, <1>3, <2>3, ActorFacts DEF MergerReturns, SharingStep, SharingTypeOK
    <3> QED
      BY <1>2, <1>3, <1>4, <3>1 DEF MergerInv
  <2> QED
    BY <2>1, <2>2, <2>3
<1> QED
  BY <1>1, <1>2, <1>6, <1>7, MoveInv, ActorFacts DEF Pos, Live

\* The part that takes a step and spawns nobody is the only one that moves.
LEMMA PartPos ==
    ASSUME SharingIInv, NEW p \in Parts,
           NEW s \in {"build", "spawn", "ok", "failed"},
           pos[<<p, 0>>] \in {"qfilter", "build", "spawn"},
           s = "build" => pos[<<p, 0>>] = "qfilter",
           s \in {"ok", "failed"} => next[<<p, 0>>] > conf.calls[p],
           pos' = [pos EXCEPT ![<<p, 0>>] = s], UNCHANGED <<conf, next>>
    PROVE  /\ MergerInv' /\ PartsInv' /\ pos' \in [Actors -> Pos]
           /\ pos'[<<p, 0>>] = s
           /\ \A x \in Actors : x # <<p, 0>> => pos'[x] = pos[x]
<1> USE DEF SharingIInv
<1>1. <<p, 0>> \in Actors /\ <<p, 0>> # Merger
  BY ActorFacts
<1>2. /\ pos' \in [Actors -> Pos] /\ pos'[<<p, 0>>] = s
      /\ \A x \in Actors : x # <<p, 0>> => pos'[x] = pos[x]
  BY <1>1 DEF SharingTypeOK, Pos
<1>3. pos'[Merger] = pos[Merger]
  BY <1>1, <1>2, ActorFacts
<1>4. \A q \in Parts : q # p => pos'[<<q, 0>>] = pos[<<q, 0>>]
  BY <1>2, ActorFacts
<1>5. \A q \in Parts, c \in Calls : pos'[<<q, c>>] = pos[<<q, c>>]
  <2> SUFFICES ASSUME NEW q \in Parts, NEW c \in Calls
               PROVE  pos'[<<q, c>>] = pos[<<q, c>>]
    OBVIOUS
  <2>1. <<q, c>> \in Actors /\ <<q, c>> # <<p, 0>>
    BY ActorFacts
  <2> QED
    BY <1>2, <2>1
<1>6. MergerInv'
  BY <1>2, <1>3, <1>4 DEF MergerInv
<1>7. PartsInv'
  <2> SUFFICES ASSUME NEW q \in Parts
               PROVE  \/ pos'[<<q, 0>>] = pos[<<q, 0>>]
                      \/ /\ pos'[<<q, 0>>] \in {"build", "spawn", "ok", "failed"}
                         /\ pos'[<<q, 0>>] = "build" => next[<<q, 0>>] = 1
                         /\ pos'[<<q, 0>>] \in {"ok", "failed"} =>
                                next[<<q, 0>>] > conf.calls[q]
    BY <1>5 DEF PartsInv
  <2>1. CASE q = p
    BY <1>2, <2>1 DEF PartsInv
  <2>2. CASE q # p
    BY <1>4, <2>2
  <2> QED
    BY <2>1, <2>2
<1> QED
  BY <1>2, <1>6, <1>7

\* A part builds its path, and returns after its calls.
LEMMA PartMoves ==
    ASSUME SharingIInv, NEW p \in Parts, BuildPath(p) \/ PartReturns(p)
    PROVE  SharingIInv'
<1>1. PICK s \in {"spawn", "ok", "failed"} :
         /\ pos' = [pos EXCEPT ![<<p, 0>>] = s]
         /\ s \in {"ok", "failed"} => next[<<p, 0>>] > conf.calls[p]
  BY DEF BuildPath, PartReturns, SharingStep
<1>2. /\ UNCHANGED <<conf, next, req, tags, full, url, sent>>
      /\ pos[<<p, 0>>] \in {"build", "spawn"}
  BY DEF BuildPath, PartReturns
<1>3. MergerInv' /\ PartsInv'
  BY <1>1, <1>2, PartPos
<1>4. <<p, 0>> \in Actors
  BY ActorFacts
<1> QED
  BY <1>1, <1>2, <1>3, <1>4, MoveInv DEF Pos, Live

\* A call that fails before it is sent, and one without an operation.
LEMMA CallMoves ==
    ASSUME SharingIInv, NEW a \in Parts \X Calls, GraphQLFails(a) \/ NoGraphQL(a)
    PROVE  SharingIInv'
<1>1. PICK s \in {"http", "failed"} : pos' = [pos EXCEPT ![a] = s]
  BY DEF GraphQLFails, NoGraphQL, SharingStep
<1>2. UNCHANGED <<conf, next, req, tags, full, url, sent>> /\ pos[a] = "graphql"
  BY DEF GraphQLFails, NoGraphQL
<1>3. MergerInv' /\ PartsInv' /\ a \in Actors
  BY <1>1, <1>2, CallPos DEF Live
<1> QED
  BY <1>1, <1>2, <1>3, MoveInv DEF Pos, Live

\* What a clone may touch belongs to one actor that is still at work.
LEMMA BodiesApart ==
    ASSUME SharingIInv, conf.deep, NEW p \in Parts, NEW c \in Calls, pos[<<p, c>>] # "off"
    PROVE  /\ req[<<p, c>>]["body"] # Merger
           /\ \A q \in Parts :
                 (req[<<p, c>>]["body"] = <<q, 0>>) => next[<<q, 0>>] > conf.calls[q]
           /\ \A q \in Parts, d \in Calls :
                 (/\ pos[<<q, d>>] # "off"
                  /\ req[<<q, d>>]["body"] = req[<<p, c>>]["body"]) => q = p /\ d = c
<1> USE DEF SharingIInv
<1>1. ASSUME NEW q \in Parts, NEW d \in Calls, pos[<<q, d>>] # "off"
      PROVE  /\ \/ req[<<q, d>>]["body"] = <<q, d>>
                \/ d = conf.calls[q] /\ req[<<q, d>>]["body"] = <<q, 0>>
             /\ d < next[<<q, 0>>]
  BY <1>1 DEF OwnInv, OwnCall, Cloned, PartsInv
<1>2. req[<<p, c>>]["body"] # Merger
  <2>1. <<p, c>> # Merger /\ <<p, 0>> # Merger
    BY ActorFacts
  <2> QED
    BY <1>1, <2>1
<1>3. ASSUME NEW q \in Parts, req[<<p, c>>]["body"] = <<q, 0>>
      PROVE  next[<<q, 0>>] > conf.calls[q]
  <2>1. c # 0 /\ c \in Nat /\ next[<<q, 0>>] \in Nat /\ conf.calls[q] \in Nat
    BY ActorFacts, ConfigsAssumption DEF SharingTypeOK, Config
  <2>2. <<p, c>> # <<q, 0>>
    BY <2>1
  <2>3. c = conf.calls[p] /\ <<p, 0>> = <<q, 0>> /\ c < next[<<p, 0>>]
    BY <1>1, <1>3, <2>2
  <2>4. p = q
    BY <2>3
  <2> QED
    BY <2>1, <2>3, <2>4
<1>4. ASSUME NEW q \in Parts, NEW d \in Calls, pos[<<q, d>>] # "off",
             req[<<q, d>>]["body"] = req[<<p, c>>]["body"]
      PROVE  q = p /\ d = c
  <2>1. c # 0 /\ d # 0
    BY ActorFacts
  <2>2. <<p, c>> # <<q, 0>> /\ <<q, d>> # <<p, 0>>
    BY <2>1
  <2>3. \/ <<p, c>> = <<q, d>>
        \/ <<p, 0>> = <<q, 0>> /\ c = conf.calls[p] /\ d = conf.calls[q]
    <3>1. \/ req[<<q, d>>]["body"] = <<q, d>>
          \/ d = conf.calls[q] /\ req[<<q, d>>]["body"] = <<q, 0>>
      BY <1>1, <1>4
    <3>2. \/ req[<<p, c>>]["body"] = <<p, c>>
          \/ c = conf.calls[p] /\ req[<<p, c>>]["body"] = <<p, 0>>
      BY <1>1
    <3> QED
      BY <1>4, <2>2, <3>1, <3>2
  <2> QED
    BY <2>3
<1> QED
  BY <1>2, <1>3, <1>4

\* The bodies nobody has read.
Unread == {x \in Actors : full[x]}

\* A step of a call changes what is the call's; it may get objects of its own
\* and empty its body.
OnlyOf(a) ==
    \A x \in Actors : x # a => pos'[x] = pos[x] /\ req'[x] = req[x]

\* What a step of one call does to its own request keeps the invariant.
LEMMA CallInv ==
    ASSUME SharingIInv, NEW a \in Parts \X Calls, pos[a] \in Live, OnlyOf(a),
           pos' = [pos EXCEPT ![a] = pos'[a]], pos'[a] \in Live \cup {"ok", "failed"},
           UNCHANGED <<conf, next>>,
           req' \in [Actors -> [Kinds -> Actors]],
           req'[a]["query"] = req[a]["query"],
           \A k \in Cloned : req'[a][k] \in {a, req[a][k]},
           full' \in [Actors -> BOOLEAN],
           (conf.deep /\ conf.hasBody) =>
               /\ Unread \ {req[a]["body"]} \subseteq Unread'
               /\ pos'[a] \in Live => req'[a]["body"] \in Unread',
           tags' \in [Actors -> SUBSET (Parts \cup {Client})],
           GetsHaveTheirQuery =>
               /\ tags'[Merger] \subseteq {Client}
               /\ \A q \in Parts : tags'[<<q, 0>>] \subseteq {Client, q},
           url' \in [Actors -> SUBSET (Parts \cup {Client})], UrlsDoNotMix',
           sent' \in [Actors -> SUBSET Sent], BodiesAreWhole'
    PROVE  SharingIInv'
<1>a. PICK p \in Parts, c \in Calls : a = <<p, c>>
  OBVIOUS
<1> DEFINE s == pos'[a]
           r == req'[a]
<1>0. conf.deep =>
          /\ req[a]["body"] # Merger
          /\ \A q \in Parts : (req[a]["body"] = <<q, 0>>) => next[<<q, 0>>] > conf.calls[q]
          /\ \A q \in Parts, d \in Calls :
                (pos[<<q, d>>] # "off" /\ req[<<q, d>>]["body"] = req[a]["body"])
                    => q = p /\ d = c
  <2>1. pos[<<p, c>>] # "off"
    BY <1>a DEF Live
  <2>2. conf.deep =>
            /\ req[<<p, c>>]["body"] # Merger
            /\ \A q \in Parts :
                  (req[<<p, c>>]["body"] = <<q, 0>>) => next[<<q, 0>>] > conf.calls[q]
            /\ \A q \in Parts, d \in Calls :
                  (/\ pos[<<q, d>>] # "off"
                   /\ req[<<q, d>>]["body"] = req[<<p, c>>]["body"]) => q = p /\ d = c
    BY <2>1, BodiesApart
  <2> QED
    BY <1>a, <2>2
<1> USE DEF SharingIInv
<1>1. a \in Parts \X Calls /\ pos[a] # "off"
  BY DEF Live
<1>2. /\ MergerInv' /\ PartsInv' /\ pos' \in [Actors -> Pos]
      /\ \A x \in Actors : x # a => pos'[x] = pos[x]
      /\ pos'[a] = s /\ a \in Actors /\ a # Merger
      /\ \A q \in Parts : a # <<q, 0>>
  BY <1>1, CallPos
<1>3. /\ req' \in [Actors -> [Kinds -> Actors]] /\ req'[a] = r
      /\ \A x \in Actors : x # a => req'[x] = req[x]
  BY <1>2 DEF OnlyOf
<1>4. SharingTypeOK'
  BY <1>2, <1>3 DEF SharingTypeOK
<1>5. /\ req'[Merger] = req[Merger]
      /\ \A q \in Parts : pos'[<<q, 0>>] = pos[<<q, 0>>] /\ req'[<<q, 0>>] = req[<<q, 0>>]
  BY <1>2, <1>3, ActorFacts
<1>6. ASSUME NEW q \in Parts, NEW d \in Calls, <<q, d>> # a
      PROVE  pos'[<<q, d>>] = pos[<<q, d>>] /\ req'[<<q, d>>] = req[<<q, d>>]
  <2>1. <<q, d>> \in Actors
    BY ActorFacts
  <2> QED
    BY <1>2, <1>3, <1>6, <2>1
<1>7. OwnInv'
  <2>1. ASSUME NEW q \in Parts, OwnPart(q) PROVE OwnPart(q)'
    BY <1>5, <2>1 DEF OwnPart
  <2>2. ASSUME NEW q \in Parts, NEW d \in Calls, OwnCall(q, d) PROVE OwnCall(q, d)'
    <3>1. CASE <<q, d>> = a
      <4>1. \A k \in Cloned : \/ req[<<q, d>>][k] = <<q, d>>
                              \/ d = conf.calls[q] /\ req[<<q, d>>][k] = <<q, 0>>
        BY <1>1, <2>2, <3>1 DEF OwnCall
      <4>2. \A k \in Cloned : r[k] = <<q, d>> \/ r[k] = req[<<q, d>>][k]
        BY <3>1
      <4>3. req'[<<q, d>>] = r
        BY <1>3, <3>1
      <4> QED
        BY <4>1, <4>2, <4>3 DEF OwnCall
    <3>2. CASE <<q, d>> # a
      BY <1>6, <2>2, <3>2 DEF OwnCall
    <3> QED
      BY <3>1, <3>2
  <2> QED
    BY <1>5, <2>1, <2>2 DEF OwnInv
<1>8. BodyInv'
  <2> SUFFICES ASSUME conf.deep, conf.hasBody
               PROVE  /\ full'[Merger]
                      /\ \A q \in Parts : BodyPart(q)'
                      /\ \A q \in Parts, d \in Calls : BodyCall(q, d)'
    BY DEF BodyInv
  <2>1. /\ full[Merger] /\ \A q \in Parts : BodyPart(q)
        /\ \A q \in Parts, d \in Calls : BodyCall(q, d)
    BY DEF BodyInv
  <2>2. /\ req[a]["body"] # Merger
        /\ \A q \in Parts : (req[a]["body"] = <<q, 0>>) => next[<<q, 0>>] > conf.calls[q]
        /\ \A q \in Parts, d \in Calls :
              (pos[<<q, d>>] # "off" /\ req[<<q, d>>]["body"] = req[a]["body"])
                  => q = p /\ d = c
    BY <1>0
  <2>0. /\ \A x \in Actors : (full[x] /\ x # req[a]["body"]) => full'[x]
        /\ s \in Live => full'[r["body"]]
    BY DEF Unread
  <2>3. full'[Merger]
    BY <2>0, <2>1, <2>2, ActorFacts
  <2>4. ASSUME NEW q \in Parts PROVE BodyPart(q)'
    <3> SUFFICES ASSUME pos[<<q, 0>>] # "off", next[<<q, 0>>] <= conf.calls[q]
                 PROVE  full'[<<q, 0>>]
      BY <1>5 DEF BodyPart
    <3>1. full[<<q, 0>>] /\ <<q, 0>> \in Actors
      BY <2>1, ActorFacts DEF BodyPart
    <3>2. next[<<q, 0>>] \in Nat /\ conf.calls[q] \in Nat
      BY <3>1, ConfigsAssumption DEF SharingTypeOK, Config
    <3>3. req[a]["body"] # <<q, 0>>
      <4>1. ~(next[<<q, 0>>] > conf.calls[q])
        BY <3>2
      <4> QED
        BY <2>2, <4>1
    <3> QED
      BY <2>0, <3>1, <3>3
  <2>5. ASSUME NEW q \in Parts, NEW d \in Calls PROVE BodyCall(q, d)'
    <3>1. CASE <<q, d>> = a
      BY <1>2, <1>3, <2>0, <3>1 DEF BodyCall
    <3>2. CASE <<q, d>> # a
      <4> SUFFICES ASSUME pos[<<q, d>>] \in Live
                   PROVE  full'[req[<<q, d>>]["body"]]
        BY <1>6, <3>2 DEF BodyCall
      <4>1. full[req[<<q, d>>]["body"]] /\ pos[<<q, d>>] # "off"
        BY <2>1 DEF BodyCall, Live
      <4>2. req[<<q, d>>]["body"] # req[a]["body"]
        BY <1>a, <2>2, <3>2, <4>1
      <4>3. req[<<q, d>>]["body"] \in Actors
        <5>1. <<q, d>> \in Actors /\ "body" \in Kinds
          BY ActorFacts DEF Kinds
        <5> QED
          BY <5>1 DEF SharingTypeOK
      <4> QED
        BY <2>0, <4>1, <4>2, <4>3
    <3> QED
      BY <3>1, <3>2
  <2> QED
    BY <2>3, <2>4, <2>5
<1>9. QueryInv'
  <2>1. ASSUME NEW q \in Parts, QueryPart(q) PROVE QueryPart(q)'
    BY <1>5, <2>1 DEF QueryPart
  <2>2. ASSUME NEW q \in Parts, NEW d \in Calls, QueryCall(q, d) PROVE QueryCall(q, d)'
    <3>1. CASE <<q, d>> = a
      BY <1>1, <1>3, <1>5, <2>2, <3>1 DEF QueryCall
    <3>2. CASE <<q, d>> # a
      BY <1>5, <1>6, <2>2, <3>2 DEF QueryCall
    <3> QED
      BY <3>1, <3>2
  <2> QED
    BY <1>5, <2>1, <2>2 DEF QueryInv, GetsHaveTheirQuery
<1> QED
  BY <1>2, <1>4, <1>7, <1>8, <1>9

\* What a call reads: its own query map, or that of the merger.
LEMMA QueryOfACall ==
    ASSUME SharingIInv, NEW p \in Parts, NEW c \in Calls, pos[<<p, c>>] # "off"
    PROVE  /\ req[<<p, c>>]["query"] \in {Merger, <<p, 0>>}
           /\ conf.dropsQuery[p] => req[<<p, c>>]["query"] = <<p, 0>>
           /\ GetsHaveTheirQuery => tags[req[<<p, c>>]["query"]] \subseteq {Client, p}
<1> USE DEF SharingIInv
<1>1. pos[<<p, 0>>] \notin {"off", "qfilter"}
  <2>1. c < next[<<p, 0>>] /\ c \in Nat \ {0}
    BY ActorFacts DEF PartsInv
  <2> QED
    BY <2>1 DEF PartsInv
<1> QED
  BY <1>1 DEF QueryInv, QueryPart, QueryCall

\* The request of an actor.
LEMMA RequestFields ==
    ASSUME SharingTypeOK, NEW a \in Actors
    PROVE  /\ req[a] \in [Kinds -> Actors] /\ req = [req EXCEPT ![a] = req[a]]
           /\ \A k \in Kinds : req[a][k] \in Actors
           /\ Cloned \subseteq Kinds /\ "query" \in Kinds /\ "query" \notin Cloned
           /\ {"headers", "body"} \subseteq Cloned
BY DEF SharingTypeOK, Kinds, Cloned

\* The load balancer takes the query string and writes the URL (balancing.go).
LEMMA BalanceInv ==
    ASSUME SharingIInv, NEW a \in Parts \X Calls, Balance(a)
    PROVE  SharingIInv'
<1>1. PICK p \in Parts, c \in Calls : a = <<p, c>>
  OBVIOUS
<1>2. /\ a \in Actors /\ pos[a] = "balance" /\ a[1] = p
      /\ UNCHANGED <<conf, next, req, tags, full, sent>>
  BY <1>1, ActorFacts DEF Balance
<1>3. SharingTypeOK
  BY DEF SharingIInv
<1>4. PICK s \in {"filter", "failed"} :
         /\ pos' = [pos EXCEPT ![a] = s]
         /\ url' = [url EXCEPT ![a] = tags[req[a]["query"]]] \/ url' = url
  BY DEF Balance, SharingStep
<1>5. tags[req[a]["query"]] \in SUBSET (Parts \cup {Client})
  BY <1>2, <1>3, RequestFields DEF SharingTypeOK
<1>6. url' \in [Actors -> SUBSET (Parts \cup {Client})]
  BY <1>3, <1>4, <1>5 DEF SharingTypeOK
<1>7. UrlsDoNotMix'
  <2> SUFFICES ASSUME GetsHaveTheirQuery, NEW x \in Actors
               PROVE  url'[x] \subseteq {Client, x[1]}
    BY <1>2 DEF UrlsDoNotMix, GetsHaveTheirQuery
  <2>1. url[x] \subseteq {Client, x[1]}
    BY DEF SharingIInv, UrlsDoNotMix, GetsHaveTheirQuery
  <2>2. tags[req[a]["query"]] \subseteq {Client, a[1]}
    <3>1. pos[<<p, c>>] # "off"
      BY <1>1, <1>2
    <3>2. tags[req[<<p, c>>]["query"]] \subseteq {Client, p}
      BY <3>1, QueryOfACall
    <3> QED
      BY <1>1, <1>2, <3>2
  <2> QED
    BY <1>2, <1>3, <1>4, <2>1, <2>2 DEF SharingTypeOK
<1>8. BodiesAreWhole'
  BY <1>2 DEF SharingIInv, BodiesAreWhole
<1>9. /\ req' \in [Actors -> [Kinds -> Actors]]
      /\ full' \in [Actors -> BOOLEAN] /\ sent' \in [Actors -> SUBSET Sent]
      /\ tags' \in [Actors -> SUBSET (Parts \cup {Client})]
  BY <1>2, <1>3, RequestFields DEF SharingTypeOK
<1>10. (conf.deep /\ conf.hasBody) =>
           /\ Unread \ {req[a]["body"]} \subseteq Unread'
           /\ pos'[a] \in Live => req'[a]["body"] \in Unread'
  <2>1. req[a]["body"] \in Actors
    BY <1>2, <1>3, RequestFields DEF Kinds
  <2> QED
    BY <1>1, <1>2, <2>1 DEF SharingIInv, BodyInv, BodyCall, Live, Unread
<1>11. GetsHaveTheirQuery => /\ tags'[Merger] \subseteq {Client}
                             /\ \A q \in Parts : tags'[<<q, 0>>] \subseteq {Client, q}
  BY <1>2 DEF SharingIInv, QueryInv
<1>12. /\ pos'[a] \in Live \cup {"ok", "failed"} /\ pos[a] \in Live
       /\ pos' = [pos EXCEPT ![a] = pos'[a]] /\ OnlyOf(a)
  BY <1>2, <1>3, <1>4 DEF Live, SharingTypeOK, OnlyOf
<1>13. /\ req'[a]["query"] = req[a]["query"]
       /\ \A k \in Cloned : req'[a][k] \in {a, req[a][k]}
  BY <1>2
<1> QED
  BY <1>2, <1>6, <1>7, <1>8, <1>9, <1>10, <1>11, <1>12, <1>13, CallInv

\* The header filter puts a new map into its own request (headers_filter.go).
LEMMA FilterHeadersInv ==
    ASSUME SharingIInv, NEW a \in Parts \X Calls, FilterHeaders(a)
    PROVE  SharingIInv'
<1>1. PICK p \in Parts, c \in Calls : a = <<p, c>>
  OBVIOUS
<1>2. /\ a \in Actors /\ pos[a] = "filter" /\ pos' = [pos EXCEPT ![a] = "graphql"]
      /\ UNCHANGED <<conf, next, tags, full, url, sent>>
  BY ActorFacts DEF FilterHeaders, SharingStep
<1>3. SharingTypeOK
  BY DEF SharingIInv
<1>4. PICK r \in [Kinds -> Actors] :
         /\ req' = [req EXCEPT ![a] = r] /\ r["query"] = req[a]["query"]
         /\ r["body"] = req[a]["body"] /\ \A k \in Cloned : r[k] \in {a, req[a][k]}
  <2> DEFINE r == [req[a] EXCEPT !["headers"] = a]
  <2>1. CASE req' = req
    BY <1>2, <1>3, <2>1, RequestFields
  <2>2. CASE req' = [req EXCEPT ![a] = r]
    <3>1. r \in [Kinds -> Actors] /\ r["query"] = req[a]["query"] /\ r["body"] = req[a]["body"]
      BY <1>2, <1>3, RequestFields DEF Kinds
    <3>2. \A k \in Cloned : r[k] \in {a, req[a][k]}
      BY <1>2, <1>3, RequestFields DEF Kinds, Cloned
    <3> HIDE DEF r
    <3> QED
      BY <2>2, <3>1, <3>2
  <2> QED
    BY <2>1, <2>2 DEF FilterHeaders
<1>4a. /\ req' \in [Actors -> [Kinds -> Actors]]
       /\ req'[a]["query"] = req[a]["query"] /\ req'[a]["body"] = req[a]["body"]
       /\ \A k \in Cloned : req'[a][k] \in {a, req[a][k]}
  BY <1>2, <1>3, <1>4 DEF SharingTypeOK
<1>5. /\ full' \in [Actors -> BOOLEAN] /\ sent' \in [Actors -> SUBSET Sent]
      /\ tags' \in [Actors -> SUBSET (Parts \cup {Client})]
      /\ url' \in [Actors -> SUBSET (Parts \cup {Client})]
  BY <1>2, <1>3 DEF SharingTypeOK
<1>6. (conf.deep /\ conf.hasBody) =>
          /\ Unread \ {req[a]["body"]} \subseteq Unread'
          /\ pos'[a] \in Live => req'[a]["body"] \in Unread'
  <2>1. req[a]["body"] \in Actors
    BY <1>2, <1>3, RequestFields DEF Kinds
  <2> QED
    BY <1>1, <1>2, <1>4a, <2>1 DEF SharingIInv, BodyInv, BodyCall, Live, Unread
<1>7. GetsHaveTheirQuery => /\ tags'[Merger] \subseteq {Client}
                            /\ \A q \in Parts : tags'[<<q, 0>>] \subseteq {Client, q}
  BY <1>2 DEF SharingIInv, QueryInv
<1>8. BodiesAreWhole' /\ UrlsDoNotMix'
  BY <1>2 DEF SharingIInv, BodiesAreWhole, UrlsDoNotMix
<1>9. /\ pos'[a] \in Live \cup {"ok", "failed"} /\ pos[a] \in Live
      /\ pos' = [pos EXCEPT ![a] = pos'[a]] /\ OnlyOf(a)
  BY <1>2, <1>3, <1>4 DEF Live, SharingTypeOK, OnlyOf
<1> QED
  BY <1>2, <1>4a, <1>5, <1>6, <1>7, <1>8, <1>9, CallInv

\* The GraphQL middleware writes to the query, or replaces the body
\* (graphql.go).
LEMMA GraphQLSendsInv ==
    ASSUME SharingIInv, NEW a \in Parts \X Calls, GraphQLSends(a)
    PROVE  SharingIInv'
<1>1. PICK p \in Parts, c \in Calls : a = <<p, c>>
  OBVIOUS
<1>2. /\ a \in Actors /\ pos[a] = "graphql" /\ pos' = [pos EXCEPT ![a] = "http"]
      /\ UNCHANGED <<conf, next, url, sent>> /\ a[1] = p
  BY <1>1, ActorFacts DEF GraphQLSends, SharingStep
<1>3. SharingTypeOK
  BY DEF SharingIInv
<1> DEFINE r == [req[a] EXCEPT !["body"] = a]
<1>4. req' = [req EXCEPT ![a] = r]
  BY <1>2, <1>3 DEF GraphQLSends, SharingTypeOK
<1>5. /\ r \in [Kinds -> Actors] /\ r["query"] = req[a]["query"] /\ r["body"] = a
      /\ \A k \in Cloned : r[k] \in {a, req[a][k]}
  BY <1>2, <1>3, RequestFields DEF Kinds, Cloned
<1> HIDE DEF r
<1>6. /\ full' \in [Actors -> BOOLEAN] /\ full'[a]
      /\ \A x \in Actors : (full[x] /\ x # req[a]["body"]) => full'[x]
  <2>1. full' = [x \in Actors |->
                  IF x = a THEN TRUE
                  ELSE full[x] /\ ~(conf.graphql[a[1]] = "mutation"
                                      /\ x = req[a]["body"])]
    BY DEF GraphQLSends
  <2> QED
    BY <1>2, <1>3, <2>1 DEF SharingTypeOK
<1>7. pos[<<p, c>>] # "off"
  BY <1>1, <1>2
<1>8. req[a]["query"] \in Actors
  BY <1>2, <1>3, RequestFields
<1>9. tags' \in [Actors -> SUBSET (Parts \cup {Client})]
  BY <1>2, <1>3, <1>8 DEF GraphQLSends, SharingTypeOK
<1>10. GetsHaveTheirQuery => /\ tags'[Merger] \subseteq {Client}
                             /\ \A q \in Parts : tags'[<<q, 0>>] \subseteq {Client, q}
  <2> SUFFICES ASSUME GetsHaveTheirQuery
               PROVE  /\ tags'[Merger] \subseteq {Client}
                      /\ \A q \in Parts : tags'[<<q, 0>>] \subseteq {Client, q}
    OBVIOUS
  <2>1. tags[Merger] \subseteq {Client} /\ \A q \in Parts : tags[<<q, 0>>] \subseteq {Client, q}
    BY DEF SharingIInv, QueryInv
  <2>2. CASE conf.get[p]
    <3>1. req[<<p, c>>]["query"] = <<p, 0>>
      BY <1>7, <2>2, QueryOfACall DEF GetsHaveTheirQuery
    <3>2. tags' = [tags EXCEPT ![<<p, 0>>] = @ \cup {p}]
      BY <1>1, <1>2, <2>2, <3>1 DEF GraphQLSends
    <3>3. tags'[Merger] = tags[Merger]
      BY <3>2, ActorFacts
    <3>4. ASSUME NEW q \in Parts PROVE tags'[<<q, 0>>] \subseteq {Client, q}
      <4>1. <<q, 0>> \in Actors /\ tags[<<q, 0>>] \subseteq {Client, q}
        BY <2>1, ActorFacts
      <4>2. CASE q = p
        BY <1>3, <3>2, <4>1, <4>2 DEF SharingTypeOK
      <4>3. CASE q # p
        BY <1>3, <3>2, <4>1, <4>3 DEF SharingTypeOK
      <4> QED
        BY <4>2, <4>3
    <3> QED
      BY <2>1, <3>3, <3>4
  <2>3. CASE ~conf.get[p]
    BY <1>2, <2>1, <2>3 DEF GraphQLSends
  <2> QED
    BY <2>2, <2>3
<1>11. BodiesAreWhole' /\ UrlsDoNotMix'
  BY <1>2 DEF SharingIInv, BodiesAreWhole, UrlsDoNotMix
<1>12. /\ url' \in [Actors -> SUBSET (Parts \cup {Client})]
       /\ sent' \in [Actors -> SUBSET Sent]
  BY <1>2, <1>3 DEF SharingTypeOK
<1>13. /\ pos'[a] \in Live \cup {"ok", "failed"} /\ pos[a] \in Live
       /\ pos' = [pos EXCEPT ![a] = pos'[a]] /\ OnlyOf(a)
  BY <1>2, <1>3, <1>4 DEF Live, SharingTypeOK, OnlyOf
<1>13a. /\ req' \in [Actors -> [Kinds -> Actors]]
       /\ req'[a]["query"] = req[a]["query"] /\ req'[a]["body"] = a
       /\ \A k \in Cloned : req'[a][k] \in {a, req[a][k]}
  BY <1>2, <1>3, <1>4, <1>5 DEF SharingTypeOK
<1>14. (conf.deep /\ conf.hasBody) =>
           /\ Unread \ {req[a]["body"]} \subseteq Unread'
           /\ pos'[a] \in Live => req'[a]["body"] \in Unread'
  BY <1>2, <1>6, <1>13a DEF Unread
<1> QED
  BY <1>2, <1>6, <1>9, <1>10, <1>11, <1>12, <1>13, <1>13a, <1>14, CallInv

\* The client reads the request, and its body whole (http.go).
LEMMA SendHTTPInv ==
    ASSUME SharingIInv, NEW a \in Parts \X Calls, SendHTTP(a)
    PROVE  SharingIInv'
<1>1. PICK p \in Parts, c \in Calls : a = <<p, c>>
  OBVIOUS
<1> DEFINE b == req[a]["body"]
           operation == IF conf.graphql[a[1]] # "none" /\ ~conf.get[a[1]]
                        THEN {a[1]} ELSE {}
           m == [tags |-> url[a] \cup operation, whole |-> full[b]]
<1>2. /\ a \in Actors /\ pos[a] = "http" /\ a[1] = p
      /\ UNCHANGED <<conf, next, req, tags, url>>
      /\ sent' = [sent EXCEPT ![a] = {m}] /\ full' = [full EXCEPT ![b] = FALSE]
  BY <1>1, ActorFacts DEF SendHTTP
<1>3. PICK s \in {"ok", "failed"} : pos' = [pos EXCEPT ![a] = s]
  BY DEF SendHTTP, SharingStep
<1>4. SharingTypeOK
  BY DEF SharingIInv
<1>5. b \in Actors
  BY <1>2, <1>4, RequestFields DEF Kinds
<1>6. full' \in [Actors -> BOOLEAN] /\ Unread \ {b} \subseteq Unread'
  BY <1>2, <1>4, <1>5 DEF SharingTypeOK, Unread
<1>7. m \in Sent
  <2>1. url[a] \in SUBSET (Parts \cup {Client}) /\ full[b] \in BOOLEAN
    BY <1>2, <1>4, <1>5 DEF SharingTypeOK
  <2>2. url[a] \cup operation \in SUBSET (Parts \cup {Client})
    BY <1>2, <2>1
  <2> HIDE DEF operation, b
  <2> QED
    BY <2>1, <2>2 DEF Sent
<1>8. sent' \in [Actors -> SUBSET Sent]
  <2> HIDE DEF m
  <2> QED
    BY <1>2, <1>4, <1>7 DEF SharingTypeOK
<1>9. BodiesAreWhole'
  <2> SUFFICES ASSUME conf.deep, conf.hasBody, NEW x \in Actors, NEW z \in sent'[x]
               PROVE  z.whole
    BY <1>2 DEF BodiesAreWhole
  <2>1. full[b]
    BY <1>1, <1>2 DEF SharingIInv, BodyInv, BodyCall, Live
  <2>2. CASE x = a
    <3>1. z = m
      BY <1>2, <1>4, <2>2 DEF SharingTypeOK
    <3> QED
      BY <2>1, <3>1
  <2>3. CASE x # a
    BY <1>2, <1>4, <2>3 DEF SharingTypeOK, SharingIInv, BodiesAreWhole
  <2> QED
    BY <2>2, <2>3
<1>10. /\ UrlsDoNotMix' /\ url' \in [Actors -> SUBSET (Parts \cup {Client})]
       /\ tags' \in [Actors -> SUBSET (Parts \cup {Client})]
  BY <1>2 DEF SharingIInv, SharingTypeOK, UrlsDoNotMix
<1>11. GetsHaveTheirQuery => /\ tags'[Merger] \subseteq {Client}
                             /\ \A q \in Parts : tags'[<<q, 0>>] \subseteq {Client, q}
  BY <1>2 DEF SharingIInv, QueryInv
<1>12. /\ req' \in [Actors -> [Kinds -> Actors]]
       /\ req'[a]["query"] = req[a]["query"]
       /\ \A k \in Cloned : req'[a][k] \in {a, req[a][k]}
  BY <1>2, <1>4 DEF SharingTypeOK
<1>13. /\ pos'[a] \in Live \cup {"ok", "failed"} /\ pos[a] \in Live
       /\ pos'[a] \notin Live
       /\ pos' = [pos EXCEPT ![a] = pos'[a]] /\ OnlyOf(a)
  BY <1>2, <1>3, <1>4 DEF Live, SharingTypeOK, OnlyOf
<1> HIDE DEF m
<1> QED
  BY <1>2, <1>6, <1>8, <1>9, <1>10, <1>11, <1>12, <1>13, CallInv

\* What the clones of a request have in common.
LEMMA CloneFacts ==
    ASSUME SharingTypeOK, NEW a \in Actors, NEW b \in Actors, a # b,
           CloneRequest(a, b) \/ Clone(a, b)
    PROVE  /\ req' \in [Actors -> [Kinds -> Actors]] /\ full' \in [Actors -> BOOLEAN]
           /\ \A x \in Actors : (x # a /\ x # b) => req'[x] = req[x]
           /\ req'[a]["query"] = req[a]["query"] /\ req'[b]["query"] = req[a]["query"]
           /\ \A k \in Cloned : req'[a][k] \in {a, req[a][k]}
           /\ CloneRequest(a, b) => \A k \in Cloned : req'[b][k] = b
           /\ Clone(a, b) => req'[b] = req[a] /\ req'[a] = req[a] /\ full' = full
           /\ (req[a]["body"] = a /\ a \in Unread) =>
                  /\ Unread \subseteq Unread'
                  /\ req'[b]["body"] \in Unread'
<1> DEFINE r == [k \in Kinds |-> IF k = "query" THEN req[a]["query"] ELSE b]
           ra == [req[a] EXCEPT !["body"] = a]
<1>1. /\ r \in [Kinds -> Actors] /\ r["query"] = req[a]["query"]
      /\ \A k \in Cloned : r[k] = b
      /\ ra \in [Kinds -> Actors] /\ ra["query"] = req[a]["query"]
      /\ \A k \in Cloned : ra[k] \in {a, req[a][k]}
  BY RequestFields DEF Kinds, Cloned
<1>2. req[a]["body"] \in Actors /\ "body" \in Cloned
  BY RequestFields DEF Kinds, Cloned
<1>3. CASE CloneRequest(a, b)
  <2>1. req' = [req EXCEPT ![a]["body"] = a, ![b] = r]
    BY <1>3 DEF CloneRequest
  <2>2. req' = [req EXCEPT ![a] = ra, ![b] = r]
    BY <2>1
  <2> HIDE DEF r, ra
  <2>3. /\ req' \in [Actors -> [Kinds -> Actors]] /\ req'[a] = ra /\ req'[b] = r
        /\ \A x \in Actors : (x # a /\ x # b) => req'[x] = req[x]
    BY <1>1, <2>2 DEF SharingTypeOK
  <2>4. full' = [x \in Actors |-> IF x \in {a, b} THEN full[req[a]["body"]]
                                  ELSE full[x] /\ x # req[a]["body"]]
    BY <1>3 DEF CloneRequest
  <2>5. full' \in [Actors -> BOOLEAN]
    BY <1>2, <2>4 DEF SharingTypeOK
  <2>6. (req[a]["body"] = a /\ a \in Unread) =>
            Unread \subseteq Unread' /\ req'[b]["body"] \in Unread'
    BY <1>1, <1>2, <2>3, <2>4 DEF Unread
  <2>7. Clone(a, b) => req'[b] = req[a] /\ req'[a] = req[a] /\ full' = full
    BY DEF Clone, SharingTypeOK
  <2> QED
    BY <1>1, <2>3, <2>5, <2>6, <2>7
<1>4. CASE Clone(a, b)
  <2>1. req' = [req EXCEPT ![b] = req[a]] /\ full' = full
    BY <1>4 DEF Clone
  <2>2. req[a] \in [Kinds -> Actors]
    BY DEF SharingTypeOK
  <2>3. /\ req' \in [Actors -> [Kinds -> Actors]] /\ req'[a] = req[a] /\ req'[b] = req[a]
        /\ \A x \in Actors : (x # a /\ x # b) => req'[x] = req[x]
    BY <2>1, <2>2 DEF SharingTypeOK
  <2>4. (req[a]["body"] = a /\ a \in Unread) =>
            Unread \subseteq Unread' /\ req'[b]["body"] \in Unread'
    BY <2>1, <2>3 DEF Unread
  <2>5. full' \in [Actors -> BOOLEAN]
    BY <2>1 DEF SharingTypeOK
  <2>6. CloneRequest(a, b) => \A k \in Cloned : req'[b][k] = b
    <3> SUFFICES ASSUME CloneRequest(a, b) PROVE req'[b] = r
      BY <1>1
    <3>1. req' = [req EXCEPT ![a]["body"] = a, ![b] = r]
      BY DEF CloneRequest
    <3> HIDE DEF r
    <3> QED
      BY <1>1, <3>1 DEF SharingTypeOK
  <2> QED
    BY <1>4, <2>1, <2>3, <2>4, <2>5, <2>6
<1> QED
  BY <1>3, <1>4

\* The query filter, one for all the calls of a part (query_strings_filter.go).
LEMMA FilterQueryInv ==
    ASSUME SharingIInv, NEW p \in Parts, FilterQuery(p)
    PROVE  SharingIInv'
<1> DEFINE a == <<p, 0>>
<1>1. /\ pos[a] = "qfilter" /\ pos' = [pos EXCEPT ![a] = "build"]
      /\ UNCHANGED <<conf, next, full, url, sent>> /\ a \in Actors /\ a # Merger
  BY ActorFacts DEF FilterQuery, SharingStep
<1>2. /\ MergerInv' /\ PartsInv' /\ pos' \in [Actors -> Pos] /\ pos'[a] = "build"
      /\ \A x \in Actors : x # a => pos'[x] = pos[x]
  BY <1>1, PartPos
<1> USE DEF SharingIInv
<1>3. /\ req' \in [Actors -> [Kinds -> Actors]]
      /\ \A x \in Actors : x # a => req'[x] = req[x]
      /\ \A k \in Cloned : req'[a][k] = req[a][k]
      /\ req'[a]["query"] = IF conf.dropsQuery[p] THEN a ELSE req[a]["query"]
  <2>1. CASE conf.dropsQuery[p]
    <3> DEFINE r == [req[a] EXCEPT !["query"] = a]
    <3>1. r \in [Kinds -> Actors] /\ r["query"] = a /\ \A k \in Cloned : r[k] = req[a][k]
      BY <1>1, RequestFields DEF Kinds, Cloned
    <3>2. req' = [req EXCEPT ![a] = r]
      BY <1>1, <2>1 DEF FilterQuery
    <3> HIDE DEF r
    <3> QED
      BY <1>1, <2>1, <3>1, <3>2 DEF SharingTypeOK
  <2>2. CASE ~conf.dropsQuery[p]
    BY <1>1, <2>2 DEF FilterQuery, SharingTypeOK
  <2> QED
    BY <2>1, <2>2
<1>4. /\ tags' \in [Actors -> SUBSET (Parts \cup {Client})]
      /\ tags'[a] \subseteq {Client} \/ tags'[a] = tags[a]
      /\ \A x \in Actors : x # a => tags'[x] = tags[x]
  <2>1. CASE conf.dropsQuery[p]
    <3> DEFINE t == tags[req[a]["query"]] \cap {Client}
    <3>1. t \in SUBSET (Parts \cup {Client}) /\ t \subseteq {Client}
      OBVIOUS
    <3>2. tags' = [tags EXCEPT ![a] = t]
      BY <2>1 DEF FilterQuery
    <3> HIDE DEF t
    <3> QED
      BY <1>1, <3>1, <3>2 DEF SharingTypeOK
  <2>2. CASE ~conf.dropsQuery[p]
    BY <2>2 DEF FilterQuery, SharingTypeOK
  <2> QED
    BY <2>1, <2>2
<1>5. SharingTypeOK'
  BY <1>1, <1>2, <1>3, <1>4 DEF SharingTypeOK
<1>6. ASSUME NEW q \in Parts, q # p
      PROVE  /\ pos'[<<q, 0>>] = pos[<<q, 0>>] /\ req'[<<q, 0>>] = req[<<q, 0>>]
             /\ tags'[<<q, 0>>] = tags[<<q, 0>>]
  BY <1>2, <1>3, <1>4, <1>6, ActorFacts
<1>7. ASSUME NEW q \in Parts, NEW d \in Calls
      PROVE  pos'[<<q, d>>] = pos[<<q, d>>] /\ req'[<<q, d>>] = req[<<q, d>>]
  <2>1. <<q, d>> \in Actors /\ <<q, d>> # a
    BY ActorFacts
  <2> QED
    BY <1>2, <1>3, <2>1
<1>8. /\ pos'[Merger] = pos[Merger] /\ req'[Merger] = req[Merger]
      /\ tags'[Merger] = tags[Merger]
  BY <1>1, <1>2, <1>3, <1>4, ActorFacts
<1>9. OwnInv'
  <2>1. ASSUME NEW q \in Parts, OwnPart(q) PROVE OwnPart(q)'
    <3>1. CASE q = p
      BY <1>1, <1>2, <1>3, <2>1, <3>1 DEF OwnPart
    <3>2. CASE q # p
      BY <1>6, <2>1, <3>2 DEF OwnPart
    <3> QED
      BY <3>1, <3>2
  <2>2. ASSUME NEW q \in Parts, NEW d \in Calls, OwnCall(q, d) PROVE OwnCall(q, d)'
    BY <1>1, <1>7, <2>2 DEF OwnCall
  <2> QED
    BY <1>1, <1>8, <2>1, <2>2 DEF OwnInv
<1>10. BodyInv'
  <2>1. ASSUME NEW q \in Parts, BodyPart(q) PROVE BodyPart(q)'
    <3>1. pos'[<<q, 0>>] # "off" => pos[<<q, 0>>] # "off"
      BY <1>1, <1>6
    <3> QED
      BY <1>1, <2>1, <3>1 DEF BodyPart
  <2>2. ASSUME NEW q \in Parts, NEW d \in Calls, BodyCall(q, d) PROVE BodyCall(q, d)'
    BY <1>1, <1>7, <2>2 DEF BodyCall
  <2> QED
    BY <1>1, <2>1, <2>2 DEF BodyInv
<1>11. QueryInv'
  <2>1. ASSUME NEW q \in Parts, QueryPart(q) PROVE QueryPart(q)'
    <3>1. CASE q = p
      BY <1>1, <1>2, <1>3, <2>1, <3>1 DEF QueryPart
    <3>2. CASE q # p
      BY <1>1, <1>6, <2>1, <3>2 DEF QueryPart
    <3> QED
      BY <3>1, <3>2
  <2>2. ASSUME NEW q \in Parts, NEW d \in Calls, QueryCall(q, d) PROVE QueryCall(q, d)'
    <3>1. CASE q = p
      <4>1. next[<<p, 0>>] = 1 /\ d \in Nat \ {0}
        BY <1>1, ActorFacts DEF PartsInv
      <4>2. pos[<<p, d>>] = "off"
        BY <4>1 DEF PartsInv
      <4> QED
        BY <1>7, <3>1, <4>2 DEF QueryCall
    <3>2. CASE q # p
      BY <1>6, <1>7, <2>2, <3>2 DEF QueryCall
    <3> QED
      BY <3>1, <3>2
  <2>3. ASSUME NEW q \in Parts, tags[<<q, 0>>] \subseteq {Client, q}
        PROVE  tags'[<<q, 0>>] \subseteq {Client, q}
    <3>1. CASE q = p
      BY <1>4, <2>3, <3>1
    <3>2. CASE q # p
      BY <1>6, <2>3, <3>2
    <3> QED
      BY <3>1, <3>2
  <2> QED
    BY <1>1, <1>8, <2>1, <2>2, <2>3 DEF QueryInv, GetsHaveTheirQuery
<1>12. BodiesAreWhole' /\ UrlsDoNotMix'
  BY <1>1 DEF BodiesAreWhole, UrlsDoNotMix
<1> QED
  BY <1>2, <1>5, <1>9, <1>10, <1>11, <1>12

\* The concurrent middleware hands out a clone, or the request (concurrent.go).
LEMMA SpawnInv ==
    ASSUME SharingIInv, NEW p \in Parts, SpawnCall(p)
    PROVE  SharingIInv'
<1> DEFINE a == <<p, 0>>
           n == next[a]
           b == <<p, n>>
<1> USE DEF SharingIInv
<1>1. /\ a \in Actors /\ a # Merger /\ n \in Calls /\ n <= conf.calls[p]
      /\ b \in Actors /\ b # Merger /\ b # a /\ conf.calls[p] \in Nat /\ n \in Nat
      /\ \A q \in Parts : q # p => b # <<q, 0>> /\ a # <<q, 0>>
  <2>1. conf.calls[p] \in 1 .. MaxCalls /\ n \in 1 .. conf.calls[p] + 1 /\ n <= conf.calls[p]
    BY ConfigsAssumption DEF SharingTypeOK, Config, SpawnCall
  <2>2. n \in Calls /\ n \in Nat
    BY <2>1, ActorFacts DEF Calls
  <2>3. a \in Actors /\ a # Merger /\ b \in Actors /\ b # Merger
    BY <2>2, ActorFacts
  <2>4. n # 0
    BY <2>2, ActorFacts
  <2>5. b # a /\ \A q \in Parts : q # p => b # <<q, 0>> /\ a # <<q, 0>>
    BY <2>4
  <2> QED
    BY <2>1, <2>2, <2>3, <2>5
<1>2. /\ pos[a] = "spawn" /\ pos' = [pos EXCEPT ![b] = "balance"]
      /\ next' = [next EXCEPT ![a] = n + 1] /\ UNCHANGED <<conf, tags, url, sent>>
      /\ CloneRequest(a, b) \/ (Clone(a, b) /\ n = conf.calls[p])
  <2>1. (~ClonesNext(a)) => n = conf.calls[p]
    BY <1>1, ActorFacts DEF ClonesNext
  <2> QED
    BY <2>1 DEF SpawnCall
<1> HIDE DEF n
<1>3. /\ req' \in [Actors -> [Kinds -> Actors]] /\ full' \in [Actors -> BOOLEAN]
      /\ \A x \in Actors : (x # a /\ x # b) => req'[x] = req[x]
      /\ req'[a]["query"] = req[a]["query"] /\ req'[b]["query"] = req[a]["query"]
      /\ \A k \in Cloned : req'[a][k] \in {a, req[a][k]}
      /\ CloneRequest(a, b) => \A k \in Cloned : req'[b][k] = b
      /\ Clone(a, b) => req'[b] = req[a] /\ req'[a] = req[a] /\ full' = full
      /\ (req[a]["body"] = a /\ a \in Unread) =>
             /\ Unread \subseteq Unread'
             /\ req'[b]["body"] \in Unread'
  BY <1>1, <1>2, CloneFacts
<1>4. /\ pos' \in [Actors -> Pos] /\ pos'[b] = "balance"
      /\ \A x \in Actors : x # b => pos'[x] = pos[x]
      /\ next' \in [Actors -> Nat] /\ next'[a] = n + 1
      /\ \A x \in Actors : x # a => next'[x] = next[x]
  BY <1>1, <1>2 DEF SharingTypeOK, Pos
<1>5. ASSUME NEW q \in Parts
      PROVE  /\ pos'[<<q, 0>>] = pos[<<q, 0>>]
             /\ q # p => next'[<<q, 0>>] = next[<<q, 0>>] /\ req'[<<q, 0>>] = req[<<q, 0>>]
             /\ req'[<<q, 0>>]["query"] = req[<<q, 0>>]["query"]
  <2>1. <<q, 0>> \in Actors /\ <<q, 0>> # b
    BY <1>1, ActorFacts
  <2>2. q # p => <<q, 0>> # a
    OBVIOUS
  <2> QED
    BY <1>3, <1>4, <2>1, <2>2
<1>6. ASSUME NEW q \in Parts, NEW d \in Calls, <<q, d>> # b
      PROVE  pos'[<<q, d>>] = pos[<<q, d>>] /\ req'[<<q, d>>] = req[<<q, d>>]
  <2>1. <<q, d>> \in Actors /\ <<q, d>> # a
    BY ActorFacts
  <2> QED
    BY <1>3, <1>4, <1>6, <2>1
<1>7. /\ pos'[Merger] = pos[Merger] /\ req'[Merger] = req[Merger]
      /\ next'[Merger] = next[Merger]
  BY <1>1, <1>3, <1>4, ActorFacts
<1>8. SharingTypeOK'
  <2>1. \A q \in Parts : next'[<<q, 0>>] \in 1 .. conf.calls[q] + 1
    <3> SUFFICES ASSUME NEW q \in Parts
                 PROVE  next'[<<q, 0>>] \in 1 .. conf.calls[q] + 1
      OBVIOUS
    <3>1. CASE q = p
      BY <1>1, <1>4, <3>1
    <3>2. CASE q # p
      BY <1>5, <3>2 DEF SharingTypeOK
    <3> QED
      BY <3>1, <3>2
  <2> QED
    BY <1>2, <1>3, <1>4, <1>7, <2>1 DEF SharingTypeOK
<1>9. MergerInv'
  BY <1>2, <1>5, <1>7 DEF MergerInv
<1>10. PartsInv'
  <2> SUFFICES ASSUME NEW q \in Parts
               PROVE  /\ pos[<<q, 0>>] \in {"off", "qfilter", "build"} => next'[<<q, 0>>] = 1
                      /\ pos[<<q, 0>>] \in {"ok", "failed"} =>
                             next'[<<q, 0>>] > conf.calls[q]
                      /\ \A d \in Calls :
                            /\ pos'[<<q, d>>] \in {"off", "balance", "filter", "graphql",
                                                   "http", "ok", "failed"}
                            /\ pos'[<<q, d>>] # "off" <=> d < next'[<<q, 0>>]
    BY <1>2, <1>5 DEF PartsInv
  <2>1. CASE q # p
    <3>1. \A d \in Calls : <<q, d>> # b
      BY <2>1
    <3> QED
      BY <1>5, <1>6, <2>1, <3>1 DEF PartsInv
  <2>2. CASE q = p
    <3>1. ASSUME NEW d \in Calls
          PROVE  /\ pos'[<<p, d>>] \in {"off", "balance", "filter", "graphql",
                                        "http", "ok", "failed"}
                 /\ pos'[<<p, d>>] # "off" <=> d < n + 1
      <4>1. d \in Nat
        BY ActorFacts
      <4>2. CASE d = n
        BY <1>1, <1>4, <4>1, <4>2
      <4>3. CASE d # n
        <5>1. pos'[<<p, d>>] = pos[<<p, d>>]
          BY <1>6, <4>3
        <5>2. pos[<<p, d>>] # "off" <=> d < n
          BY DEF PartsInv, n
        <5> QED
          BY <1>1, <4>1, <4>3, <5>1, <5>2 DEF PartsInv
      <4> QED
        BY <4>2, <4>3
    <3> QED
      BY <1>2, <1>4, <2>2, <3>1
  <2> QED
    BY <2>1, <2>2
<1>11. conf.deep => \A k \in Cloned : req[a][k] = a
  BY <1>2 DEF OwnInv, OwnPart
<1>12. OwnInv'
  <2> SUFFICES ASSUME conf.deep
               PROVE  /\ \A k \in Cloned : req'[Merger][k] = Merger
                      /\ \A q \in Parts : OwnPart(q)'
                      /\ \A q \in Parts, d \in Calls : OwnCall(q, d)'
    BY <1>2 DEF OwnInv
  <2>1. ASSUME NEW q \in Parts PROVE OwnPart(q)'
    <3>1. CASE q = p
      BY <1>3, <1>11, <3>1 DEF OwnPart
    <3>2. CASE q # p
      BY <1>5, <3>2 DEF OwnPart, OwnInv
    <3> QED
      BY <3>1, <3>2
  <2>2. ASSUME NEW q \in Parts, NEW d \in Calls PROVE OwnCall(q, d)'
    <3>1. CASE <<q, d>> = b
      <4>1. q = p /\ d = n
        BY <3>1
      <4>2. \A k \in Cloned : \/ req'[b][k] = b
                              \/ n = conf.calls[p] /\ req'[b][k] = a
        BY <1>2, <1>3, <1>11
      <4> QED
        BY <1>2, <4>1, <4>2 DEF OwnCall
    <3>2. CASE <<q, d>> # b
      <4>1. OwnCall(q, d)
        BY DEF OwnInv
      <4> QED
        BY <1>2, <1>6, <3>2, <4>1 DEF OwnCall
    <3> QED
      BY <3>1, <3>2
  <2> QED
    BY <1>7, <2>1, <2>2 DEF OwnInv
<1>13. BodyInv'
  <2> SUFFICES ASSUME conf.deep, conf.hasBody
               PROVE  /\ full'[Merger]
                      /\ \A q \in Parts : BodyPart(q)'
                      /\ \A q \in Parts, d \in Calls : BodyCall(q, d)'
    BY <1>2 DEF BodyInv
  <2>1. /\ full[Merger] /\ \A q \in Parts : BodyPart(q)
        /\ \A q \in Parts, d \in Calls : BodyCall(q, d)
    BY DEF BodyInv
  <2>2. full[a]
    BY <1>1, <1>2, <2>1 DEF BodyPart, n
  <2>3. \A x \in Actors : full[x] => full'[x]
    BY <1>1, <1>3, <1>11, <2>2 DEF Unread, Cloned
  <2>4. full'[req'[b]["body"]]
    BY <1>1, <1>3, <1>11, <2>2 DEF Unread, Cloned
  <2>5. ASSUME NEW q \in Parts PROVE BodyPart(q)'
    <3>1. <<q, 0>> \in Actors
      BY ActorFacts
    <3>2. CASE q = p
      BY <1>1, <2>2, <2>3, <3>2 DEF BodyPart
    <3>3. CASE q # p
      BY <1>2, <1>5, <2>1, <2>3, <3>1, <3>3 DEF BodyPart
    <3> QED
      BY <3>2, <3>3
  <2>6. ASSUME NEW q \in Parts, NEW d \in Calls PROVE BodyCall(q, d)'
    <3>1. CASE <<q, d>> = b
      BY <2>4, <3>1 DEF BodyCall
    <3>2. CASE <<q, d>> # b
      <4>1. req[<<q, d>>]["body"] \in Actors
        <5>1. <<q, d>> \in Actors
          BY ActorFacts
        <5> QED
          BY <5>1, RequestFields DEF Kinds
      <4> QED
        BY <1>6, <2>1, <2>3, <3>2, <4>1 DEF BodyCall
    <3> QED
      BY <3>1, <3>2
  <2> QED
    BY <2>1, <2>3, <2>5, <2>6, ActorFacts
<1>14. QueryInv'
  <2>1. ASSUME NEW q \in Parts, QueryPart(q) PROVE QueryPart(q)'
    BY <1>2, <1>5, <2>1 DEF QueryPart
  <2>2. ASSUME NEW q \in Parts, NEW d \in Calls, QueryCall(q, d) PROVE QueryCall(q, d)'
    <3>1. CASE <<q, d>> = b
      BY <1>3, <3>1 DEF QueryCall
    <3>2. CASE <<q, d>> # b
      BY <1>5, <1>6, <2>2, <3>2 DEF QueryCall
    <3> QED
      BY <3>1, <3>2
  <2> QED
    BY <1>2, <1>7, <2>1, <2>2 DEF QueryInv, GetsHaveTheirQuery
<1>15. BodiesAreWhole' /\ UrlsDoNotMix'
  BY <1>2 DEF BodiesAreWhole, UrlsDoNotMix
<1> QED
  BY <1>8, <1>9, <1>10, <1>12, <1>13, <1>14, <1>15

\* The merger hands out a clone to a part, the request to none
\* (merging.go:283-293).
LEMMA LaunchInv ==
    ASSUME SharingIInv, LaunchPart
    PROVE  SharingIInv'
<1> DEFINE p == next[Merger]
           a == Merger
           b == <<p, 0>>
           s == IF conf.sequential \/ p = NumParts THEN "await" ELSE "clone"
<1> USE DEF SharingIInv
<1>1. /\ p \in Parts /\ p \in Nat /\ NumParts \in Nat
      /\ a \in Actors /\ b \in Actors /\ b # a /\ pos[b] = "off"
      /\ \A q \in Parts : q # p => b # <<q, 0>>
      /\ pos[a] = "clone"
  <2>1. pos[a] = "clone" /\ p \in 1 .. NumParts + 1 /\ p <= NumParts
    BY DEF LaunchPart, MergerInv, SharingTypeOK
  <2>2. p \in Parts /\ p \in Nat /\ NumParts \in Nat
    BY <2>1, ConfigsAssumption DEF Parts
  <2>3. a \in Actors /\ b \in Actors /\ b # a
    BY <2>2, ActorFacts
  <2>4. pos[b] = "off"
    BY <2>2 DEF MergerInv
  <2> QED
    BY <2>1, <2>2, <2>3, <2>4
<1>2. /\ pos' = [pos EXCEPT ![b] = "qfilter", ![a] = s]
      /\ next' = [next EXCEPT ![a] = p + 1] /\ UNCHANGED <<conf, tags, url, sent>>
      /\ CloneRequest(a, b) \/ (Clone(a, b) /\ ~conf.deep)
  BY DEF LaunchPart
<1>3. s \in {"await", "clone"}
  OBVIOUS
<1>4. /\ s = "clone" => ~conf.sequential /\ p # NumParts
      /\ (s = "await" /\ ~conf.sequential) => p = NumParts
  OBVIOUS
<1> HIDE DEF p, s
<1>5. /\ req' \in [Actors -> [Kinds -> Actors]] /\ full' \in [Actors -> BOOLEAN]
      /\ \A x \in Actors : (x # a /\ x # b) => req'[x] = req[x]
      /\ req'[a]["query"] = req[a]["query"] /\ req'[b]["query"] = req[a]["query"]
      /\ \A k \in Cloned : req'[a][k] \in {a, req[a][k]}
      /\ CloneRequest(a, b) => \A k \in Cloned : req'[b][k] = b
      /\ (req[a]["body"] = a /\ a \in Unread) =>
             /\ Unread \subseteq Unread'
             /\ req'[b]["body"] \in Unread'
  BY <1>1, <1>2, CloneFacts
<1>6. /\ pos' \in [Actors -> Pos] /\ pos'[b] = "qfilter" /\ pos'[a] = s
      /\ \A x \in Actors : (x # b /\ x # a) => pos'[x] = pos[x]
      /\ next' \in [Actors -> Nat] /\ next'[a] = p + 1
      /\ \A x \in Actors : x # a => next'[x] = next[x]
  <2>1. "qfilter" \in Pos /\ s \in Pos /\ p + 1 \in Nat
    BY <1>1, <1>3 DEF Pos
  <2>2. /\ pos' \in [Actors -> Pos] /\ pos'[b] = "qfilter" /\ pos'[a] = s
        /\ \A x \in Actors : (x # b /\ x # a) => pos'[x] = pos[x]
    <3>1. pos \in [Actors -> Pos]
      BY DEF SharingTypeOK
    <3> HIDE DEF SharingIInv, b
    <3> QED
      BY <1>1, <1>2, <2>1, <3>1
  <2>3. /\ next' \in [Actors -> Nat] /\ next'[a] = p + 1
        /\ \A x \in Actors : x # a => next'[x] = next[x]
    BY <1>1, <1>2, <2>1 DEF SharingTypeOK
  <2> QED
    BY <2>2, <2>3
<1>7. ASSUME NEW q \in Parts
      PROVE  /\ q # p => pos'[<<q, 0>>] = pos[<<q, 0>>] /\ req'[<<q, 0>>] = req[<<q, 0>>]
             /\ next'[<<q, 0>>] = next[<<q, 0>>]
  <2>1. <<q, 0>> \in Actors /\ <<q, 0>> # a
    BY ActorFacts
  <2>2. q # p => <<q, 0>> # b
    BY <1>1
  <2> QED
    BY <1>5, <1>6, <2>1, <2>2
<1>8. ASSUME NEW q \in Parts, NEW d \in Calls
      PROVE  pos'[<<q, d>>] = pos[<<q, d>>] /\ req'[<<q, d>>] = req[<<q, d>>]
  <2>1. <<q, d>> \in Actors /\ <<q, d>> # a /\ <<q, d>> # b
    BY ActorFacts
  <2> QED
    BY <1>5, <1>6, <2>1
<1>9. SharingTypeOK'
  <2>1. next'[a] \in 1 .. NumParts + 1
    BY <1>1, <1>6 DEF Parts
  <2> QED
    BY <1>2, <1>5, <1>6, <1>7, <2>1 DEF SharingTypeOK
<1>10. MergerInv'
  <2>1. \A q \in Parts : pos'[<<q, 0>>] = "off" <=> q >= p + 1
    <3> SUFFICES ASSUME NEW q \in Parts
                 PROVE  pos'[<<q, 0>>] = "off" <=> q >= p + 1
      OBVIOUS
    <3>1. q \in Nat
      BY ActorFacts
    <3>2. CASE q = p
      BY <1>1, <1>6, <3>2
    <3>3. CASE q # p
      <4>1. pos[<<q, 0>>] = "off" <=> q >= p
        BY DEF MergerInv, p
      <4> QED
        BY <1>1, <1>7, <3>1, <3>3, <4>1
    <3> QED
      BY <3>2, <3>3
  <2>2. conf.sequential =>
            \A q \in Parts : q < p => pos'[<<q, 0>>] \in {"ok", "failed"}
    <3> SUFFICES ASSUME conf.sequential, NEW q \in Parts, q < p
                 PROVE  pos'[<<q, 0>>] \in {"ok", "failed"}
      OBVIOUS
    <3>1. pos[<<q, 0>>] \in {"ok", "failed"}
      BY <1>1 DEF MergerInv, p
    <3>2. q # p
      BY <1>1
    <3> QED
      BY <1>7, <3>1, <3>2
  <2>3. conf.sequential => s = "await"
    BY <1>3, <1>4
  <2>4. s = "clone" => p + 1 <= NumParts
    BY <1>1, <1>4 DEF Parts
  <2> QED
    BY <1>1, <1>2, <1>3, <1>4, <1>6, <2>1, <2>2, <2>3, <2>4, ActorFacts DEF MergerInv
<1>11. PartsInv'
  <2> SUFFICES ASSUME NEW q \in Parts
               PROVE  \/ pos'[<<q, 0>>] = pos[<<q, 0>>]
                      \/ pos'[<<q, 0>>] = "qfilter" /\ next[<<q, 0>>] = 1
    BY <1>2, <1>7, <1>8 DEF PartsInv
  <2>1. CASE q = p
    BY <1>1, <1>6, <2>1 DEF PartsInv
  <2>2. CASE q # p
    BY <1>7, <2>2
  <2> QED
    BY <2>1, <2>2
<1>12. OwnInv'
  <2> SUFFICES ASSUME conf.deep
               PROVE  /\ \A k \in Cloned : req'[a][k] = a
                      /\ \A q \in Parts : OwnPart(q)'
                      /\ \A q \in Parts, d \in Calls : OwnCall(q, d)'
    BY <1>2 DEF OwnInv
  <2>1. \A k \in Cloned : req[a][k] = a
    BY DEF OwnInv
  <2>2. ASSUME NEW q \in Parts PROVE OwnPart(q)'
    <3>1. CASE q = p
      BY <1>2, <1>5, <3>1 DEF OwnPart
    <3>2. CASE q # p
      BY <1>7, <3>2 DEF OwnPart, OwnInv
    <3> QED
      BY <3>1, <3>2
  <2>3. ASSUME NEW q \in Parts, NEW d \in Calls PROVE OwnCall(q, d)'
    <3>1. OwnCall(q, d)
      BY DEF OwnInv
    <3> QED
      BY <1>2, <1>8, <3>1 DEF OwnCall
  <2> QED
    BY <1>5, <2>1, <2>2, <2>3
<1>13. BodyInv'
  <2> SUFFICES ASSUME conf.deep, conf.hasBody
               PROVE  /\ full'[a]
                      /\ \A q \in Parts : BodyPart(q)'
                      /\ \A q \in Parts, d \in Calls : BodyCall(q, d)'
    BY <1>2 DEF BodyInv
  <2>1. /\ full[a] /\ \A q \in Parts : BodyPart(q)
        /\ \A q \in Parts, d \in Calls : BodyCall(q, d)
    BY DEF BodyInv
  <2>2. req[a]["body"] = a
    BY DEF OwnInv, Cloned
  <2>3. (\A x \in Actors : full[x] => full'[x]) /\ full'[req'[b]["body"]]
    BY <1>1, <1>5, <2>1, <2>2 DEF Unread
  <2>4. ASSUME NEW q \in Parts PROVE BodyPart(q)'
    <3>1. <<q, 0>> \in Actors
      BY ActorFacts
    <3>2. CASE q = p
      <4>1. req'[b]["body"] = b
        BY <1>2, <1>5 DEF Cloned
      <4> QED
        BY <2>3, <3>2, <4>1 DEF BodyPart
    <3>3. CASE q # p
      BY <1>2, <1>7, <2>1, <2>3, <3>1, <3>3 DEF BodyPart
    <3> QED
      BY <3>2, <3>3
  <2>5. ASSUME NEW q \in Parts, NEW d \in Calls PROVE BodyCall(q, d)'
    <3>1. req[<<q, d>>]["body"] \in Actors
      <4>1. <<q, d>> \in Actors
        BY ActorFacts
      <4> QED
        BY <4>1, RequestFields DEF Kinds
    <3> QED
      BY <1>8, <2>1, <2>3, <3>1 DEF BodyCall
  <2> QED
    BY <1>1, <2>1, <2>3, <2>4, <2>5
<1>14. QueryInv'
  <2>1. ASSUME NEW q \in Parts, QueryPart(q) PROVE QueryPart(q)'
    <3>1. CASE q = p
      BY <1>2, <1>5, <1>6, <3>1 DEF QueryPart, QueryInv
    <3>2. CASE q # p
      BY <1>2, <1>7, <2>1, <3>2 DEF QueryPart
    <3> QED
      BY <3>1, <3>2
  <2>2. ASSUME NEW q \in Parts, NEW d \in Calls, QueryCall(q, d) PROVE QueryCall(q, d)'
    <3>1. CASE q = p
      <4>1. next[<<p, 0>>] = 1 /\ d \in Nat \ {0}
        BY <1>1, ActorFacts DEF PartsInv
      <4>2. pos[<<p, d>>] = "off"
        BY <1>1, <4>1 DEF PartsInv
      <4> QED
        BY <1>8, <3>1, <4>2 DEF QueryCall
    <3>2. CASE q # p
      BY <1>7, <1>8, <2>2, <3>2 DEF QueryCall
    <3> QED
      BY <3>1, <3>2
  <2> QED
    BY <1>2, <1>5, <2>1, <2>2 DEF QueryInv, GetsHaveTheirQuery
<1>15. BodiesAreWhole' /\ UrlsDoNotMix'
  BY <1>2 DEF BodiesAreWhole, UrlsDoNotMix
<1> QED
  BY <1>9, <1>10, <1>11, <1>12, <1>13, <1>14, <1>15

\* Whoever moves, the objects stay apart.
THEOREM SharingInvariance == SharingSpec => []SharingIInv
<1>1. SharingIInv /\ [SharingNext]_sharingVars => SharingIInv'
  <2> SUFFICES ASSUME SharingIInv, [SharingNext]_sharingVars PROVE SharingIInv'
    OBVIOUS
  <2>1. CASE WriteParams \/ NextPart \/ MergerReturns
    BY <2>1, MergerMoves
  <2>2. CASE LaunchPart
    BY <2>2, LaunchInv
  <2>3. ASSUME NEW p \in Parts,
               FilterQuery(p) \/ BuildPath(p) \/ SpawnCall(p) \/ PartReturns(p)
        PROVE  SharingIInv'
    BY <2>3, FilterQueryInv, SpawnInv, PartMoves
  <2>4. ASSUME NEW a \in Parts \X (1 .. MaxCalls), CallStep(a)
        PROVE  SharingIInv'
    <3>1. a \in Parts \X Calls
      BY DEF Calls
    <3> QED
      BY <2>4, <3>1, BalanceInv, FilterHeadersInv, GraphQLSendsInv, CallMoves, SendHTTPInv
         DEF CallStep
  <2>5. CASE UNCHANGED sharingVars
    <3>1. UNCHANGED <<conf, pos, next, req, tags, full, url, sent>>
      BY <2>5 DEF sharingVars
    <3>2. SharingTypeOK' /\ MergerInv' /\ PartsInv'
      BY <3>1 DEF SharingIInv, SharingTypeOK, MergerInv, PartsInv
    <3>3. OwnInv' /\ BodyInv'
      BY <3>1 DEF SharingIInv, OwnInv, OwnPart, OwnCall, BodyInv, BodyPart, BodyCall
    <3>4. QueryInv'
      BY <3>1 DEF SharingIInv, QueryInv, QueryPart, QueryCall, GetsHaveTheirQuery
    <3>5. BodiesAreWhole' /\ UrlsDoNotMix'
      BY <3>1 DEF SharingIInv, BodiesAreWhole, UrlsDoNotMix
    <3> QED
      BY <3>2, <3>3, <3>4, <3>5 DEF SharingIInv
  <2> QED
    BY <2>1, <2>2, <2>3, <2>4, <2>5 DEF SharingNext, SharingFinished
<1> QED
  BY <1>1, InitInv, PTL DEF SharingSpec

-----------------------------------------------------------------------------
(* Races.                                                                  *)

\* What a touch is.
LEMMA TouchFields ==
    ASSUME NEW a, NEW k, NEW m, NEW x \in Touch(a, k, m)
    PROVE  x.obj = <<k, req[a][k]>> /\ (x.write => m = "w")
<1>1. x = [obj |-> <<k, req[a][k]>>, write |-> m = "w"]
  BY DEF Touch
<1> QED
  BY <1>1

\* The condition under which cloning is enough.
Cloning == /\ conf.hasBody => conf.deep
           /\ NoGraphQLBackend \/ (conf.deep /\ NoGraphQLGet)

\* An actor that may touch something.
AtWork(a) == /\ pos[a] \notin {"off", "await", "ok", "failed"}
             /\ pos[a] = "spawn" => ClonesNext(a)

\* What the actor touches: it writes nothing but what is cloned, and without
\* deep clones only the merger writes, and only the params.
TouchIsFine(a, x) ==
    \E k \in Kinds :
        /\ x.obj = <<k, req[a][k]>> /\ AtWork(a)
        /\ x.write => k \in Cloned
        /\ ~conf.deep =>
              /\ x.write => pos[a] = "params" /\ k = "params"
              /\ k = "params" => pos[a] \in {"params", "build", "spawn"}

\* With deep clones an actor touches what is its own, or reads.
LEMMA TouchesAreFine ==
    ASSUME SharingIInv, Cloning, NEW a \in Actors, NEW x \in Touches(a)
    PROVE  TouchIsFine(a, x)
<1> USE DEF Cloned, Kinds
<1>1. conf.hasBody => conf.deep
  BY DEF Cloning
<1>2. CASE pos[a] = "params"
  BY <1>2, TouchFields DEF Touches, TouchIsFine, AtWork
<1>3. ASSUME x \in CloneTouches(a), AtWork(a), conf.deep \/ pos[a] = "spawn"
      PROVE  TouchIsFine(a, x)
  <2>1. CASE x \in Touch(a, "headers", "r")
    <3>1. x.obj = <<"headers", req[a]["headers"]>> /\ ~x.write
      BY <2>1, TouchFields
    <3> QED
      BY <1>3, <3>1 DEF TouchIsFine
  <2>2. CASE x \in Touch(a, "params", "r")
    <3>1. x.obj = <<"params", req[a]["params"]>> /\ ~x.write
      BY <2>2, TouchFields
    <3> QED
      BY <1>3, <3>1 DEF TouchIsFine
  <2>3. CASE conf.hasBody /\ x \in Touch(a, "body", "w")
    <3>1. x.obj = <<"body", req[a]["body"]>>
      BY <2>3, TouchFields
    <3> QED
      BY <1>1, <1>3, <2>3, <3>1 DEF TouchIsFine
  <2> QED
    BY <1>3, <2>1, <2>2, <2>3 DEF CloneTouches
<1>4. CASE pos[a] = "clone"
  BY <1>3, <1>4 DEF Touches, AtWork
<1>5. CASE pos[a] = "spawn"
  BY <1>3, <1>5 DEF Touches, AtWork
<1>6. CASE pos[a] \in {"qfilter", "balance"}
  <2>1. x \in Touch(a, "query", "r")
    BY <1>6 DEF Touches
  <2>2. x.obj = <<"query", req[a]["query"]>> /\ ~x.write
    BY <2>1, TouchFields
  <2> QED
    BY <1>6, <2>2 DEF TouchIsFine, AtWork
<1>7. CASE pos[a] = "build"
  <2>1. x \in Touch(a, "params", "r")
    BY <1>7 DEF Touches
  <2>2. x.obj = <<"params", req[a]["params"]>> /\ ~x.write
    BY <2>1, TouchFields
  <2> QED
    BY <1>7, <2>2 DEF TouchIsFine, AtWork
<1>8. CASE pos[a] = "filter"
  <2>1. x \in Touch(a, "headers", "r")
    BY <1>8 DEF Touches
  <2>2. x.obj = <<"headers", req[a]["headers"]>> /\ ~x.write
    BY <2>1, TouchFields
  <2> QED
    BY <1>8, <2>2 DEF TouchIsFine, AtWork
<1>9. CASE pos[a] = "http"
  <2>1. \/ x \in Touch(a, "headers", "r")
        \/ conf.hasBody /\ x \in Touch(a, "body", "w")
    BY <1>9 DEF Touches
  <2>2. CASE x \in Touch(a, "headers", "r")
    <3>1. x.obj = <<"headers", req[a]["headers"]>> /\ ~x.write
      BY <2>2, TouchFields
    <3> QED
      BY <1>9, <3>1 DEF TouchIsFine, AtWork
  <2>3. CASE conf.hasBody /\ x \in Touch(a, "body", "w")
    <3>1. x.obj = <<"body", req[a]["body"]>>
      BY <2>3, TouchFields
    <3> QED
      BY <1>1, <1>9, <2>3, <3>1 DEF TouchIsFine, AtWork
  <2> QED
    BY <2>1, <2>2, <2>3
<1>10. CASE pos[a] = "graphql"
  <2>1. x \in GraphQLTouches(a) /\ conf.graphql[a[1]] # "none"
    BY <1>10 DEF Touches, GraphQLTouches
  <2>2. a[1] \in Parts
    <3>1. a # Merger
      BY <1>10 DEF SharingIInv, MergerInv
    <3>2. PICK p \in Parts, c \in 0 .. MaxCalls : a = <<p, c>>
      BY <3>1, ActorFacts
    <3> QED
      BY <3>2, ActorFacts
  <2>3. conf.deep /\ ~conf.get[a[1]]
    BY <2>1, <2>2 DEF Cloning, NoGraphQLBackend, NoGraphQLGet
  <2>4. PICK k \in Cloned, m \in {"r", "w"} : x \in Touch(a, k, m)
    BY <2>1, <2>3 DEF GraphQLTouches
  <2>5. x.obj = <<k, req[a][k]>>
    BY <2>4, TouchFields
  <2> QED
    BY <1>10, <2>3, <2>5 DEF TouchIsFine, AtWork
<1>11. pos[a] \in Pos
  BY DEF SharingIInv, SharingTypeOK
<1> QED
  BY <1>2, <1>4, <1>5, <1>6, <1>7, <1>8, <1>9, <1>10, <1>11 DEF Touches, Pos

\* Two actors at work have no cloned object in common.
LEMMA ObjectsApart ==
    ASSUME SharingIInv, conf.deep, NEW a \in Actors, NEW b \in Actors, a # b,
           AtWork(a), AtWork(b), NEW k \in Cloned
    PROVE  req[a][k] # req[b][k]
<1> DEFINE Owner(x, o) ==
              \/ x = Merger /\ o = Merger
              \/ \E p \in Parts : x = <<p, 0>> /\ o = <<p, 0>>
              \/ \E p \in Parts, c \in Calls :
                    /\ x = <<p, c>>
                    /\ o = <<p, c>> \/ (o = <<p, 0>> /\ c = conf.calls[p])
<1>1. ASSUME NEW x \in Actors, AtWork(x)
      PROVE  /\ Owner(x, req[x][k])
             /\ \A p \in Parts : x = <<p, 0>> => pos[<<p, conf.calls[p]>>] = "off"
  <2>1. CASE x = Merger
    BY <2>1, ActorFacts DEF SharingIInv, OwnInv
  <2>2. ASSUME NEW p \in Parts, x = <<p, 0>>
        PROVE  req[x][k] = <<p, 0>> /\ pos[<<p, conf.calls[p]>>] = "off"
    <3>1. pos[<<p, 0>>] # "off" /\ pos[<<p, 0>>] \notin {"ok", "failed"}
      BY <1>1, <2>2 DEF AtWork
    <3>2. req[x][k] = <<p, 0>>
      BY <2>2, <3>1 DEF SharingIInv, OwnInv, OwnPart
    <3>3. /\ conf.calls[p] \in Calls /\ conf.calls[p] \in Nat \ {0}
          /\ next[<<p, 0>>] \in Nat
      BY ActorFacts, ConfigsAssumption DEF SharingIInv, SharingTypeOK, Config, Calls
    <3>4. next[<<p, 0>>] <= conf.calls[p]
      <4>1. pos[<<p, 0>>] \in {"qfilter", "build", "spawn"}
        BY <3>1 DEF SharingIInv, PartsInv
      <4>2. CASE pos[<<p, 0>>] = "spawn"
        <5>1. next[<<p, 0>>] < conf.calls[p]
          BY <1>1, <2>2, <4>2, ActorFacts DEF AtWork, ClonesNext
        <5> QED
          BY <3>3, <5>1
      <4>3. CASE pos[<<p, 0>>] \in {"qfilter", "build"}
        BY <3>3, <4>3 DEF SharingIInv, PartsInv
      <4> QED
        BY <4>1, <4>2, <4>3
    <3>5. pos[<<p, conf.calls[p]>>] = "off"
      BY <3>3, <3>4 DEF SharingIInv, PartsInv
    <3> QED
      BY <3>2, <3>5
  <2>3. ASSUME NEW p \in Parts, NEW c \in Calls, x = <<p, c>>
        PROVE  Owner(x, req[x][k])
    <3>1. pos[<<p, c>>] # "off"
      BY <1>1, <2>3 DEF AtWork
    <3>2. OwnCall(p, c)
      BY DEF SharingIInv, OwnInv
    <3> QED
      BY <2>3, <3>1, <3>2 DEF OwnCall
  <2>4. CASE x # Merger
    <3>1. PICK p \in Parts, c \in 0 .. MaxCalls : x = <<p, c>>
      BY <2>4, ActorFacts
    <3>2. c = 0 \/ c \in Calls
      BY ActorFacts DEF Calls
    <3>3. \A q \in Parts : x = <<q, 0>> => pos[<<q, conf.calls[q]>>] = "off"
      BY <2>2
    <3> QED
      BY <2>2, <2>3, <3>1, <3>2, <3>3
  <2>5. x = Merger => \A p \in Parts : x # <<p, 0>>
    BY ActorFacts
  <2> QED
    BY <2>1, <2>4, <2>5
<1>2. Owner(a, req[a][k]) /\ Owner(b, req[b][k])
  BY <1>1
<1> SUFFICES ASSUME req[a][k] = req[b][k] PROVE FALSE
  OBVIOUS
<1>3. PICK o : o = req[a][k] /\ o = req[b][k]
  OBVIOUS
<1>4. \A p \in Parts : <<p, 0>> # Merger /\ \A c \in Calls : <<p, c>> # Merger
  BY ActorFacts
<1>5. ASSUME NEW x \in Actors, NEW y \in Actors, AtWork(x), AtWork(y),
             NEW p \in Parts, NEW c \in Calls,
             x = <<p, 0>>, y = <<p, c>>, c = conf.calls[p]
      PROVE  FALSE
  BY <1>1, <1>5 DEF AtWork
<1>6. Owner(a, o) /\ Owner(b, o)
  BY <1>2, <1>3
<1>7. 0 \notin Calls
  BY ActorFacts
<1> QED
  BY <1>4, <1>5, <1>6, <1>7

\* Two actors whose touches are fine do not race.
LEMMA CloningSuffices ==
    ASSUME SharingIInv, Cloning PROVE NoRace
<1> SUFFICES ASSUME NEW a \in Actors, NEW b \in Actors, a # b,
                    NEW x \in Touches(a), NEW y \in Touches(b),
                    x.obj = y.obj, x.write \/ y.write
             PROVE  FALSE
  BY DEF NoRace, Races, Conflict
<1>1. TouchIsFine(a, x) /\ TouchIsFine(b, y)
  BY TouchesAreFine
<1>2. PICK k \in Kinds :
         /\ x.obj = <<k, req[a][k]>> /\ AtWork(a)
         /\ x.write => k \in Cloned
         /\ ~conf.deep => /\ x.write => pos[a] = "params" /\ k = "params"
                          /\ k = "params" => pos[a] \in {"params", "build", "spawn"}
  BY <1>1 DEF TouchIsFine
<1>3. PICK l \in Kinds :
         /\ y.obj = <<l, req[b][l]>> /\ AtWork(b)
         /\ y.write => l \in Cloned
         /\ ~conf.deep => /\ y.write => pos[b] = "params" /\ l = "params"
                          /\ l = "params" => pos[b] \in {"params", "build", "spawn"}
  BY <1>1 DEF TouchIsFine
<1>4. k = l /\ req[a][k] = req[b][k]
  <2>1. <<k, req[a][k]>> = <<l, req[b][l]>>
    BY <1>2, <1>3
  <2>2. k = l /\ req[a][k] = req[b][l]
    BY <2>1
  <2> QED
    BY <2>2
<1>5. CASE conf.deep
  BY <1>2, <1>3, <1>4, <1>5, ObjectsApart
<1>6. CASE ~conf.deep
  <2>1. /\ pos[a] \in {"params", "build", "spawn"} /\ pos[b] \in {"params", "build", "spawn"}
        /\ pos[a] = "params" \/ pos[b] = "params"
    BY <1>2, <1>3, <1>4, <1>6
  <2>2. ASSUME NEW z \in Actors, pos[z] = "params"
        PROVE  z = Merger
    <3> SUFFICES ASSUME z # Merger PROVE FALSE
      OBVIOUS
    <3>1. PICK p \in Parts, c \in 0 .. MaxCalls : z = <<p, c>>
      BY ActorFacts
    <3>2. c = 0 \/ c \in Calls
      BY ActorFacts DEF Calls
    <3> QED
      BY <2>2, <3>1, <3>2 DEF SharingIInv, PartsInv
  <2>3. ASSUME NEW z \in Actors, z # Merger, pos[Merger] = "params"
        PROVE  pos[z] \notin {"build", "spawn"}
    <3>1. PICK p \in Parts, c \in 0 .. MaxCalls : z = <<p, c>>
      BY <2>3, ActorFacts
    <3>2. CASE c \in Calls
      BY <3>1, <3>2 DEF SharingIInv, PartsInv
    <3>3. CASE c = 0
      <4>1. p \in Nat /\ next[Merger] \in Nat /\ conf.sequential
        BY <2>3, ActorFacts DEF SharingIInv, SharingTypeOK, MergerInv
      <4>2. pos[<<p, 0>>] \in {"off", "ok", "failed"}
        BY <2>3, <4>1 DEF SharingIInv, MergerInv
      <4> QED
        BY <3>1, <3>3, <4>2
    <3>4. c = 0 \/ c \in Calls
      BY ActorFacts DEF Calls
    <3> QED
      BY <3>2, <3>3, <3>4
  <2> QED
    BY <2>1, <2>2, <2>3
<1> QED
  BY <1>5, <1>6

(***************************************************************************)
(* The requests of actors are always well formed.                          *)
(***************************************************************************)
THEOREM SharingTypeCorrect == SharingSpec => []SharingTypeOK
<1>1. SharingIInv => SharingTypeOK
  BY DEF SharingIInv
<1> QED
  BY <1>1, SharingInvariance, PTL

(***************************************************************************)
(* For any number of backends and concurrent calls: a cloned request is    *)
(* free of races, every call carries the whole body, and no URL holds the  *)
(* operation of another backend, under the conditions that RequestsAreApart*)
(* names (merging.go:60, request.go:48-95, balancing.go:102).              *)
(***************************************************************************)
THEOREM SharingApart == SharingSpec => []RequestsAreApart
<1>1. SharingIInv => RequestsAreApart
  <2> SUFFICES ASSUME SharingIInv PROVE RequestsAreApart
    OBVIOUS
  <2>1. CloningIsEnough
    BY CloningSuffices DEF CloningIsEnough, Cloning
  <2>2. BodiesAreWhole /\ UrlsDoNotMix
    BY DEF SharingIInv
  <2> QED
    BY <2>1, <2>2 DEF RequestsAreApart
<1> QED
  BY <1>1, SharingInvariance, PTL

-----------------------------------------------------------------------------
(* From a client's request to the proxy's (RequestBuilder)                 *)

\* The headers of the client's request as they came.
FromClient == [h \in forwarded.headers |-> "client"]
Passed == [h \in Asked(headersToSend, forwarded.headers) |-> "client"]
ParamsOf(names) == {f \in [{Key(n) : n \in names} -> names] :
                        \A k \in DOMAIN f : Key(f[k]) = k}

\* The elements of a list before an index.
UpTo(list, i) == {list[j] : j \in 1 .. i - 1}

InputsInv ==
    /\ extractor \in Extractors
    /\ toPass \in Seq(Headers \cup {Asterisk}) /\ Len(toPass) <= MaxList
    /\ queryString \in Seq(Queries \cup {Asterisk}) /\ Len(queryString) <= MaxList
    /\ path \subseteq Params
    /\ forwarded \in [headers : SUBSET Headers, queries : SUBSET Queries]
    /\ builderPc \in {"params", "headers", "forwarded", "query", "built"}
    /\ index \in Nat \ {0}
    /\ builderPc \in {"params", "forwarded"} => index = 1
    /\ builderPc = "headers" => index <= Len(headersToSend) + 1
    /\ builderPc \in {"query", "built"} => index <= Len(queryString) + 1

\* While the list is read the headers are what it has let through so far, and
\* it has had no asterisk.
HeadersInv ==
    /\ builderPc \in {"params", "headers"} => client = FromClient /\ shared = FALSE
    /\ builderPc = "params" => headers = <<>>
    /\ builderPc = "headers" =>
          /\ Asterisk \notin UpTo(headersToSend, index)
          /\ headers = [h \in UpTo(headersToSend, index) \cap forwarded.headers |-> "client"]
    /\ builderPc = "forwarded" => headers = Passed /\ client = FromClient
    /\ builderPc \in {"query", "built"} => headers = Forwarded(Passed)
    /\ shared => Asterisk \in ToSet(toPass)
    /\ shared \in BOOLEAN
    /\ client = FromClient \/ (shared /\ client = headers)

QueriesInv ==
    /\ builderPc \in {"params", "headers", "forwarded"} => query = {}
    /\ builderPc = "query" =>
          /\ Asterisk \notin UpTo(queryString, index)
          /\ query = UpTo(queryString, index) \cap forwarded.queries
    /\ builderPc = "built" => query = Asked(queryString, forwarded.queries)

ParamsInv ==
    /\ builderPc = "params" => params = <<>>
    /\ builderPc # "params" =>
           params \in ParamsOf(IF extractor = "noop" THEN {} ELSE path)

BuilderIInv == InputsInv /\ HeadersInv /\ QueriesInv /\ ParamsInv

\* A list of an endpoint is a sequence of names and asterisks.
LEMMA ListsAreSequences ==
    ASSUME NEW S, NEW l \in Lists(S)
    PROVE  l \in Seq(S \cup {Asterisk}) /\ Len(l) <= MaxList
<1>1. PICK n \in 0 .. MaxList : l \in [1 .. n -> S \cup {Asterisk}]
  BY DEF Lists
<1>2. n \in Nat /\ n <= MaxList
  BY MaxListAssumption
<1> QED
  BY <1>1, <1>2

\* What of a list is behind one more index, and behind all of them.
LEMMA UpToGrows ==
    ASSUME NEW T, NEW l \in Seq(T), NEW i \in Nat \ {0}, i <= Len(l)
    PROVE  UpTo(l, i + 1) = UpTo(l, i) \cup {l[i]}
<1>1. (i + 1) - 1 = i /\ i \in 1 .. i /\ i - 1 \in Nat
  OBVIOUS
<1>2. UpTo(l, i + 1) \subseteq UpTo(l, i) \cup {l[i]}
  <2> SUFFICES ASSUME NEW j \in 1 .. i, j # i PROVE l[j] \in UpTo(l, i)
    BY <1>1 DEF UpTo
  <2> QED
    BY DEF UpTo
<1>3. UpTo(l, i) \cup {l[i]} \subseteq UpTo(l, i + 1)
  <2>1. \A j \in 1 .. i - 1 : j \in 1 .. i
    OBVIOUS
  <2> QED
    BY <1>1, <2>1 DEF UpTo
<1> QED
  BY <1>2, <1>3

\* The entries before the end of a list are all of them, those before the first
\* none.
LEMMA UpToEnds ==
    ASSUME NEW T, NEW l \in Seq(T)
    PROVE  /\ UpTo(l, Len(l) + 1) = ToSet(l)
           /\ UpTo(l, 1) = {}
           /\ \A i \in 1 .. Len(l) : l[i] \in ToSet(l)
<1>1. DOMAIN l = 1 .. Len(l) /\ Len(l) \in Nat /\ (Len(l) + 1) - 1 = Len(l)
  OBVIOUS
<1>2. 1 .. 1 - 1 = {}
  OBVIOUS
<1> QED
  BY <1>1, <1>2 DEF UpTo, ToSet

\* The invariant of the request builders (router/*/endpoint.go).
THEOREM BuilderInvariance == BuilderSpec => []BuilderIInv
<1>1. BuilderInit => BuilderIInv
  <2> SUFFICES ASSUME BuilderInit PROVE BuilderIInv
    OBVIOUS
  <2>1. InputsInv
    BY ListsAreSequences DEF BuilderInit, InputsInv
  <2>2. HeadersInv
    BY DEF BuilderInit, HeadersInv, FromClient
  <2>3. QueriesInv
    BY DEF BuilderInit, QueriesInv
  <2>4. ParamsInv
    BY DEF BuilderInit, ParamsInv
  <2> QED
    BY <2>1, <2>2, <2>3, <2>4 DEF BuilderIInv
<1>2. BuilderIInv /\ [BuilderNext]_builderVars => BuilderIInv'
  <2> SUFFICES ASSUME BuilderIInv, [BuilderNext]_builderVars PROVE BuilderIInv'
    OBVIOUS
  <2>0. headersToSend \in Seq(Headers \cup {Asterisk, "Content-Type"})
        /\ (Asterisk \in ToSet(headersToSend) => Asterisk \in ToSet(toPass))
        /\ Len(headersToSend) \in Nat /\ Len(queryString) \in Nat
    <3>1. CASE toPass = <<>>
      <4>1. headersToSend = <<"Content-Type">>
        BY <3>1 DEF headersToSend, DefaultHeaders
      <4>2. ToSet(headersToSend) = {"Content-Type"}
        BY <4>1 DEF ToSet
      <4> QED
        BY <4>1, <4>2 DEF Asterisk, BuilderIInv, InputsInv
    <3>2. CASE toPass # <<>>
      <4>1. headersToSend = toPass
        BY <3>2 DEF headersToSend
      <4> QED
        BY <4>1 DEF BuilderIInv, InputsInv
    <3> QED
      BY <3>1, <3>2
  <2>1. CASE ExtractParams
    <3>1. /\ builderPc = "params" /\ builderPc' = "headers"
          /\ UNCHANGED <<index, client, headers, query, shared>>
          /\ UNCHANGED <<extractor, toPass, queryString, path, forwarded>>
      BY <2>1 DEF ExtractParams, BuilderFixed
    <3>2. params' \in ParamsOf(IF extractor = "noop" THEN {} ELSE path)
      BY <2>1 DEF ExtractParams, ParamsOf
    <3>3. InputsInv'
      BY <2>0, <3>1 DEF BuilderIInv, InputsInv, headersToSend
    <3>4. HeadersInv'
      <4>1. headersToSend' = headersToSend
        BY <3>1 DEF headersToSend
      <4>2. index = 1 /\ UpTo(headersToSend, 1) = {}
        BY <2>0, <3>1, UpToEnds DEF BuilderIInv, InputsInv
      <4>3. headers = <<>> /\ client = FromClient /\ shared = FALSE
        BY <3>1 DEF BuilderIInv, HeadersInv
      <4>4. headers = [h \in {} |-> "client"]
        BY <4>3
      <4>5. UpTo(headersToSend', index') = {}
        BY <3>1, <4>1, <4>2
      <4>6. FromClient' = FromClient
        BY <3>1 DEF FromClient
      <4>7. headers' = [h \in UpTo(headersToSend', index') \cap forwarded.headers' |-> "client"]
        BY <3>1, <4>4, <4>5
      <4> QED
        BY <3>1, <4>3, <4>5, <4>6, <4>7 DEF HeadersInv
    <3>5. QueriesInv'
      BY <3>1 DEF BuilderIInv, QueriesInv
    <3>6. ParamsInv'
      BY <3>1, <3>2 DEF ParamsInv, ParamsOf, Key
    <3> QED
      BY <3>3, <3>4, <3>5, <3>6 DEF BuilderIInv
  <2>2. CASE PassHeader
    <3>1. /\ builderPc = "headers" /\ index <= Len(headersToSend)
          /\ UNCHANGED <<client, params, query>>
          /\ UNCHANGED <<extractor, toPass, queryString, path, forwarded>>
      BY <2>2 DEF PassHeader, BuilderFixed
    <3>2. /\ client = FromClient /\ shared = FALSE /\ index \in Nat \ {0}
          /\ Asterisk \notin UpTo(headersToSend, index)
          /\ headers = [h \in UpTo(headersToSend, index) \cap forwarded.headers |-> "client"]
      BY <3>1 DEF BuilderIInv, InputsInv, HeadersInv
    <3>3. headersToSend' = headersToSend /\ FromClient' = FromClient /\ Passed' = Passed
      BY <3>1 DEF headersToSend, FromClient, Passed
    <3>4. headersToSend[index] \in ToSet(headersToSend)
      BY <2>0, <3>1, <3>2, UpToEnds
    <3>5. CASE headersToSend[index] = Asterisk
      <4>1. headers' = client /\ shared' = TRUE /\ builderPc' = "forwarded" /\ index' = 1
        BY <2>2, <3>5 DEF PassHeader
      <4>2. Asterisk \in ToSet(headersToSend) /\ Asterisk \in ToSet(toPass)
        BY <2>0, <3>4, <3>5
      <4>3. Passed = FromClient
        BY <4>2 DEF Passed, FromClient, Asked
      <4>4. InputsInv'
        BY <3>1, <3>3, <4>1 DEF BuilderIInv, InputsInv
      <4>5. HeadersInv'
        BY <3>1, <3>2, <3>3, <4>1, <4>2, <4>3 DEF HeadersInv
      <4>6. QueriesInv' /\ ParamsInv'
        BY <3>1, <4>1 DEF BuilderIInv, QueriesInv, ParamsInv, ParamsOf, Key
      <4> QED
        BY <4>4, <4>5, <4>6 DEF BuilderIInv
    <3>6. CASE headersToSend[index] # Asterisk
      <4>1. /\ index' = index + 1 /\ builderPc' = builderPc /\ shared' = shared
            /\ headers' = IF headersToSend[index] \in DOMAIN client
                          THEN [h \in DOMAIN headers \cup {headersToSend[index]} |->
                                    IF h = headersToSend[index] THEN client[headersToSend[index]]
                                    ELSE headers[h]]
                          ELSE headers
        BY <2>2, <3>6 DEF PassHeader
      <4>2. UpTo(headersToSend, index + 1) = UpTo(headersToSend, index) \cup {headersToSend[index]}
        BY <2>0, <3>1, <3>2, UpToGrows
      <4>3. headers' = [h \in UpTo(headersToSend, index + 1) \cap forwarded.headers |-> "client"]
        <5>1. DOMAIN client = forwarded.headers
              /\ \A h \in forwarded.headers : client[h] = "client"
          BY <3>2 DEF FromClient
        <5>2. CASE headersToSend[index] \in forwarded.headers
          BY <3>2, <4>1, <4>2, <5>1, <5>2
        <5>3. CASE headersToSend[index] \notin forwarded.headers
          BY <3>2, <4>1, <4>2, <5>1, <5>3
        <5> QED
          BY <5>2, <5>3
      <4>4. InputsInv'
        BY <2>0, <3>1, <3>2, <3>3, <4>1 DEF BuilderIInv, InputsInv
      <4>5. HeadersInv'
        BY <3>1, <3>2, <3>3, <3>6, <4>1, <4>2, <4>3 DEF HeadersInv
      <4>6. QueriesInv' /\ ParamsInv'
        BY <3>1, <4>1 DEF BuilderIInv, QueriesInv, ParamsInv, ParamsOf, Key
      <4> QED
        BY <4>4, <4>5, <4>6 DEF BuilderIInv
    <3> QED
      BY <3>5, <3>6
  <2>3. CASE HeadersEnd
    <3>1. /\ builderPc = "headers" /\ index > Len(headersToSend)
          /\ builderPc' = "forwarded" /\ index' = 1
          /\ UNCHANGED <<client, params, headers, query, shared>>
          /\ UNCHANGED <<extractor, toPass, queryString, path, forwarded>>
      BY <2>3 DEF HeadersEnd, BuilderFixed
    <3>2. /\ client = FromClient /\ shared = FALSE
          /\ Asterisk \notin UpTo(headersToSend, index)
          /\ headers = [h \in UpTo(headersToSend, index) \cap forwarded.headers |-> "client"]
          /\ index = Len(headersToSend) + 1
      BY <2>0, <3>1 DEF BuilderIInv, InputsInv, HeadersInv
    <3>3. UpTo(headersToSend, index) = ToSet(headersToSend)
      BY <2>0, <3>2, UpToEnds
    <3>4. headers = Passed
      BY <3>2, <3>3 DEF Passed, Asked
    <3>5. headersToSend' = headersToSend /\ FromClient' = FromClient /\ Passed' = Passed
      BY <3>1 DEF headersToSend, FromClient, Passed
    <3>6. InputsInv'
      BY <3>1, <3>5 DEF BuilderIInv, InputsInv
    <3>7. HeadersInv'
      BY <3>1, <3>2, <3>4, <3>5 DEF HeadersInv
    <3>8. QueriesInv' /\ ParamsInv'
      BY <3>1 DEF BuilderIInv, QueriesInv, ParamsInv, ParamsOf, Key
    <3> QED
      BY <3>6, <3>7, <3>8 DEF BuilderIInv
  <2>4. CASE Forward
    <3>1. /\ builderPc = "forwarded" /\ builderPc' = "query"
          /\ headers' = Forwarded(headers)
          /\ client' = IF shared THEN headers' ELSE client
          /\ UNCHANGED <<index, params, query, shared>>
          /\ UNCHANGED <<extractor, toPass, queryString, path, forwarded>>
      BY <2>4 DEF Forward, BuilderFixed
    <3>2. headers = Passed /\ client = FromClient /\ query = {} /\ index = 1
          /\ (shared => Asterisk \in ToSet(toPass)) /\ shared \in BOOLEAN
      BY <3>1 DEF BuilderIInv, InputsInv, HeadersInv, QueriesInv
    <3>3. headersToSend' = headersToSend /\ FromClient' = FromClient /\ Passed' = Passed
      BY <3>1 DEF headersToSend, FromClient, Passed
    <3>4. InputsInv'
      BY <2>0, <3>1, <3>3 DEF BuilderIInv, InputsInv
    <3>5. HeadersInv'
      BY <3>1, <3>2, <3>3 DEF HeadersInv, Forwarded
    <3>6. QueriesInv'
      <4>1. UpTo(queryString, 1) = {}
        BY UpToEnds DEF BuilderIInv, InputsInv
      <4> QED
        BY <3>1, <3>2, <4>1 DEF QueriesInv
    <3>7. ParamsInv'
      BY <3>1 DEF BuilderIInv, ParamsInv, ParamsOf, Key
    <3> QED
      BY <3>4, <3>5, <3>6, <3>7 DEF BuilderIInv
  <2>5. CASE PassQuery
    <3>1. /\ builderPc = "query" /\ index <= Len(queryString)
          /\ UNCHANGED <<client, params, headers, shared>>
          /\ UNCHANGED <<extractor, toPass, queryString, path, forwarded>>
      BY <2>5 DEF PassQuery, BuilderFixed
    <3>2. /\ index \in Nat \ {0} /\ queryString \in Seq(Queries \cup {Asterisk})
          /\ Asterisk \notin UpTo(queryString, index)
          /\ query = UpTo(queryString, index) \cap forwarded.queries
      BY <3>1 DEF BuilderIInv, InputsInv, QueriesInv
    <3>3. headersToSend' = headersToSend /\ FromClient' = FromClient /\ Passed' = Passed
      BY <3>1 DEF headersToSend, FromClient, Passed
    <3>4. builderPc' \in {"query", "built"}
      BY <2>5, <3>1 DEF PassQuery
    <3>5. HeadersInv'
      BY <3>1, <3>3, <3>4 DEF BuilderIInv, HeadersInv, Forwarded
    <3>6. ParamsInv'
      BY <3>1, <3>4 DEF BuilderIInv, ParamsInv, ParamsOf, Key
    <3>7. CASE queryString[index] = Asterisk
      <4>1. query' = forwarded.queries /\ builderPc' = "built" /\ index' = index
        BY <2>5, <3>7 DEF PassQuery
      <4>2. Asterisk \in ToSet(queryString)
        BY <3>1, <3>2, <3>7, UpToEnds
      <4>3. InputsInv'
        BY <3>1, <4>1, <3>3 DEF BuilderIInv, InputsInv
      <4>4. QueriesInv'
        BY <3>1, <4>1, <4>2 DEF QueriesInv, Asked
      <4> QED
        BY <3>5, <3>6, <4>3, <4>4 DEF BuilderIInv
    <3>8. CASE queryString[index] # Asterisk
      <4>1. /\ query' = query \cup ({queryString[index]} \cap forwarded.queries)
            /\ builderPc' = builderPc /\ index' = index + 1
        BY <2>5, <3>8 DEF PassQuery
      <4>2. UpTo(queryString, index + 1) = UpTo(queryString, index) \cup {queryString[index]}
        BY <3>1, <3>2, UpToGrows
      <4>3. InputsInv'
        BY <3>1, <4>1, <3>2, <3>3 DEF BuilderIInv, InputsInv
      <4>4. QueriesInv'
        BY <3>1, <3>2, <3>8, <4>1, <4>2 DEF QueriesInv
      <4> QED
        BY <3>5, <3>6, <4>3, <4>4 DEF BuilderIInv
    <3> QED
      BY <3>7, <3>8
  <2>6. CASE QueryEnds
    <3>1. /\ builderPc = "query" /\ index > Len(queryString) /\ builderPc' = "built"
          /\ UNCHANGED <<index, client, params, headers, query, shared>>
          /\ UNCHANGED <<extractor, toPass, queryString, path, forwarded>>
      BY <2>6 DEF QueryEnds, BuilderFixed
    <3>2. /\ queryString \in Seq(Queries \cup {Asterisk})
          /\ Asterisk \notin UpTo(queryString, index)
          /\ query = UpTo(queryString, index) \cap forwarded.queries
          /\ index = Len(queryString) + 1
      BY <2>0, <3>1 DEF BuilderIInv, InputsInv, QueriesInv
    <3>3. UpTo(queryString, index) = ToSet(queryString)
      BY <3>2, UpToEnds
    <3>4. headersToSend' = headersToSend /\ FromClient' = FromClient /\ Passed' = Passed
      BY <3>1 DEF headersToSend, FromClient, Passed
    <3>5. InputsInv'
      BY <3>1, <3>4 DEF BuilderIInv, InputsInv
    <3>6. HeadersInv'
      BY <3>1, <3>4 DEF BuilderIInv, HeadersInv, Forwarded
    <3>7. QueriesInv'
      BY <3>1, <3>2, <3>3 DEF QueriesInv, Asked
    <3>8. ParamsInv'
      BY <3>1 DEF BuilderIInv, ParamsInv, ParamsOf, Key
    <3> QED
      BY <3>5, <3>6, <3>7, <3>8 DEF BuilderIInv
  <2>7. CASE UNCHANGED builderVars
    BY <2>7 DEF builderVars, BuilderIInv, InputsInv, HeadersInv, QueriesInv, ParamsInv, ParamsOf, Key,
                headersToSend, FromClient, Passed, Forwarded
  <2> QED
    BY <2>1, <2>2, <2>3, <2>4, <2>5, <2>6, <2>7 DEF BuilderNext, BuilderFinished
<1> QED
  BY <1>1, <1>2, PTL DEF BuilderSpec

(***************************************************************************)
(* The proxy's request is well formed at every step.                       *)
(***************************************************************************)
THEOREM BuilderTypeCorrect == BuilderSpec => []BuilderTypeOK
<1>1. BuilderIInv => BuilderTypeOK
  <2> SUFFICES ASSUME BuilderIInv PROVE BuilderTypeOK
    OBVIOUS
  <2>1. forwarded.headers \subseteq Headers /\ Passed \in [DOMAIN Passed -> {"client"}]
        /\ DOMAIN Passed \subseteq Headers /\ DOMAIN FromClient \subseteq Headers
    BY DEF BuilderIInv, InputsInv, Passed, FromClient, Asked
  <2>2. IsHeaders(FromClient) /\ IsHeaders(Passed) /\ IsHeaders(Forwarded(Passed))
    BY <2>1 DEF IsHeaders, FromClient, Forwarded, Added
  <2>3. IsHeaders(headers)
    <3>1. IsHeaders(<<>>)
      BY DEF IsHeaders
    <3>2. IsHeaders([h \in UpTo(headersToSend, index) \cap forwarded.headers |-> "client"])
      BY <2>1 DEF IsHeaders
    <3> QED
      BY <2>2, <3>1, <3>2 DEF BuilderIInv, InputsInv, HeadersInv
  <2>4. IsHeaders(client)
    BY <2>2, <2>3 DEF BuilderIInv, HeadersInv
  <2>5. \A p \in DOMAIN params : params[p] \in path
    BY DEF BuilderIInv, ParamsInv, ParamsOf
  <2>6. query \subseteq forwarded.queries
    BY DEF BuilderIInv, InputsInv, QueriesInv, Asked
  <2>7. index \in 1 .. MaxList + 1
    <3>1. Len(headersToSend) <= MaxList /\ Len(headersToSend) \in Nat
      BY MaxListAssumption DEF headersToSend, DefaultHeaders, BuilderIInv, InputsInv
    <3> QED
      BY <3>1, MaxListAssumption DEF BuilderIInv, InputsInv
  <2> QED
    BY <2>3, <2>4, <2>5, <2>6, <2>7 DEF BuilderTypeOK, BuilderIInv, InputsInv, HeadersInv
<1> QED
  BY <1>1, BuilderInvariance, PTL

(***************************************************************************)
(* For lists of any length over any names: the headers and query strings   *)
(* that go to the proxy are those of the client that the endpoint lists,   *)
(* with the router's own; the client's request is kept without an asterisk;*)
(* and the params have the names of the url patterns                       *)
(* (mux/endpoint.go:115-165, gin/endpoint.go:123-181).                     *)
(***************************************************************************)
THEOREM BuilderLists == BuilderSpec => []RequestIsAsListed
<1>1. BuilderIInv => RequestIsAsListed
  <2> SUFFICES ASSUME BuilderIInv PROVE RequestIsAsListed
    OBVIOUS
  <2>1. HeadersAsListed
    <3> SUFFICES ASSUME builderPc = "built" PROVE HeadersAsListed!2
      BY DEF HeadersAsListed
    <3>1. headers = Forwarded(Passed)
          /\ DOMAIN Passed = Asked(headersToSend, forwarded.headers)
          /\ \A h \in DOMAIN Passed : Passed[h] = "client"
      BY DEF BuilderIInv, HeadersInv, Passed
    <3>2. headers = [h \in DOMAIN Passed \cup Overwritten |->
                        IF h \in Overwritten THEN "router" ELSE Passed[h]]
      BY <3>1 DEF Forwarded, Overwritten
    <3> QED
      BY <3>1, <3>2
  <2>2. QueriesAsListed
    BY DEF BuilderIInv, QueriesInv, QueriesAsListed
  <2>3. ClientRequestIsKept
    BY DEF BuilderIInv, HeadersInv, ClientRequestIsKept, FromClient
  <2>4. ParamsHaveTheirKeys
    <3> SUFFICES ASSUME builderPc = "built", extractor \in {"gin", "chi"}
                 PROVE  ParamsHaveTheirKeys!2
      BY DEF ParamsHaveTheirKeys
    <3>1. params \in ParamsOf(path) /\ \A n \in path : Key(n) = Capitalised(n)
      BY DEF BuilderIInv, ParamsInv, Key
    <3>2. \A m, n \in path : Capitalised(m) = Capitalised(n) => m = n
      BY ParamsAssumption DEF BuilderIInv, InputsInv, Capitalised
    <3>3. DOMAIN params = {Capitalised(n) : n \in path}
      BY <3>1 DEF ParamsOf
    <3>4. \A k \in DOMAIN params : params[k] \in path /\ Capitalised(params[k]) = k
      BY <3>1 DEF ParamsOf
    <3> QED
      BY <3>2, <3>3, <3>4
  <2> QED
    BY <2>1, <2>2, <2>3, <2>4 DEF RequestIsAsListed
<1> QED
  BY <1>1, BuilderInvariance, PTL

-----------------------------------------------------------------------------
(* What Init makes of a configuration (ConfigInit)                         *)

\* A configuration after it was parsed.
ParsedBackends == [host : HostForms, sanitize : BOOLEAN, method : Methods,
                   encoding : Encodings, path : Seq(Placeholders),
                   keys : SUBSET Placeholders, timeout : Int, calls : Int]
ParsedEndpoints == [valid : BOOLEAN, path : Seq([name : Placeholders, slash : BOOLEAN]),
                    method : Methods, timeout : Int, calls : Int,
                    output : Encodings, backends : Seq(ParsedBackends)]
ParsedAgents == [timeout : Int, workers : Int, backends : Seq(ParsedBackends)]
ParsedServices == [version : Int, timeout : {-3, 0, 2, 3}, host : HostForms,
                   output : Encodings, strict : BOOLEAN, address : Addresses,
                   endpoints : Seq(ParsedEndpoints), agents : Seq(ParsedAgents)]

\* How far a backend is: it has what it needs to be called, as a backend of an
\* endpoint as well, and its params have a source.
IsCallable(b, timeout) ==
    /\ b.timeout = timeout /\ b.method # ""
    /\ b.host \in {"clean", "none"} \/ ~b.sanitize
IsDefaulted(b, e) ==
    /\ IsCallable(b, e.timeout) /\ b.calls = e.calls
    /\ e.output = "no-op" => b.encoding = "no-op"
InputsOf(e, strict) == {p.name : p \in {q \in Range(e.path) : strict => q.slash}}
IsMapped(b, e, strict) ==
    b.keys = Range(b.path) /\ b.keys \subseteq InputsOf(e, strict) \cup Sequential

\* An endpoint, and its backends below an index.
HasDefaults(e) ==
    /\ e.timeout # 0 /\ e.calls # 0 /\ e.method # ""
    /\ e.output = "no-op" => Len(e.backends) = 1
AreReady(e, n, strict) ==
    \A k \in 1 .. Len(e.backends) : k < n =>
        IsDefaulted(e.backends[k], e) /\ IsMapped(e.backends[k], e, strict)
IsReady(e, strict) == HasDefaults(e) /\ AreReady(e, Len(e.backends) + 1, strict)

AgentIsReady(a) ==
    /\ a.workers > 0 /\ a.timeout # 0
    /\ \A k \in 1 .. Len(a.backends) : IsCallable(a.backends[k], a.timeout)

Current == cfg.endpoints[endpointIndex]

StepInv ==
    /\ configPc \in {"normalize", "global", "agents", "endpoint", "backend", "mappings",
                     "next", "ready", "failed"}
    /\ error \in Errors /\ (error # "none" <=> configPc = "failed")
    /\ endpointIndex \in Nat /\ backendIndex \in Nat
    /\ configPc \in {"normalize", "global", "agents"} => endpointIndex = 1 /\ backendIndex = 1

ServiceInv ==
    /\ configPc = "normalize" => cfg \in Configs
    /\ configPc # "normalize" => cfg \in ParsedServices
    /\ configPc \notin {"normalize", "global", "failed"} =>
           cfg.timeout # 0 /\ cfg.host \in {"clean", "none"}
    /\ configPc \in {"endpoint", "backend", "mappings", "next", "ready"} =>
           \A k \in 1 .. Len(cfg.agents) : AgentIsReady(cfg.agents[k])

\* The loops over the endpoints and over the backends of the current one.
LoopInv ==
    /\ configPc \in {"endpoint", "backend", "mappings", "next"} =>
           /\ endpointIndex \in 1 .. Len(cfg.endpoints)
           /\ \A k \in 1 .. Len(cfg.endpoints) :
                 k < endpointIndex => IsReady(cfg.endpoints[k], cfg.strict)
    /\ configPc \in {"backend", "mappings", "next"} =>
           /\ HasDefaults(Current)
           /\ backendIndex \in 1 .. Len(Current.backends)
           /\ AreReady(Current, backendIndex, cfg.strict)
    /\ configPc \in {"mappings", "next"} =>
           IsDefaulted(Current.backends[backendIndex], Current)
    /\ configPc = "next" =>
           IsMapped(Current.backends[backendIndex], Current, cfg.strict)
    /\ configPc = "ready" =>
           \A k \in 1 .. Len(cfg.endpoints) : IsReady(cfg.endpoints[k], cfg.strict)

ConfigIInv == StepInv /\ ServiceInv /\ LoopInv /\ RefusedForAParam

\* The inputs that are collected are the params of the path.
LEMMA InputsAreThose == \A e : InputSet(e) = InputsOf(e, cfg.strict)
BY DEF InputSet, InputsOf

\* A file before Init has looked at it.
LEMMA ConfigInitially == ConfigInit => ConfigIInv
BY DEF ConfigInit, ConfigIInv, StepInv, ServiceInv, LoopInv, RefusedForAParam, Errors

\* What is parsed of a list of backends is a list of the same length.
LEMMA ParsedBackendsAre ==
    ASSUME NEW bs \in Seq(WrittenBackends)
    PROVE  /\ NormalBackends(bs) \in Seq(ParsedBackends)
           /\ Len(NormalBackends(bs)) = Len(bs)
<1>1. \A b \in WrittenBackends : NormalBackend(b) \in ParsedBackends
  BY DEF WrittenBackends, NormalBackend, ParsedBackends
<1>2. \A k \in 1 .. Len(bs) : bs[k] \in WrittenBackends
  OBVIOUS
<1>3. NormalBackends(bs) = [k \in 1 .. Len(bs) |-> NormalBackend(bs[k])]
  BY DEF NormalBackends
<1>4. [k \in 1 .. Len(bs) |-> NormalBackend(bs[k])] \in [1 .. Len(bs) -> ParsedBackends]
  BY <1>1, <1>2
<1>5. Len(bs) \in Nat
  OBVIOUS
<1> QED
  BY <1>3, <1>4, <1>5

\* normalize (parser.go).
LEMMA NormalizeIInv ==
    ASSUME ConfigIInv, NormalizeConfig
    PROVE  ConfigIInv'
<1>1. /\ cfg \in Configs /\ configPc' = "global" /\ error' = error
      /\ UNCHANGED <<endpointIndex, backendIndex>> /\ configPc = "normalize"
  BY DEF ConfigIInv, ServiceInv, NormalizeConfig, Go
<1> DEFINE endpoints == [k \in DOMAIN cfg.endpoints |-> Normal(cfg.endpoints[k])]
           agents == [k \in DOMAIN cfg.agents |-> Normal(cfg.agents[k])]
<1>2. /\ cfg.version \in Int /\ cfg.timeout \in Durations /\ cfg.host \in HostForms
      /\ cfg.output \in Encodings /\ cfg.strict \in BOOLEAN /\ cfg.address \in Addresses
      /\ cfg.endpoints \in Seq(WrittenEndpoints) /\ cfg.agents \in Seq(WrittenAgents)
  BY <1>1, FilesAssumption
<1>3. cfg' = [version |-> cfg.version, timeout |-> parseDuration(cfg.timeout),
              host |-> cfg.host, output |-> cfg.output, strict |-> cfg.strict, address |-> cfg.address,
              endpoints |-> endpoints, agents |-> agents]
  <2>1. cfg' = [cfg EXCEPT !.timeout = parseDuration(@), !.endpoints = endpoints, !.agents = agents]
    BY <1>1 DEF NormalizeConfig
  <2> HIDE DEF endpoints, agents
  <2> QED
    BY <1>1, <2>1, FilesAssumption
<1>4. endpoints \in Seq(ParsedEndpoints)
  <2>1. \A e \in WrittenEndpoints : Normal(e) \in ParsedEndpoints
    <3> SUFFICES ASSUME NEW e \in WrittenEndpoints PROVE Normal(e) \in ParsedEndpoints
      OBVIOUS
    <3>1. e.backends \in Seq(WrittenBackends) /\ parseDuration(e.timeout) \in Int
      BY DEF WrittenEndpoints, parseDuration
    <3>2. NormalBackends(e.backends) \in Seq(ParsedBackends)
      BY <3>1, ParsedBackendsAre
    <3> QED
      BY <3>1, <3>2 DEF Normal, WrittenEndpoints, ParsedEndpoints
  <2>2. endpoints \in [1 .. Len(cfg.endpoints) -> ParsedEndpoints] /\ Len(cfg.endpoints) \in Nat
    BY <1>2, <2>1
  <2> QED
    BY <2>2
<1>5. agents \in Seq(ParsedAgents)
  <2>1. \A e \in WrittenAgents : Normal(e) \in ParsedAgents
    <3> SUFFICES ASSUME NEW e \in WrittenAgents PROVE Normal(e) \in ParsedAgents
      OBVIOUS
    <3>1. e.backends \in Seq(WrittenBackends) /\ parseDuration(e.timeout) \in Int
      BY DEF WrittenAgents, parseDuration
    <3>2. NormalBackends(e.backends) \in Seq(ParsedBackends)
      BY <3>1, ParsedBackendsAre
    <3> QED
      BY <3>1, <3>2 DEF Normal, WrittenAgents, ParsedAgents
  <2>2. agents \in [1 .. Len(cfg.agents) -> ParsedAgents] /\ Len(cfg.agents) \in Nat
    BY <1>2, <2>1
  <2> QED
    BY <2>2
<1>6. parseDuration(cfg.timeout) \in {-3, 0, 2, 3}
  BY DEF parseDuration
<1> HIDE DEF endpoints, agents
<1>7. cfg' \in ParsedServices
  BY <1>2, <1>3, <1>4, <1>5, <1>6 DEF ParsedServices
<1> QED
  BY <1>1, <1>7 DEF ConfigIInv, StepInv, ServiceInv, LoopInv, RefusedForAParam

\* The fields of a configuration that was parsed.
LEMMA ParsedFields ==
    ASSUME cfg \in ParsedServices
    PROVE  /\ cfg.version \in Int /\ cfg.timeout \in {-3, 0, 2, 3} /\ cfg.host \in HostForms
           /\ cfg.output \in Encodings /\ cfg.strict \in BOOLEAN /\ cfg.address \in Addresses
           /\ cfg.endpoints \in Seq(ParsedEndpoints) /\ cfg.agents \in Seq(ParsedAgents)
           /\ Len(cfg.endpoints) \in Nat /\ Len(cfg.agents) \in Nat
BY DEF ParsedServices

\* initGlobalParams: from here on there is a timeout (config.go).
LEMMA GlobalIInv ==
    ASSUME ConfigIInv, InitGlobalParams
    PROVE  ConfigIInv'
<1>1. /\ configPc = "global" /\ cfg \in ParsedServices /\ error = "none"
      /\ UNCHANGED <<endpointIndex, backendIndex>> /\ endpointIndex \in Nat
      /\ backendIndex \in Nat /\ endpointIndex = 1 /\ backendIndex = 1
  BY DEF ConfigIInv, StepInv, ServiceInv, InitGlobalParams
<1>2. CASE \E r \in {"version", "address", "host"} : Fail(r) /\ UNCHANGED cfg
  BY <1>1, <1>2 DEF Fail, ConfigIInv, StepInv, ServiceInv, LoopInv, RefusedForAParam, Errors
<1>3. CASE /\ cfg.host # "bad" /\ Go("agents")
           /\ cfg' = [cfg EXCEPT !.timeout = DefaultTimeout(@), !.host = Clean(@)]
  <2>1. cfg' = [version |-> cfg.version, timeout |-> DefaultTimeout(cfg.timeout),
                host |-> Clean(cfg.host), output |-> cfg.output, strict |-> cfg.strict, address |-> cfg.address,
                endpoints |-> cfg.endpoints, agents |-> cfg.agents]
    BY <1>1, <1>3 DEF ParsedServices
  <2>2. /\ DefaultTimeout(cfg.timeout) \in {-3, 0, 2, 3} /\ DefaultTimeout(cfg.timeout) # 0
        /\ Clean(cfg.host) \in HostForms /\ Clean(cfg.host) \in {"clean", "none"}
    BY <1>1, <1>3, ParsedFields DEF DefaultTimeout, Clean, HostForms
  <2>3. cfg' \in ParsedServices /\ cfg'.timeout # 0 /\ cfg'.host \in {"clean", "none"}
    BY <1>1, <2>1, <2>2, ParsedFields DEF ParsedServices
  <2> QED
    BY <1>1, <1>3, <2>3 DEF Go, ConfigIInv, StepInv, ServiceInv, LoopInv, RefusedForAParam
<1> QED
  BY <1>2, <1>3 DEF InitGlobalParams

\* What BackendHost leaves of a host that Init lets through.
LEMMA HostIsKnown ==
    ASSUME NEW b \in ParsedBackends, ~BadHost(b), cfg.host \in {"clean", "none"}
    PROVE  /\ BackendHost(b) \in HostForms
           /\ BackendHost(b) \in {"clean", "none"} \/ ~b.sanitize
BY DEF ParsedBackends, BadHost, BackendHost, Clean, HostForms

\* initAsyncAgents leaves an agent whose backends have timeouts and hosts.
LEMMA AgentsBecomeReady ==
    ASSUME NEW a \in ParsedAgents, cfg \in ParsedServices,
           cfg.host \in {"clean", "none"}, cfg.timeout # 0,
           \A k \in DOMAIN a.backends : ~BadHost(a.backends[k])
    PROVE  ReadyAgent(a) \in ParsedAgents /\ AgentIsReady(ReadyAgent(a))
<1> DEFINE t == Given(a.timeout, 0, cfg.timeout)
           backends == [k \in DOMAIN a.backends |-> AgentBackend(a.backends[k], t)]
<1>1. /\ a.timeout \in Int /\ a.workers \in Int /\ a.backends \in Seq(ParsedBackends)
      /\ Len(a.backends) \in Nat /\ DOMAIN a.backends = 1 .. Len(a.backends)
  BY DEF ParsedAgents
<1>2. t \in Int /\ t # 0
  BY <1>1, ParsedFields DEF Given
<1> HIDE DEF t
<1>3. ASSUME NEW b \in ParsedBackends, ~BadHost(b)
      PROVE  AgentBackend(b, t) \in ParsedBackends /\ IsCallable(AgentBackend(b, t), t)
  <2>1. /\ BackendHost(b) \in HostForms
        /\ BackendHost(b) \in {"clean", "none"} \/ ~b.sanitize
    BY <1>3, HostIsKnown
  <2>2. PICK c : c = AgentBackend(b, t)
    OBVIOUS
  <2>4. c = [host |-> BackendHost(b), sanitize |-> b.sanitize,
             method |-> Given(b.method, "", "GET"),
             encoding |-> b.encoding, path |-> b.path, keys |-> b.keys,
             timeout |-> t, calls |-> b.calls]
    BY <2>2 DEF ParsedBackends, AgentBackend
  <2>3. Given(b.method, "", "GET") \in Methods \ {""}
    BY NamesAssumption DEF ParsedBackends, Given
  <2>5. c \in ParsedBackends
    BY <1>2, <2>1, <2>3, <2>4 DEF ParsedBackends
  <2>6. /\ c.timeout = t /\ c.method = Given(b.method, "", "GET") /\ c.host = BackendHost(b)
        /\ c.sanitize = b.sanitize
    BY <2>4
  <2>7. IsCallable(c, t)
    BY <2>1, <2>3, <2>6 DEF IsCallable
  <2> QED
    BY <2>2, <2>5, <2>7
<1>4. \A k \in 1 .. Len(a.backends) : a.backends[k] \in ParsedBackends
  BY <1>1
<1>5. backends \in [1 .. Len(a.backends) -> ParsedBackends]
  BY <1>1, <1>3, <1>4
<1>6. backends \in Seq(ParsedBackends) /\ Len(backends) = Len(a.backends)
  BY <1>1, <1>5
<1>7. \A k \in 1 .. Len(backends) : IsCallable(backends[k], t)
  BY <1>1, <1>3, <1>4, <1>6
<1>8. PICK c : c = ReadyAgent(a)
  OBVIOUS
<1>9. c = [timeout |-> t, workers |-> IF a.workers < 1 THEN 1 ELSE a.workers,
           backends |-> backends]
  BY <1>8 DEF ReadyAgent, ParsedAgents, t
<1> HIDE DEF backends
<1> QED
  BY <1>1, <1>2, <1>6, <1>7, <1>8, <1>9 DEF ParsedAgents, AgentIsReady

\* initAsyncAgents stops at a bad host, or makes all agents ready.
LEMMA AgentsStepIInv ==
    ASSUME ConfigIInv, InitAsyncAgents
    PROVE  ConfigIInv'
<1>1. /\ configPc = "agents" /\ cfg \in ParsedServices /\ error = "none"
      /\ UNCHANGED <<endpointIndex, backendIndex>> /\ endpointIndex \in Nat
      /\ backendIndex \in Nat /\ endpointIndex = 1 /\ backendIndex = 1
      /\ cfg.timeout # 0 /\ cfg.host \in {"clean", "none"}
  BY DEF ConfigIInv, StepInv, ServiceInv, InitAsyncAgents
<1>2. CASE Fail("host") /\ UNCHANGED cfg
  BY <1>1, <1>2 DEF Fail, ConfigIInv, StepInv, ServiceInv, LoopInv, RefusedForAParam, Errors
<1>3. CASE /\ \A a \in DOMAIN cfg.agents : \A b \in DOMAIN cfg.agents[a].backends :
                 ~BadHost(cfg.agents[a].backends[b])
           /\ cfg' = [cfg EXCEPT !.agents = [k \in DOMAIN @ |-> ReadyAgent(@[k])]]
           /\ Go(IF cfg.endpoints = <<>> THEN "ready" ELSE "endpoint")
  <2> DEFINE agents == [k \in DOMAIN cfg.agents |-> ReadyAgent(cfg.agents[k])]
  <2>1. cfg' = [version |-> cfg.version, timeout |-> cfg.timeout,
                host |-> cfg.host, output |-> cfg.output, strict |-> cfg.strict, address |-> cfg.address,
                endpoints |-> cfg.endpoints, agents |-> agents]
    BY <1>1, <1>3 DEF ParsedServices
  <2>2. DOMAIN cfg.agents = 1 .. Len(cfg.agents) /\ Len(cfg.agents) \in Nat
        /\ \A k \in 1 .. Len(cfg.agents) : cfg.agents[k] \in ParsedAgents
    BY <1>1, ParsedFields
  <2>3. \A k \in 1 .. Len(cfg.agents) :
            ReadyAgent(cfg.agents[k]) \in ParsedAgents /\ AgentIsReady(ReadyAgent(cfg.agents[k]))
    BY <1>1, <1>3, <2>2, AgentsBecomeReady
  <2>4. agents \in [1 .. Len(cfg.agents) -> ParsedAgents]
    BY <2>2, <2>3
  <2>5. agents \in Seq(ParsedAgents) /\ Len(agents) = Len(cfg.agents)
    BY <2>2, <2>4
  <2>6. \A k \in 1 .. Len(agents) : AgentIsReady(agents[k])
    BY <2>2, <2>3, <2>5
  <2> HIDE DEF agents
  <2>7. cfg' \in ParsedServices
    BY <1>1, <2>1, <2>5, ParsedFields DEF ParsedServices
  <2>8. /\ cfg'.timeout = cfg.timeout /\ cfg'.host = cfg.host /\ cfg'.agents = agents
        /\ cfg'.endpoints = cfg.endpoints
    BY <2>1
  <2>9. CASE cfg.endpoints = <<>>
    <3>1. configPc' = "ready" /\ error' = "none" /\ Len(cfg'.endpoints) = 0
      BY <1>1, <1>3, <2>8, <2>9 DEF Go
    <3> QED
      BY <1>1, <2>6, <2>7, <2>8, <3>1
         DEF ConfigIInv, StepInv, ServiceInv, LoopInv, RefusedForAParam
  <2>10. CASE cfg.endpoints # <<>>
    <3>1. /\ configPc' = "endpoint" /\ error' = "none"
          /\ endpointIndex' = 1 /\ 1 \in 1 .. Len(cfg'.endpoints)
      BY <1>1, <1>3, <2>8, <2>10, ParsedFields DEF Go
    <3> QED
      BY <1>1, <2>6, <2>7, <2>8, <3>1
         DEF ConfigIInv, StepInv, ServiceInv, LoopInv, RefusedForAParam
  <2> QED
    BY <2>9, <2>10
<1> QED
  BY <1>2, <1>3 DEF InitAsyncAgents

\* One endpoint is given another value.
LEMMA EndpointReplaced ==
    ASSUME cfg \in ParsedServices, NEW i \in 1 .. Len(cfg.endpoints), NEW x \in ParsedEndpoints,
           cfg' = [cfg EXCEPT !.endpoints[i] = x]
    PROVE  /\ cfg' \in ParsedServices
           /\ cfg'.timeout = cfg.timeout /\ cfg'.host = cfg.host
           /\ cfg'.strict = cfg.strict /\ cfg'.agents = cfg.agents
           /\ Len(cfg'.endpoints) = Len(cfg.endpoints) /\ cfg'.endpoints[i] = x
           /\ \A k \in 1 .. Len(cfg.endpoints) : k # i => cfg'.endpoints[k] = cfg.endpoints[k]
<1> DEFINE endpoints == [cfg.endpoints EXCEPT ![i] = x]
<1>1. cfg' = [cfg EXCEPT !.endpoints = endpoints]
  BY DEF ParsedServices
<1>2. endpoints \in Seq(ParsedEndpoints) /\ Len(endpoints) = Len(cfg.endpoints)
      /\ endpoints[i] = x
      /\ \A k \in 1 .. Len(cfg.endpoints) : k # i => endpoints[k] = cfg.endpoints[k]
  BY ParsedFields
<1> HIDE DEF endpoints
<1>3. cfg' = [version |-> cfg.version, timeout |-> cfg.timeout,
              host |-> cfg.host, output |-> cfg.output, strict |-> cfg.strict, address |-> cfg.address,
              endpoints |-> endpoints, agents |-> cfg.agents]
  BY <1>1 DEF ParsedServices
<1>4. [version |-> cfg.version, timeout |-> cfg.timeout,
       host |-> cfg.host, output |-> cfg.output, strict |-> cfg.strict, address |-> cfg.address,
       endpoints |-> endpoints, agents |-> cfg.agents] \in ParsedServices
  BY <1>2, ParsedFields DEF ParsedServices
<1>5. cfg' \in ParsedServices
  BY <1>3, <1>4, Zenon
<1> QED
  BY <1>2, <1>3, <1>5

\* The fields of an endpoint.
LEMMA EndpointTypes ==
    ASSUME NEW e \in ParsedEndpoints
    PROVE  /\ e.valid \in BOOLEAN /\ e.path \in Seq([name : Placeholders, slash : BOOLEAN])
           /\ e.method \in Methods /\ e.timeout \in Int /\ e.calls \in Int
           /\ e.output \in Encodings /\ e.backends \in Seq(ParsedBackends)
           /\ Len(e.backends) \in Nat
           /\ \A k \in 1 .. Len(e.backends) : e.backends[k] \in ParsedBackends
BY DEF ParsedEndpoints

\* initEndpointDefaults gives an endpoint a timeout, calls and a method.
LEMMA DefaultsAreThere ==
    ASSUME NEW e \in ParsedEndpoints, cfg \in ParsedServices, cfg.timeout # 0
    PROVE  LET d == EndpointDefaults(e)
           IN  /\ d \in ParsedEndpoints /\ d.backends = e.backends /\ d.path = e.path
               /\ d.timeout # 0 /\ d.calls # 0 /\ d.method # ""
<1>1. PICK d : d = EndpointDefaults(e)
  OBVIOUS
<1> DEFINE method == Given(e.method, "", "GET")
           timeout == Given(e.timeout, 0, cfg.timeout)
           calls == Given(e.calls, 0, 1)
           output == Given(e.output, "", Given(cfg.output, "", "json"))
<1>2. d = [valid |-> e.valid, path |-> e.path, method |-> method, timeout |-> timeout,
           calls |-> calls, output |-> output, backends |-> e.backends]
  BY <1>1 DEF EndpointDefaults, ParsedEndpoints
<1>3. /\ method \in Methods /\ method # "" /\ timeout \in Int /\ timeout # 0
      /\ calls \in Int /\ calls # 0 /\ output \in Encodings
  <2>1. method \in Methods /\ method # ""
    BY EndpointTypes, NamesAssumption DEF Given
  <2>2. timeout \in Int /\ timeout # 0
    BY EndpointTypes, ParsedFields DEF Given
  <2>3. calls \in Int /\ calls # 0
    BY EndpointTypes DEF Given
  <2>4. output \in Encodings
    BY EndpointTypes, ParsedFields DEF Given, Encodings
  <2> QED
    BY <2>1, <2>2, <2>3, <2>4
<1> HIDE DEF method, timeout, calls, output
<1>4. d \in ParsedEndpoints
  BY <1>2, <1>3, EndpointTypes DEF ParsedEndpoints
<1>5. /\ d.backends = e.backends /\ d.path = e.path
      /\ d.timeout = timeout /\ d.calls = calls /\ d.method = method
  BY <1>2
<1> QED
  BY <1>1, <1>3, <1>4, <1>5

\* What is known while the loops run.
LEMMA LoopFacts ==
    ASSUME ConfigIInv, configPc \in {"endpoint", "backend", "mappings", "next"}
    PROVE  /\ cfg \in ParsedServices /\ cfg.timeout # 0 /\ cfg.host \in {"clean", "none"}
           /\ error = "none" /\ endpointIndex \in Nat /\ backendIndex \in Nat
           /\ endpointIndex \in 1 .. Len(cfg.endpoints) /\ Len(cfg.endpoints) \in Nat
           /\ Current \in ParsedEndpoints
           /\ \A k \in 1 .. Len(cfg.agents) : AgentIsReady(cfg.agents[k])
           /\ \A k \in 1 .. Len(cfg.endpoints) :
                 k < endpointIndex => IsReady(cfg.endpoints[k], cfg.strict)
<1>1. /\ cfg \in ParsedServices /\ cfg.timeout # 0 /\ cfg.host \in {"clean", "none"}
      /\ error = "none" /\ endpointIndex \in Nat /\ backendIndex \in Nat
      /\ endpointIndex \in 1 .. Len(cfg.endpoints)
      /\ \A k \in 1 .. Len(cfg.agents) : AgentIsReady(cfg.agents[k])
      /\ \A k \in 1 .. Len(cfg.endpoints) :
            k < endpointIndex => IsReady(cfg.endpoints[k], cfg.strict)
  BY DEF ConfigIInv, StepInv, ServiceInv, LoopInv
<1> QED
  BY <1>1, ParsedFields DEF Current

\* A failure of the loops; the params are looked at with those of the backend.
LEMMA FailIInv ==
    ASSUME ConfigIInv, configPc \in {"endpoint", "backend", "mappings", "next"},
           NEW r \in Errors \ {"none"}, Fail(r), cfg' \in ParsedServices,
           endpointIndex' = endpointIndex, backendIndex' \in Nat,
           r \notin {"number of params", "undefined param"} \/ RefusedForAParam'
    PROVE  ConfigIInv'
<1>1. RefusedForAParam'
  BY DEF Fail, RefusedForAParam
<1> QED
  BY <1>1, LoopFacts DEF Fail, ConfigIInv, StepInv, ServiceInv, LoopInv

\* The start of an endpoint: its path, its defaults, its params.
LEMMA EndpointIInv ==
    ASSUME ConfigIInv, InitEndpoint
    PROVE  ConfigIInv'
<1> DEFINE e == Current
<1>1. /\ configPc = "endpoint" /\ backendIndex' = 1 /\ endpointIndex' = endpointIndex
      /\ e \in ParsedEndpoints
  BY LoopFacts DEF InitEndpoint
<1>2. CASE (Fail("path") \/ Fail("no backends")) /\ UNCHANGED cfg
  BY <1>1, <1>2, LoopFacts, FailIInv DEF Errors
<1>3. CASE /\ e.backends # <<>> /\ cfg' = [cfg EXCEPT !.endpoints[endpointIndex] = EndpointDefaults(e)]
           /\ IF IsNoop(e) /\ Len(e.backends) > 1 THEN Fail("no-op") ELSE Go("backend")
  <2>1. PICK d : d = EndpointDefaults(e)
    OBVIOUS
  <2>2. /\ d \in ParsedEndpoints /\ d.backends = e.backends /\ d.path = e.path
        /\ d.timeout # 0 /\ d.calls # 0 /\ d.method # ""
    BY <1>1, <2>1, LoopFacts, DefaultsAreThere
  <2>3. /\ cfg' \in ParsedServices
        /\ cfg'.timeout = cfg.timeout /\ cfg'.host = cfg.host
        /\ cfg'.strict = cfg.strict /\ cfg'.agents = cfg.agents
        /\ Len(cfg'.endpoints) = Len(cfg.endpoints) /\ cfg'.endpoints[endpointIndex] = d
        /\ \A k \in 1 .. Len(cfg.endpoints) :
               k # endpointIndex => cfg'.endpoints[k] = cfg.endpoints[k]
    <3>1. cfg' = [cfg EXCEPT !.endpoints[endpointIndex] = d]
      BY <1>3, <2>1
    <3> QED
      BY <1>1, <2>2, <3>1, LoopFacts, EndpointReplaced
  <2>4. CASE Fail("no-op")
    BY <1>1, <2>3, <2>4, FailIInv DEF Errors
  <2>5. CASE Go("backend") /\ ~(IsNoop(e) /\ Len(e.backends) > 1)
    <3>1. configPc' = "backend" /\ error' = "none" /\ Current' = d
      BY <1>1, <2>3, <2>5, LoopFacts DEF Go, Current
    <3>2. Len(d.backends) \in Nat /\ Len(d.backends) >= 1
      <4>1. d.backends \in Seq(ParsedBackends) /\ d.backends # <<>>
        BY <1>3, <2>2, EndpointTypes
      <4> QED
        BY <4>1
    <3>3. HasDefaults(d)
      <4>1. d.output = "no-op" => ~(Len(d.backends) > 1)
        BY <2>1, <2>2, <2>5 DEF IsNoop
      <4>2. \A n : n \in Nat /\ n >= 1 /\ ~(n > 1) => n = 1
        OBVIOUS
      <4>3. d.output = "no-op" => Len(d.backends) = 1
        BY <3>2, <4>1, <4>2, Zenon
      <4> QED
        BY <2>2, <4>3 DEF HasDefaults
    <3>4. AreReady(d, 1, cfg.strict)
      BY <3>2 DEF AreReady
    <3>5. \A k \in 1 .. Len(cfg'.endpoints) :
              k < endpointIndex => IsReady(cfg'.endpoints[k], cfg.strict)
      BY <1>1, <2>3, LoopFacts
    <3>6. LoopInv'
      BY <1>1, <2>3, <3>1, <3>2, <3>3, <3>4, <3>5, LoopFacts DEF LoopInv
    <3>7. StepInv' /\ ServiceInv' /\ RefusedForAParam'
      BY <1>1, <2>3, <3>1, LoopFacts DEF StepInv, ServiceInv, RefusedForAParam, Errors
    <3> QED
      BY <3>6, <3>7 DEF ConfigIInv
  <2> QED
    BY <1>3, <2>4, <2>5
<1> QED
  BY <1>2, <1>3 DEF InitEndpoint, Current

\* One backend of an endpoint is given another value.
LEMMA BackendReplaced ==
    ASSUME NEW e \in ParsedEndpoints, NEW k \in 1 .. Len(e.backends), NEW b \in ParsedBackends,
           NEW x, x = [e EXCEPT !.backends[k] = b]
    PROVE  /\ x \in ParsedEndpoints
           /\ x.path = e.path /\ x.method = e.method /\ x.timeout = e.timeout
           /\ x.calls = e.calls /\ x.output = e.output
           /\ Len(x.backends) = Len(e.backends) /\ x.backends[k] = b
           /\ \A j \in 1 .. Len(e.backends) : j # k => x.backends[j] = e.backends[j]
<1> DEFINE backends == [e.backends EXCEPT ![k] = b]
<1>1. x = [e EXCEPT !.backends = backends]
  BY DEF ParsedEndpoints
<1>2. backends \in Seq(ParsedBackends) /\ Len(backends) = Len(e.backends)
      /\ backends[k] = b
      /\ \A j \in 1 .. Len(e.backends) : j # k => backends[j] = e.backends[j]
  BY EndpointTypes
<1> HIDE DEF backends
<1>3. x = [valid |-> e.valid, path |-> e.path, method |-> e.method, timeout |-> e.timeout,
           calls |-> e.calls, output |-> e.output, backends |-> backends]
  BY <1>1 DEF ParsedEndpoints
<1>4. [valid |-> e.valid, path |-> e.path, method |-> e.method, timeout |-> e.timeout,
       calls |-> e.calls, output |-> e.output, backends |-> backends] \in ParsedEndpoints
  BY <1>2, EndpointTypes DEF ParsedEndpoints
<1>5. x \in ParsedEndpoints
  BY <1>3, <1>4, Zenon
<1> QED
  BY <1>2, <1>3, <1>5

\* The step of a backend leaves what was reached before as it is.
LEMMA CurrentBackendReplaced ==
    ASSUME ConfigIInv, configPc \in {"backend", "mappings"}, NEW b \in ParsedBackends,
           cfg' = [cfg EXCEPT !.endpoints[endpointIndex].backends[backendIndex] = b],
           UNCHANGED <<endpointIndex, backendIndex>>
    PROVE  /\ cfg' \in ParsedServices
           /\ cfg'.timeout = cfg.timeout /\ cfg'.host = cfg.host
           /\ cfg'.strict = cfg.strict /\ cfg'.agents = cfg.agents
           /\ Len(cfg'.endpoints) = Len(cfg.endpoints)
           /\ \A k \in 1 .. Len(cfg'.endpoints) :
                  k < endpointIndex => IsReady(cfg'.endpoints[k], cfg'.strict)
           /\ Current'.path = Current.path /\ Current'.timeout = Current.timeout
           /\ Current'.calls = Current.calls /\ Current'.output = Current.output
           /\ HasDefaults(Current') /\ Len(Current'.backends) = Len(Current.backends)
           /\ Current'.backends[backendIndex] = b
           /\ AreReady(Current', backendIndex, cfg'.strict)
<1>1. /\ cfg \in ParsedServices /\ Current \in ParsedEndpoints
      /\ endpointIndex \in 1 .. Len(cfg.endpoints) /\ Len(cfg.endpoints) \in Nat
      /\ \A k \in 1 .. Len(cfg.endpoints) :
             k < endpointIndex => IsReady(cfg.endpoints[k], cfg.strict)
  BY LoopFacts
<1>2. /\ HasDefaults(Current) /\ backendIndex \in 1 .. Len(Current.backends)
      /\ AreReady(Current, backendIndex, cfg.strict)
  BY DEF ConfigIInv, LoopInv
<1>3. PICK x : x = [Current EXCEPT !.backends[backendIndex] = b]
  OBVIOUS
<1>4. cfg' = [cfg EXCEPT !.endpoints[endpointIndex] = x]
  BY <1>3 DEF Current
<1>5. /\ x \in ParsedEndpoints
      /\ x.path = Current.path /\ x.method = Current.method /\ x.timeout = Current.timeout
      /\ x.calls = Current.calls /\ x.output = Current.output
      /\ Len(x.backends) = Len(Current.backends) /\ x.backends[backendIndex] = b
      /\ \A j \in 1 .. Len(Current.backends) :
             j # backendIndex => x.backends[j] = Current.backends[j]
  BY <1>1, <1>2, <1>3, BackendReplaced
<1>6. /\ cfg' \in ParsedServices
      /\ cfg'.timeout = cfg.timeout /\ cfg'.host = cfg.host
      /\ cfg'.strict = cfg.strict /\ cfg'.agents = cfg.agents
      /\ Len(cfg'.endpoints) = Len(cfg.endpoints) /\ cfg'.endpoints[endpointIndex] = x
      /\ \A k \in 1 .. Len(cfg.endpoints) :
             k # endpointIndex => cfg'.endpoints[k] = cfg.endpoints[k]
  BY <1>1, <1>4, <1>5, EndpointReplaced
<1>7. Current' = x
  BY <1>6 DEF Current
<1>8. HasDefaults(x)
  BY <1>2, <1>5 DEF HasDefaults
<1>9. AreReady(x, backendIndex, cfg.strict)
  <2> SUFFICES ASSUME NEW k \in 1 .. Len(x.backends), k < backendIndex
               PROVE  /\ IsDefaulted(x.backends[k], x)
                      /\ IsMapped(x.backends[k], x, cfg.strict)
    BY DEF AreReady
  <2>1. k \in 1 .. Len(Current.backends) /\ k # backendIndex
    BY <1>2, <1>5
  <2>2. x.backends[k] = Current.backends[k]
    BY <1>5, <2>1
  <2>3. /\ IsDefaulted(Current.backends[k], Current)
        /\ IsMapped(Current.backends[k], Current, cfg.strict)
    BY <1>2, <2>1 DEF AreReady
  <2>4. IsDefaulted(Current.backends[k], x)
    BY <1>5, <2>3 DEF IsDefaulted
  <2>5. IsMapped(Current.backends[k], x, cfg.strict)
    BY <1>5, <2>3 DEF IsMapped, InputsOf
  <2> QED
    BY <2>2, <2>4, <2>5
<1>10. \A k \in 1 .. Len(cfg'.endpoints) :
           k < endpointIndex => IsReady(cfg'.endpoints[k], cfg'.strict)
  BY <1>1, <1>6
<1> QED
  BY <1>5, <1>6, <1>7, <1>8, <1>9, <1>10

\* The defaults of a backend, from its endpoint and the service.
LEMMA BackendIInv ==
    ASSUME ConfigIInv, InitBackend
    PROVE  ConfigIInv'
<1> DEFINE e == Current
           b == e.backends[backendIndex]
<1>1. /\ configPc = "backend" /\ UNCHANGED <<endpointIndex, backendIndex>>
      /\ e \in ParsedEndpoints /\ backendIndex \in 1 .. Len(e.backends)
      /\ HasDefaults(e) /\ b \in ParsedBackends
  <2>1. configPc = "backend" /\ UNCHANGED <<endpointIndex, backendIndex>>
    BY DEF InitBackend
  <2>2. e \in ParsedEndpoints
    BY <2>1, LoopFacts
  <2>3. backendIndex \in 1 .. Len(e.backends) /\ HasDefaults(e)
    BY <2>1 DEF ConfigIInv, LoopInv
  <2> QED
    BY <2>1, <2>2, <2>3, EndpointTypes
<1>2. CASE Fail("host") /\ UNCHANGED cfg
  BY <1>1, <1>2, LoopFacts, FailIInv DEF Errors
<1>3. CASE /\ ~BadHost(b) /\ Go("mappings")
           /\ cfg' = [cfg EXCEPT !.endpoints[endpointIndex].backends[backendIndex] =
                                     BackendDefaults(b, e)]
  <2>1. PICK d : d = BackendDefaults(b, e)
    OBVIOUS
  <2>2. d = [host |-> BackendHost(b), sanitize |-> b.sanitize,
             method |-> Given(b.method, "", e.method),
             encoding |-> IF e.output = "no-op" THEN "no-op" ELSE b.encoding,
             path |-> b.path, keys |-> b.keys, timeout |-> e.timeout, calls |-> e.calls]
    <3> HIDE DEF b, e
    <3> QED
      BY <1>1, <2>1 DEF ParsedBackends, BackendDefaults
  <2>3. /\ BackendHost(b) \in HostForms
        /\ BackendHost(b) \in {"clean", "none"} \/ ~b.sanitize
    BY <1>1, <1>3, LoopFacts, HostIsKnown
  <2>4. Given(b.method, "", e.method) \in Methods /\ Given(b.method, "", e.method) # ""
    <3>1. e.method \in Methods /\ e.method # "" /\ b.method \in Methods
      BY <1>1, EndpointTypes DEF HasDefaults, ParsedBackends
    <3> QED
      BY <3>1 DEF Given
  <2>5. /\ b.sanitize \in BOOLEAN /\ b.encoding \in Encodings /\ b.path \in Seq(Placeholders)
        /\ b.keys \in SUBSET Placeholders
    BY <1>1 DEF ParsedBackends
  <2>6. (IF e.output = "no-op" THEN "no-op" ELSE b.encoding) \in Encodings
    BY <2>5 DEF Encodings
  <2>7. d \in ParsedBackends
    <3> HIDE DEF b, e
    <3> QED
      BY <1>1, <2>2, <2>3, <2>4, <2>5, <2>6, EndpointTypes DEF ParsedBackends
  <2>8. cfg' = [cfg EXCEPT !.endpoints[endpointIndex].backends[backendIndex] = d]
    BY <1>3, <2>1
  <2>9. /\ cfg' \in ParsedServices
        /\ cfg'.timeout = cfg.timeout /\ cfg'.host = cfg.host
        /\ cfg'.strict = cfg.strict /\ cfg'.agents = cfg.agents
        /\ Len(cfg'.endpoints) = Len(cfg.endpoints)
        /\ \A k \in 1 .. Len(cfg'.endpoints) :
               k < endpointIndex => IsReady(cfg'.endpoints[k], cfg'.strict)
        /\ Current'.path = e.path /\ Current'.timeout = e.timeout
        /\ Current'.calls = e.calls /\ Current'.output = e.output
        /\ HasDefaults(Current') /\ Len(Current'.backends) = Len(e.backends)
        /\ Current'.backends[backendIndex] = d
        /\ AreReady(Current', backendIndex, cfg'.strict)
    BY <1>1, <2>7, <2>8, CurrentBackendReplaced
  <2>10. IsDefaulted(d, Current')
    <3> HIDE DEF b, e
    <3>1. /\ d.timeout = e.timeout /\ d.calls = e.calls /\ d.host = BackendHost(b)
          /\ d.sanitize = b.sanitize /\ d.method = Given(b.method, "", e.method)
          /\ e.output = "no-op" => d.encoding = "no-op"
      BY <2>2
    <3> QED
      BY <2>3, <2>4, <2>9, <3>1 DEF IsDefaulted, IsCallable
  <2>11. configPc' = "mappings" /\ error' = "none"
    BY <1>1, <1>3, LoopFacts DEF Go
  <2>12. LoopInv'
    BY <1>1, <2>9, <2>10, <2>11, LoopFacts DEF LoopInv
  <2>13. StepInv' /\ ServiceInv' /\ RefusedForAParam'
    BY <1>1, <2>9, <2>11, LoopFacts DEF StepInv, ServiceInv, RefusedForAParam, Errors
  <2> QED
    BY <2>12, <2>13 DEF ConfigIInv
<1> QED
  BY <1>2, <1>3 DEF InitBackend, Current

\* The count never refuses a backend that has a source for every param.
LEMMA CountLetsPass ==
    ASSUME NEW template \in Seq(Placeholders), NEW inputs, IsFiniteSet(inputs),
           Range(template) \subseteq inputs \cup Sequential
    PROVE  ~(uniqueOutput(template).size > Cardinality(inputs))
<1> DEFINE rest == (Range(template) \ {Max(Range(template))}) \ Sequential
<1>1. rest \subseteq inputs
  OBVIOUS
<1>2. Cardinality(rest) \in Nat /\ Cardinality(inputs) \in Nat
      /\ Cardinality(rest) <= Cardinality(inputs)
  BY <1>1, FS_Subset, FS_CardinalityType
<1>3. Cardinality(inputs) >= 0
  BY <1>2
<1> HIDE DEF rest
<1>4. uniqueOutput(template).size = IF template = <<>> THEN 0 ELSE Cardinality(rest)
  BY DEF uniqueOutput, rest
<1> QED
  BY <1>2, <1>3, <1>4

\* An endpoint has finitely many placeholders.
LEMMA InputsAreFinite ==
    ASSUME NEW e \in ParsedEndpoints
    PROVE  IsFiniteSet(InputSet(e))
<1> DEFINE n == Len(e.path)
           name == [k \in 1 .. n |-> e.path[k].name]
           names == {name[k] : k \in 1 .. n}
<1>1. n \in Nat /\ DOMAIN e.path = 1 .. n
  BY EndpointTypes
<1>2. name \in Surjection(1 .. n, names)
  BY DEF Surjection
<1>3. ExistsSurjection(1 .. n, names)
  BY <1>2 DEF ExistsSurjection
<1>4. IsFiniteSet(names)
  <2> HIDE DEF n, names
  <2> QED
    BY <1>1, <1>3, FS_NatSurjection
<1>5. InputSet(e) \subseteq names
  BY <1>1 DEF InputSet, Range
<1> QED
  BY <1>4, <1>5, FS_Subset

\* initBackendURLMappings: every param of a backend has a source.
LEMMA MappingsIInv ==
    ASSUME ConfigIInv, InitBackendURLMappings
    PROVE  ConfigIInv'
<1> DEFINE e == Current
           b == e.backends[backendIndex]
           inputs == InputSet(e)
           u == uniqueOutput(b.path)
<1>1. /\ configPc = "mappings" /\ UNCHANGED <<endpointIndex, backendIndex>>
      /\ e \in ParsedEndpoints /\ backendIndex \in 1 .. Len(e.backends)
      /\ IsDefaulted(b, e) /\ b \in ParsedBackends
  <2>1. configPc = "mappings" /\ UNCHANGED <<endpointIndex, backendIndex>>
    BY DEF InitBackendURLMappings
  <2>2. e \in ParsedEndpoints
    BY <2>1, LoopFacts
  <2>3. backendIndex \in 1 .. Len(e.backends) /\ IsDefaulted(b, e)
    BY <2>1 DEF ConfigIInv, LoopInv
  <2> QED
    BY <2>1, <2>2, <2>3, EndpointTypes
<1>2. b.path \in Seq(Placeholders) /\ Range(b.path) \subseteq Placeholders
  BY <1>1 DEF ParsedBackends, Range
<1>3. u.outputs = Range(b.path)
  <2> HIDE DEF b
  <2> QED
    BY DEF uniqueOutput
<1>4. inputs = InputsOf(e, cfg.strict)
  BY InputsAreThose
<1>5. CASE /\ Fail("number of params") \/ Fail("undefined param")
           /\ UNCHANGED cfg
           /\ u.size > Cardinality(inputs) \/ ~(u.outputs \subseteq inputs \cup Sequential)
  <2>1. ~(Range(b.path) \subseteq inputs \cup Sequential)
    <3> HIDE DEF b, e, inputs
    <3>1. IsFiniteSet(inputs)
      BY <1>1, InputsAreFinite DEF inputs
    <3> QED
      BY <1>2, <1>3, <1>5, <3>1, CountLetsPass
  <2>2. RefusedForAParam'
    <3>1. b' = b /\ inputs' = inputs
      BY <1>1, <1>5 DEF Current, InputSet
    <3> QED
      BY <2>1, <3>1 DEF RefusedForAParam, Current
  <2>3. cfg' \in ParsedServices
    BY <1>1, <1>5, LoopFacts
  <2>4. backendIndex' \in Nat
    BY <1>1, LoopFacts
  <2>5. \E r \in {"number of params", "undefined param"} : Fail(r)
    BY <1>5
  <2> QED
    BY <1>1, <2>2, <2>3, <2>4, <2>5, FailIInv DEF Errors
<1>6. CASE /\ u.outputs \subseteq inputs \cup Sequential /\ Go("next")
           /\ cfg' = [cfg EXCEPT !.endpoints[endpointIndex].backends[backendIndex].keys = u.outputs]
  <2>1. PICK d : d = [b EXCEPT !.keys = Range(b.path)]
    OBVIOUS
  <2>2. d = [host |-> b.host, sanitize |-> b.sanitize, method |-> b.method,
             encoding |-> b.encoding, path |-> b.path, keys |-> Range(b.path),
             timeout |-> b.timeout, calls |-> b.calls]
    <3> HIDE DEF b, e
    <3> QED
      BY <1>1, <2>1 DEF ParsedBackends
  <2>3. d \in ParsedBackends
    <3> HIDE DEF b, e
    <3> QED
      BY <1>1, <1>2, <2>2 DEF ParsedBackends
  <2>4. cfg' = [cfg EXCEPT !.endpoints[endpointIndex].backends[backendIndex] = d]
    BY <1>3, <1>6, <2>1 DEF Current
  <2>5. /\ cfg' \in ParsedServices
        /\ cfg'.timeout = cfg.timeout /\ cfg'.host = cfg.host
        /\ cfg'.strict = cfg.strict /\ cfg'.agents = cfg.agents
        /\ Len(cfg'.endpoints) = Len(cfg.endpoints)
        /\ \A k \in 1 .. Len(cfg'.endpoints) :
               k < endpointIndex => IsReady(cfg'.endpoints[k], cfg'.strict)
        /\ Current'.path = e.path /\ Current'.timeout = e.timeout
        /\ Current'.calls = e.calls /\ Current'.output = e.output
        /\ HasDefaults(Current') /\ Len(Current'.backends) = Len(e.backends)
        /\ Current'.backends[backendIndex] = d
        /\ AreReady(Current', backendIndex, cfg'.strict)
    BY <1>1, <2>3, <2>4, CurrentBackendReplaced
  <2>6. IsDefaulted(d, Current') /\ IsMapped(d, Current', cfg'.strict)
    <3> HIDE DEF b, e
    <3>1. /\ d.timeout = b.timeout /\ d.calls = b.calls /\ d.host = b.host
          /\ d.sanitize = b.sanitize /\ d.method = b.method /\ d.encoding = b.encoding
          /\ d.keys = Range(b.path) /\ d.path = b.path
      BY <2>2
    <3>2. IsDefaulted(d, Current')
      BY <1>1, <2>5, <3>1 DEF IsDefaulted, IsCallable
    <3>3. InputsOf(Current', cfg'.strict) = InputsOf(e, cfg.strict)
      BY <2>5 DEF InputsOf
    <3>4. IsMapped(d, Current', cfg'.strict)
      BY <1>3, <1>4, <1>6, <3>1, <3>3 DEF IsMapped
    <3> QED
      BY <3>2, <3>4
  <2>7. configPc' = "next" /\ error' = "none"
    BY <1>1, <1>6, LoopFacts DEF Go
  <2>8. LoopInv'
    BY <1>1, <2>5, <2>6, <2>7, LoopFacts DEF LoopInv
  <2>9. StepInv' /\ ServiceInv' /\ RefusedForAParam'
    BY <1>1, <2>5, <2>7, LoopFacts DEF StepInv, ServiceInv, RefusedForAParam, Errors
  <2> QED
    BY <2>8, <2>9 DEF ConfigIInv
<1> QED
  BY <1>1, <1>5, <1>6 DEF InitBackendURLMappings, Current

\* The next backend, or the next endpoint.
LEMMA NextOneIInv ==
    ASSUME ConfigIInv, NextOne
    PROVE  ConfigIInv'
<1> DEFINE n == Len(Current.backends)
<1>1. /\ configPc = "next" /\ cfg' = cfg /\ error = "none" /\ error' = "none"
      /\ Current \in ParsedEndpoints /\ HasDefaults(Current)
      /\ backendIndex \in 1 .. n /\ n \in Nat
      /\ endpointIndex \in 1 .. Len(cfg.endpoints) /\ Len(cfg.endpoints) \in Nat
  <2>1. configPc = "next" /\ cfg' = cfg
    BY DEF NextOne
  <2>2. error = "none" /\ Current \in ParsedEndpoints
        /\ endpointIndex \in 1 .. Len(cfg.endpoints) /\ Len(cfg.endpoints) \in Nat
    BY <2>1, LoopFacts
  <2>3. HasDefaults(Current) /\ backendIndex \in 1 .. n
    BY <2>1 DEF ConfigIInv, LoopInv
  <2> QED
    BY <2>1, <2>2, <2>3, EndpointTypes DEF NextOne, Go
<1>2. AreReady(Current, backendIndex + 1, cfg.strict)
  <2> SUFFICES ASSUME NEW k \in 1 .. n, k < backendIndex + 1
               PROVE  /\ IsDefaulted(Current.backends[k], Current)
                      /\ IsMapped(Current.backends[k], Current, cfg.strict)
    BY DEF AreReady
  <2>1. CASE k = backendIndex
    BY <1>1, <2>1 DEF ConfigIInv, LoopInv
  <2>2. CASE k < backendIndex
    BY <1>1, <2>2 DEF ConfigIInv, LoopInv, AreReady
  <2> QED
    BY <1>1, <2>1, <2>2
<1>3. CASE backendIndex < n
  <2>1. /\ configPc' = "backend" /\ endpointIndex' = endpointIndex
        /\ backendIndex' = backendIndex + 1 /\ Current' = Current
    BY <1>1, <1>3 DEF NextOne, Go, Current
  <2>2. backendIndex' \in 1 .. n /\ backendIndex' \in Nat
    BY <1>1, <1>3, <2>1
  <2>3. LoopInv'
    BY <1>1, <1>2, <2>1, <2>2, LoopFacts DEF LoopInv
  <2>4. StepInv' /\ ServiceInv' /\ RefusedForAParam'
    BY <1>1, <2>1, <2>2, LoopFacts DEF StepInv, ServiceInv, RefusedForAParam, Errors
  <2> QED
    BY <2>3, <2>4 DEF ConfigIInv
<1>4. CASE ~(backendIndex < n)
  <2>1. IsReady(Current, cfg.strict)
    <3>1. backendIndex = n
      BY <1>1, <1>4
    <3> QED
      BY <1>1, <1>2, <3>1 DEF IsReady
  <2>2. \A k \in 1 .. Len(cfg.endpoints) :
            k < endpointIndex + 1 => IsReady(cfg.endpoints[k], cfg.strict)
    <3> SUFFICES ASSUME NEW k \in 1 .. Len(cfg.endpoints), k < endpointIndex + 1
                 PROVE  IsReady(cfg.endpoints[k], cfg.strict)
      OBVIOUS
    <3>1. CASE k = endpointIndex
      BY <2>1, <3>1 DEF Current
    <3>2. CASE k < endpointIndex
      BY <1>1, <3>2, LoopFacts
    <3> QED
      BY <1>1, <3>1, <3>2
  <2>3. backendIndex' = 1
    BY <1>4 DEF NextOne, Current
  <2>4. CASE endpointIndex < Len(cfg.endpoints)
    <3>1. configPc' = "endpoint" /\ endpointIndex' = endpointIndex + 1
      BY <1>4, <2>4 DEF NextOne, Go, Current
    <3>2. endpointIndex' \in 1 .. Len(cfg.endpoints) /\ endpointIndex' \in Nat
      BY <1>1, <2>4, <3>1
    <3>3. LoopInv'
      BY <1>1, <2>2, <3>1, <3>2 DEF LoopInv
    <3>4. StepInv' /\ ServiceInv' /\ RefusedForAParam'
      BY <1>1, <2>3, <3>1, <3>2, LoopFacts DEF StepInv, ServiceInv, RefusedForAParam, Errors
    <3> QED
      BY <3>3, <3>4 DEF ConfigIInv
  <2>5. CASE ~(endpointIndex < Len(cfg.endpoints))
    <3>1. configPc' = "ready" /\ endpointIndex' = endpointIndex
      BY <1>4, <2>5 DEF NextOne, Go, Current
    <3>2. \A k \in 1 .. Len(cfg.endpoints) : k < endpointIndex + 1
      BY <1>1, <2>5
    <3>3. LoopInv'
      BY <1>1, <2>2, <3>1, <3>2 DEF LoopInv
    <3>4. StepInv' /\ ServiceInv' /\ RefusedForAParam'
      BY <1>1, <2>3, <3>1, LoopFacts DEF StepInv, ServiceInv, RefusedForAParam, Errors
    <3> QED
      BY <3>3, <3>4 DEF ConfigIInv
  <2> QED
    BY <2>4, <2>5
<1> QED
  BY <1>3, <1>4

\* The invariant of Init, for any configuration (config.go).
LEMMA ConfigInvariance == ConfigSpec => []ConfigIInv
<1>1. ConfigInit => ConfigIInv
  BY ConfigInitially
<1>2. ConfigIInv /\ [ConfigNext]_configVars => ConfigIInv'
  <2> SUFFICES ASSUME ConfigIInv, [ConfigNext]_configVars
               PROVE  ConfigIInv'
    OBVIOUS
  <2>1. CASE NormalizeConfig
    BY <2>1, NormalizeIInv
  <2>2. CASE InitGlobalParams
    BY <2>2, GlobalIInv
  <2>3. CASE InitAsyncAgents
    BY <2>3, AgentsStepIInv
  <2>4. CASE InitEndpoint
    BY <2>4, EndpointIInv
  <2>5. CASE InitBackend
    BY <2>5, BackendIInv
  <2>6. CASE InitBackendURLMappings
    BY <2>6, MappingsIInv
  <2>7. CASE NextOne
    BY <2>7, NextOneIInv
  <2>8. CASE ConfigFinished \/ UNCHANGED configVars
    <3>1. UNCHANGED <<cfg, configPc, endpointIndex, backendIndex, error>>
      BY <2>8 DEF ConfigFinished, configVars
    <3>2. Current' = Current /\ \A e : InputSet(e)' = InputSet(e)
      BY <3>1 DEF Current, InputSet
    <3> QED
      BY <3>1, <3>2 DEF ConfigIInv, StepInv, ServiceInv, LoopInv, RefusedForAParam, InputSet
  <2> QED
    BY <2>1, <2>2, <2>3, <2>4, <2>5, <2>6, <2>7, <2>8 DEF ConfigNext
<1> QED
  BY <1>1, <1>2, PTL DEF ConfigSpec

(***************************************************************************)
(* Init is at a step that exists, stops with an error or without one, and  *)
(* from the defaults of the service on there is a timeout                  *)
(* (config.go:424-475).                                                    *)
(***************************************************************************)
THEOREM ConfigTypeCorrect == ConfigSpec => []ConfigTypeOK
<1>1. ConfigIInv => ConfigTypeOK
  <2> SUFFICES ASSUME ConfigIInv PROVE ConfigTypeOK
    OBVIOUS
  <2>1. configPc # "normalize" => cfg.timeout \in {-3, 0, 2, 3}
    BY ParsedFields DEF ConfigIInv, ServiceInv
  <2>2. configPc \notin {"normalize", "global", "failed"} => cfg.timeout # 0
    BY DEF ConfigIInv, ServiceInv
  <2> QED
    BY <2>1, <2>2 DEF ConfigIInv, StepInv, ConfigTypeOK
<1> QED
  BY <1>1, ConfigInvariance, PTL

(***************************************************************************)
(* Whatever a file holds, with any number of endpoints, backends, agents   *)
(* and placeholders: what Init accepts can be run.  Every param has a      *)
(* source and a missing source is the only reason to refuse one, every     *)
(* backend has a timeout, a method and a host, and a copied body has one   *)
(* origin (config.go:424-475, 523-525, 566-716).                           *)
(***************************************************************************)
THEOREM ConfigSound == ConfigSpec => []InitIsSound
<1>1. ConfigIInv => InitIsSound
  <2> SUFFICES ASSUME ConfigIInv PROVE InitIsSound
    OBVIOUS
  <2>1. RefusedForAParam
    BY DEF ConfigIInv
  <2>2. CASE configPc # "ready"
    BY <2>1, <2>2 DEF InitIsSound, ParamsHaveASource, BackendsAreReady, NoopIsAlone
  <2>3. CASE configPc = "ready"
    <3>1. cfg \in ParsedServices
      BY <2>3 DEF ConfigIInv, ServiceInv
    <3>2. ASSUME NEW e \in Range(cfg.endpoints)
          PROVE  e \in ParsedEndpoints /\ IsReady(e, cfg.strict)
      <4>1. PICK k \in 1 .. Len(cfg.endpoints) : e = cfg.endpoints[k]
        BY <3>1, <3>2, ParsedFields DEF Range
      <4> QED
        BY <2>3, <3>1, <4>1, ParsedFields DEF ConfigIInv, LoopInv
    <3>3. ASSUME NEW e \in Range(cfg.endpoints), NEW b \in Range(e.backends)
          PROVE  IsDefaulted(b, e) /\ IsMapped(b, e, cfg.strict) /\ HasDefaults(e)
      <4>1. e \in ParsedEndpoints /\ IsReady(e, cfg.strict)
        BY <3>2
      <4>2. PICK k \in 1 .. Len(e.backends) : b = e.backends[k]
        BY <4>1, EndpointTypes DEF Range
      <4>3. k < Len(e.backends) + 1
        BY <4>1, EndpointTypes
      <4> QED
        BY <4>1, <4>2, <4>3 DEF IsReady, AreReady
    <3>4. ASSUME NEW a \in Range(cfg.agents)
          PROVE  /\ a.workers > 0
                 /\ \A b \in Range(a.backends) : IsCallable(b, a.timeout) /\ a.timeout # 0
      <4>1. PICK k \in 1 .. Len(cfg.agents) : a = cfg.agents[k]
        BY <3>1, <3>4, ParsedFields DEF Range
      <4>2. a \in ParsedAgents /\ AgentIsReady(a)
        BY <2>3, <3>1, <4>1, ParsedFields DEF ConfigIInv, ServiceInv
      <4>3. DOMAIN a.backends = 1 .. Len(a.backends)
        BY <4>2 DEF ParsedAgents
      <4> QED
        BY <4>2, <4>3 DEF AgentIsReady, Range
    <3>5. ParamsHaveASource
      BY <3>3, InputsAreThose DEF ParamsHaveASource, AllBackends, IsMapped
    <3>6. BackendsAreReady
      BY <3>3, <3>4 DEF BackendsAreReady, AllBackends, IsDefaulted, IsCallable, HasDefaults
    <3>7. NoopIsAlone
      BY <3>3 DEF NoopIsAlone, AllBackends, IsDefaulted, HasDefaults
    <3> QED
      BY <2>1, <3>5, <3>6, <3>7 DEF InitIsSound
  <2> QED
    BY <2>2, <2>3
<1> QED
  BY <1>1, ConfigInvariance, PTL

=============================================================================
