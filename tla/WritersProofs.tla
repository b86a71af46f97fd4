--------------------------- MODULE WritersProofs ---------------------------
(***************************************************************************)
(* Proofs about Writers, for any messages, topics, subscriptions and       *)
(* bounds, and for every kind of subscription: the producer cache never    *)
(* mixes topics up, an acknowledged message is in its topic, and the       *)
(* connector implements Relay.                                             *)
(***************************************************************************)
EXTENDS Writers, SequenceTheorems, TLAPS

\* The producer in the cache under a key is for a topic with that hash.
CacheIsKeyed ==
  \A h \in Hashes : writers[h] # 0 => Hash[producers[writers[h]].topic] = h

\* The producer a callback has loaded or made is for the topic of its message.
HeldFitsMessage ==
  \A g \in Subs : cb[g].pc \in {"store", "write"} => producers[cb[g].writer].topic = Topic(g)

\* A callback that is about to acknowledge has written its message.
AckIsDue ==
  \A g \in Subs : cb[g].pc = "ack" => cb[g].msg \in log[Topic(g)]

\* The inductive invariant.  RightTopic rests on HeldFitsMessage, that on
\* CacheIsKeyed, and AckedIsWritten on AckIsDue.
IInv == TypeOK /\ CacheIsKeyed /\ HeldFitsMessage /\ RightTopic /\ AckIsDue /\ AckedIsWritten

-----------------------------------------------------------------------------
(* Types.                                                                  *)

\* What Init and the steps of Writers look like to the proofs: one case for
\* each action.
LEMMA NextCases ==
  ASSUME [Next]_vars
  PROVE  \/ \E g \in Subs, m \in Messages : Deliver(g, m)
         \/ \E g \in Subs : LoadWriter(g)
         \/ \E g \in Subs, ok \in BOOLEAN : NewProducer(g, ok)
         \/ \E g \in Subs : StoreWriter(g)
         \/ \E g \in Subs, ok \in BOOLEAN : Write(g, ok)
         \/ \E g \in Subs : WritePanics(g)
         \/ \E g \in Subs : Ack(g)
         \/ \E h \in Hashes : CloseWriter(h)
         \/ \E h \in Hashes : DeleteWriter(h)
         \/ \E S \in Skips : Start(S)
         \/ /\ UNCHANGED <<mode, sent, skipped, log, acked, cb, cacheVars>>
            /\ Shutdown \/ Unsubscribe \/ KafkaStep
         \/ UNCHANGED vars
  BY DEF Next, CallbackStep, ConnectorStep, KafkaStep, Shutdown, Unsubscribe, KafkaDown,
     KafkaUp, kafkaVars

\* CloseWriter changes no producer but in that it is closed.
LEMMA CloseKeepsProducers ==
  ASSUME TypeOK, NEW h \in Hashes, CloseWriter(h)
  PROVE  /\ producers' \in Seq(Producer) /\ Len(producers') = Len(producers)
         /\ \A w \in 1..Len(producers) : producers'[w].topic = producers[w].topic
<1>1. producers \in Seq(Producer) /\ Len(producers) \in Nat
  BY DEF TypeOK
<1>2. \A w \in 1..Len(producers) : producers[w] \in Producer
  BY <1>1
<1>3. \A w \in 1..Len(producers) :
        /\ producers'[w] \in Producer
        /\ producers'[w].topic = producers[w].topic
  BY <1>2, Zenon DEF CloseWriter, Producer
<1>4. producers' \in [1..Len(producers) -> Producer]
  BY <1>3 DEF CloseWriter
<1>. QED
  BY <1>1, <1>3, <1>4, SeqDef

\* NewProducer changes no producer there is, and adds one of the message's topic.
LEMMA NewKeepsProducers ==
  ASSUME TypeOK, NEW g \in Subs, NEW ok \in BOOLEAN, NewProducer(g, ok)
  PROVE  /\ producers' \in Seq(Producer) /\ Len(producers') = Len(producers) + 1
         /\ \A w \in 1..Len(producers) : producers'[w] = producers[w]
         /\ producers'[Len(producers) + 1].topic = Topic(g)
<1>. DEFINE p == [topic |-> Topic(g), errored |-> ~ok, open |-> ok]
<1>1. Topic(g) \in Topics
  BY WritersAssumption, Zenon DEF TypeOK, NewProducer, Topic, Callback
<1>2. p \in Producer
  BY <1>1 DEF Producer
<1>3. producers \in Seq(Producer) /\ producers' = Append(producers, p)
  BY DEF TypeOK, NewProducer
<1>4. p.topic = Topic(g)
  OBVIOUS
<1>. HIDE DEF p
<1>. QED
  BY <1>2, <1>3, <1>4, AppendProperties

\* In every state, what a callback or a key refers to is a producer.
LEMMA IndexesAreProducers ==
  ASSUME TypeOK
  PROVE  /\ Len(producers) \in Nat
         /\ \A w \in 1..Len(producers) : producers[w] \in Producer
         /\ \A h \in Hashes : writers[h] # 0 => writers[h] \in 1..Len(producers)
         /\ \A g \in Subs : cb[g].pc \in {"store", "write", "ack"} => cb[g].writer \in 1..Len(producers)
         /\ \A g \in Subs : cb[g] \in Callback
         /\ \A g \in Subs : cb[g].pc # "idle" =>
              Topic(g) \in Topics /\ Key(g) \in Hashes /\ cb[g].msg \in Messages
<1>1. producers \in Seq(Producer) /\ Len(producers) \in Nat
  BY DEF TypeOK
<1>2. \A w \in 1..Len(producers) : producers[w] \in Producer
  BY <1>1
<1>3. \A h \in Hashes : writers[h] \in Nat /\ writers[h] <= Len(producers)
  BY DEF TypeOK
<1>4. \A g \in Subs : cb[g] \in Callback
  BY DEF TypeOK
<1>5. \A g \in Subs : cb[g].writer \in Nat /\ cb[g].writer <= Len(producers)
  BY <1>4 DEF TypeOK, Callback
<1>6. \A g \in Subs : cb[g].pc \in {"store", "write", "ack"} => cb[g].writer # 0
  BY DEF TypeOK
<1>7. \A g \in Subs : cb[g].pc # "idle" => cb[g].msg \in Messages
  BY DEF TypeOK
<1>8. \A g \in Subs : cb[g].pc # "idle" => Topic(g) \in Topics /\ Key(g) \in Hashes
  BY <1>7, WritersAssumption DEF Topic, Key
<1>. QED
  BY <1>1, <1>2, <1>3, <1>4, <1>5, <1>6, <1>7, <1>8

LEMMA TypeInit == Init => TypeOK
<1>. SUFFICES ASSUME Init PROVE TypeOK
  OBVIOUS
<1>1. Idle \in Callback
  BY DEF Idle, Callback
<1>2. cb \in [Subs -> Callback]
  BY <1>1 DEF Init
<1>3. producers \in Seq(Producer) /\ Len(producers) = 0
  BY DEF Init
<1>4. \A g \in Subs : cb[g].pc = "idle" /\ cb[g].writer = 0
  BY DEF Init, Idle
<1>5. writers \in [Hashes -> Nat] /\ \A h \in Hashes : writers[h] <= Len(producers)
  BY <1>3 DEF Init
<1>6. log \in [Topics -> SUBSET Messages]
  BY DEF Init
<1>7. subs \in 0..MaxSubs /\ sub \in 0..MaxSubs /\ outages \in Nat
  BY WritersAssumption DEF Init
<1>8. mode \in {"core", "durable", "anew"} /\ kafkaUp \in BOOLEAN /\ closing \in BOOLEAN
  BY WritersAssumption, Zenon DEF Init
<1>9. /\ sent \subseteq Messages /\ skipped \subseteq Messages /\ acked \subseteq Messages
      /\ rangeTodo \subseteq Hashes /\ visiting \subseteq Hashes
  BY DEF Init
<1>10. \A g \in Subs : /\ cb[g].writer <= Len(producers)
                       /\ cb[g].pc # "idle" => cb[g].msg \in Messages
                       /\ cb[g].pc \in {"store", "write", "ack"} => cb[g].writer # 0
  BY <1>3, <1>4
<1>. QED
  BY <1>2, <1>3, <1>5, <1>6, <1>7, <1>8, <1>9, <1>10, Zenon DEF TypeOK

\* TypeOK in three parts: what the callbacks hold, the cache, and the rest.
CallbackTypes ==
  /\ cb \in [Subs -> Callback]
  /\ \A g \in Subs : /\ cb[g].writer <= Len(producers)
                     /\ cb[g].pc # "idle" => cb[g].msg \in Messages
                     /\ cb[g].pc \in {"store", "write", "ack"} => cb[g].writer # 0

CacheTypes ==
  /\ producers \in Seq(Producer) /\ writers \in [Hashes -> Nat]
  /\ \A h \in Hashes : writers[h] <= Len(producers)

OtherTypes ==
  /\ mode \in {"core", "durable", "anew"} /\ sent \subseteq Messages /\ skipped \subseteq Messages
  /\ kafkaUp \in BOOLEAN /\ outages \in Nat
  /\ log \in [Topics -> SUBSET Messages] /\ acked \subseteq Messages
  /\ subs \in 0..MaxSubs /\ sub \in 0..MaxSubs /\ closing \in BOOLEAN
  /\ rangeTodo \subseteq Hashes /\ visiting \subseteq Hashes

LEMMA TypeParts == TypeOK <=> CallbackTypes /\ CacheTypes /\ OtherTypes
BY Zenon DEF TypeOK, CallbackTypes, CacheTypes, OtherTypes

\* One callback changes, and no producer goes away.
LEMMA CallbackChanges ==
  ASSUME TypeOK, NEW g \in Subs, NEW r \in Callback, cb' = [cb EXCEPT ![g] = r],
         Len(producers') \in Nat, Len(producers) <= Len(producers'),
         r.writer <= Len(producers'),
         r.pc # "idle" => r.msg \in Messages,
         r.pc \in {"store", "write", "ack"} => r.writer # 0
  PROVE  CallbackTypes'
<1>1. cb \in [Subs -> Callback] /\ Len(producers) \in Nat
  BY DEF TypeOK
<1>2. cb' \in [Subs -> Callback]
  BY <1>1
<1>3. ASSUME NEW k \in Subs
      PROVE  /\ cb'[k].writer <= Len(producers')
             /\ cb'[k].pc # "idle" => cb'[k].msg \in Messages
             /\ cb'[k].pc \in {"store", "write", "ack"} => cb'[k].writer # 0
  <2>1. CASE k = g
    <3>1. cb'[k] = r
      BY <2>1, <1>1
    <3>. QED
      BY <3>1
  <2>2. CASE k # g
    <3>1. cb'[k] = cb[k]
      BY <2>2, <1>1
    <3>2. cb[k].writer \in Nat /\ cb[k].writer <= Len(producers)
      BY <1>1 DEF TypeOK, Callback
    <3>3. cb'[k].writer <= Len(producers')
      BY <1>1, <3>1, <3>2
    <3>. QED
      BY <3>1, <3>3 DEF TypeOK
  <2>. QED
    BY <2>1, <2>2
<1>. QED
  BY <1>2, <1>3 DEF CallbackTypes

LEMMA TypeNext == TypeOK /\ [Next]_vars => TypeOK'
<1>. SUFFICES ASSUME TypeOK, [Next]_vars PROVE CallbackTypes' /\ CacheTypes' /\ OtherTypes'
  BY TypeParts, PTL
<1>. CallbackTypes /\ CacheTypes /\ OtherTypes
  BY TypeParts, Zenon
<1>p. Len(producers) \in Nat
  BY DEF TypeOK
<1>1. CASE \E g \in Subs, m \in Messages : Deliver(g, m)
  <2>. PICK g \in Subs, m \in Messages : Deliver(g, m)
    BY <1>1
  <2>. DEFINE r == [pc |-> "load", msg |-> m, writer |-> 0]
  <2>1. r \in Callback /\ r.writer = 0 /\ r.pc = "load" /\ r.msg = m
    BY DEF Callback
  <2>2. cb' = [cb EXCEPT ![g] = r] /\ UNCHANGED cacheVars
    BY DEF Deliver
  <2>. HIDE DEF r
  <2>3. CallbackTypes'
    <3>1. Len(producers') \in Nat /\ Len(producers) <= Len(producers') /\ r.writer <= Len(producers')
      BY <1>p, <2>1, <2>2 DEF cacheVars
    <3>2. /\ r.pc # "idle" => r.msg \in Messages
          /\ r.pc \in {"store", "write", "ack"} => r.writer # 0
      BY <2>1
    <3>. QED
      BY <3>1, <3>2, <2>1, <2>2, CallbackChanges, Zenon
  <2>4. OtherTypes'
    BY DEF Deliver, OtherTypes, kafkaVars, shutVars
  <2>. QED
    BY <2>2, <2>3, <2>4, Zenon DEF CacheTypes, cacheVars
<1>2. CASE \E g \in Subs : LoadWriter(g)
  <2>. PICK g \in Subs : LoadWriter(g)
    BY <1>2
  <2>. DEFINE w == writers[Key(g)]
              r == [cb[g] EXCEPT !.pc = IF w = 0 THEN "create" ELSE "write", !.writer = w]
  <2>1. cb[g] \in Callback /\ cb[g].pc = "load" /\ cb[g].msg \in Messages /\ Key(g) \in Hashes
    BY IndexesAreProducers DEF LoadWriter
  <2>2. w \in Nat /\ w <= Len(producers)
    BY <2>1 DEF CacheTypes
  <2>3. /\ r \in Callback /\ r.writer = w /\ r.msg = cb[g].msg
        /\ r.pc = IF w = 0 THEN "create" ELSE "write"
    BY <2>1, <2>2, Zenon DEF Callback
  <2>4. cb' = [cb EXCEPT ![g] = r] /\ UNCHANGED cacheVars
    BY <2>1, Zenon DEF LoadWriter, CallbackTypes
  <2>. HIDE DEF r
  <2>5. CallbackTypes'
    <3>1. Len(producers') \in Nat /\ Len(producers) <= Len(producers') /\ r.writer <= Len(producers')
      BY <1>p, <2>2, <2>3, <2>4 DEF cacheVars
    <3>2. /\ r.pc # "idle" => r.msg \in Messages
          /\ r.pc \in {"store", "write", "ack"} => r.writer # 0
      BY <2>1, <2>3
    <3>. QED
      BY <3>1, <3>2, <2>3, <2>4, CallbackChanges, Zenon
  <2>6. OtherTypes'
    BY DEF LoadWriter, OtherTypes, kafkaVars, shutVars
  <2>. QED
    BY <2>4, <2>5, <2>6 DEF CacheTypes, cacheVars
<1>3. CASE \E g \in Subs, ok \in BOOLEAN : NewProducer(g, ok)
  <2>. PICK g \in Subs, ok \in BOOLEAN : NewProducer(g, ok)
    BY <1>3
  <2>. DEFINE r == [cb[g] EXCEPT !.pc = "store", !.writer = Len(producers) + 1]
  <2>1. cb[g] \in Callback /\ cb[g].pc = "create" /\ cb[g].msg \in Messages
    BY IndexesAreProducers, Zenon DEF NewProducer
  <2>2. r \in Callback /\ r.writer = Len(producers) + 1 /\ r.msg = cb[g].msg /\ r.pc = "store"
    <3>1. Len(producers) + 1 \in Nat
      BY <1>p
    <3>. QED
      BY <2>1, <3>1, Zenon DEF Callback
  <2>3. cb' = [cb EXCEPT ![g] = r] /\ UNCHANGED writers
    BY <2>1, Zenon DEF NewProducer, CallbackTypes
  <2>4. producers' \in Seq(Producer) /\ Len(producers') = Len(producers) + 1
    BY NewKeepsProducers
  <2>. HIDE DEF r
  <2>5. CallbackTypes'
    <3>1. Len(producers') \in Nat /\ Len(producers) <= Len(producers') /\ r.writer <= Len(producers')
      BY <1>p, <2>2, <2>4
    <3>2. /\ r.pc # "idle" => r.msg \in Messages
          /\ r.pc \in {"store", "write", "ack"} => r.writer # 0
      BY <1>p, <2>1, <2>2
    <3>. QED
      BY <3>1, <3>2, <2>2, <2>3, CallbackChanges, Zenon
  <2>6. CacheTypes'
    BY <1>p, <2>3, <2>4 DEF CacheTypes
  <2>7. OtherTypes'
    <3>1. UNCHANGED <<mode, kafkaUp, sent, skipped, log, acked, subs, sub, closing, rangeTodo, visiting>>
      BY DEF NewProducer, shutVars
    <3>2. outages' \in Nat
      BY DEF NewProducer, OtherTypes
    <3>. QED
      BY <3>1, <3>2 DEF OtherTypes
  <2>. QED
    BY <2>5, <2>6, <2>7
<1>4. CASE \E g \in Subs : StoreWriter(g)
  <2>. PICK g \in Subs : StoreWriter(g)
    BY <1>4
  <2>. DEFINE r == [cb[g] EXCEPT !.pc = "write"]
  <2>1. /\ cb[g] \in Callback /\ cb[g].pc = "store" /\ cb[g].msg \in Messages /\ Key(g) \in Hashes
        /\ cb[g].writer \in 1..Len(producers)
    BY IndexesAreProducers DEF StoreWriter
  <2>2. r \in Callback /\ r.writer = cb[g].writer /\ r.msg = cb[g].msg /\ r.pc = "write"
    BY <2>1 DEF Callback
  <2>3. cb' = [cb EXCEPT ![g] = r] /\ UNCHANGED producers
    BY <2>1 DEF StoreWriter, CallbackTypes
  <2>. HIDE DEF r
  <2>4. CallbackTypes'
    <3>1. Len(producers') \in Nat /\ Len(producers) <= Len(producers') /\ r.writer <= Len(producers')
      BY <1>p, <2>1, <2>2, <2>3
    <3>2. /\ r.pc # "idle" => r.msg \in Messages
          /\ r.pc \in {"store", "write", "ack"} => r.writer # 0
      BY <2>1, <2>2
    <3>. QED
      BY <3>1, <3>2, <2>2, <2>3, CallbackChanges, Zenon
  <2>5. CacheTypes'
    BY <1>p, <2>1, <2>3 DEF CacheTypes, StoreWriter
  <2>6. OtherTypes'
    BY DEF StoreWriter, OtherTypes, kafkaVars, shutVars
  <2>. QED
    BY <2>4, <2>5, <2>6
<1>5. CASE \E g \in Subs, ok \in BOOLEAN : Write(g, ok)
  <2>. PICK g \in Subs, ok \in BOOLEAN : Write(g, ok)
    BY <1>5
  <2>1. /\ cb[g] \in Callback /\ cb[g].pc = "write" /\ cb[g].msg \in Messages
        /\ cb[g].writer \in 1..Len(producers) /\ producers[cb[g].writer] \in Producer
    BY IndexesAreProducers DEF Write
  <2>. DEFINE r == [cb[g] EXCEPT !.pc = "ack"]
  <2>2. r \in Callback /\ r.writer = cb[g].writer /\ r.msg = cb[g].msg /\ r.pc = "ack"
    BY <2>1 DEF Callback
  <2>3. Idle \in Callback /\ Idle.writer = 0 /\ Idle.pc = "idle"
    BY DEF Idle, Callback
  <2>4. cb' = [cb EXCEPT ![g] = r] \/ cb' = [cb EXCEPT ![g] = Idle]
    BY <2>1 DEF Write, CallbackTypes
  <2>5. UNCHANGED cacheVars
    BY Zenon DEF Write
  <2>. HIDE DEF r
  <2>6. CallbackTypes'
    BY <1>p, <2>1, <2>2, <2>3, <2>4, <2>5, CallbackChanges DEF cacheVars
  <2>7. log' \in [Topics -> SUBSET Messages]
    BY <2>1 DEF Write, OtherTypes, Producer
  <2>8. OtherTypes'
    BY <2>7, Zenon DEF Write, OtherTypes, kafkaVars, shutVars
  <2>. QED
    BY <2>5, <2>6, <2>8 DEF CacheTypes, cacheVars
<1>6. CASE \E g \in Subs : Ack(g)
  <2>. PICK g \in Subs : Ack(g)
    BY <1>6
  <2>1. cb[g].msg \in Messages
    BY IndexesAreProducers, Zenon DEF Ack
  <2>2. Idle \in Callback /\ Idle.writer = 0 /\ Idle.pc = "idle"
    BY Zenon DEF Idle, Callback
  <2>3. cb' = [cb EXCEPT ![g] = Idle] /\ UNCHANGED cacheVars
    BY Zenon DEF Ack
  <2>4. CallbackTypes'
    <3>1. Len(producers') \in Nat /\ Len(producers) <= Len(producers') /\ Idle.writer <= Len(producers')
      BY <1>p, <2>2, <2>3 DEF cacheVars
    <3>2. /\ Idle.pc # "idle" => Idle.msg \in Messages
          /\ Idle.pc \in {"store", "write", "ack"} => Idle.writer # 0
      BY <2>2
    <3>. QED
      BY <3>1, <3>2, <2>2, <2>3, CallbackChanges, Zenon
  <2>5. OtherTypes'
    BY <2>1 DEF Ack, OtherTypes, kafkaVars, shutVars
  <2>. QED
    BY <2>3, <2>4, <2>5, Zenon DEF CacheTypes, cacheVars
<1>7. CASE \E h \in Hashes : CloseWriter(h)
  <2>. PICK h \in Hashes : CloseWriter(h)
    BY <1>7
  <2>1. producers' \in Seq(Producer) /\ Len(producers') = Len(producers)
    BY CloseKeepsProducers
  <2>2. UNCHANGED <<cb, writers>>
    BY DEF CloseWriter
  <2>3. OtherTypes'
    BY DEF CloseWriter, OtherTypes, kafkaVars
  <2>. QED
    BY <2>1, <2>2, <2>3 DEF CallbackTypes, CacheTypes
<1>8. CASE \E h \in Hashes : DeleteWriter(h)
  <2>. PICK h \in Hashes : DeleteWriter(h)
    BY <1>8
  <2>1. UNCHANGED <<cb, producers>>
    BY DEF DeleteWriter
  <2>2. OtherTypes'
    BY DEF DeleteWriter, OtherTypes, kafkaVars
  <2>3. CacheTypes'
    BY <1>p, <2>1 DEF DeleteWriter, CacheTypes
  <2>. QED
    BY <2>1, <2>2, <2>3 DEF CallbackTypes
<1>9. CASE \E g \in Subs : WritePanics(g)
  <2>. PICK g \in Subs : WritePanics(g)
    BY <1>9
  <2>1. Idle \in Callback /\ Idle.writer = 0 /\ Idle.pc = "idle"
    BY DEF Idle, Callback
  <2>2. /\ cb' = [s \in Subs |-> Idle] /\ producers' = <<>> /\ writers' = [h \in Hashes |-> 0]
        /\ sub' = 0 /\ closing' = FALSE /\ rangeTodo' = {} /\ visiting' = {}
        /\ UNCHANGED <<mode, kafkaUp, outages, sent, skipped, log, acked, subs>>
    BY DEF WritePanics, kafkaVars
  <2>. HIDE DEF Idle
  <2>3. producers' \in Seq(Producer) /\ Len(producers') = 0
    BY <2>2
  <2>4. CallbackTypes'
    <3>1. cb' \in [Subs -> Callback] /\ \A k \in Subs : cb'[k] = Idle
      BY <2>1, <2>2, Zenon
    <3>. QED
      BY <2>1, <2>3, <3>1 DEF CallbackTypes
  <2>5. CacheTypes'
    BY <2>2, <2>3 DEF CacheTypes
  <2>6. OtherTypes'
    <3>1. sub' \in 0..MaxSubs
      BY <2>2, WritersAssumption
    <3>2. closing' \in BOOLEAN
      BY <2>2, Zenon
    <3>. QED
      BY <2>2, <3>1, <3>2, Zenon DEF OtherTypes
  <2>. QED
    BY <2>4, <2>5, <2>6
<1>10. CASE \E S \in Skips : Start(S)
  <2>. PICK S \in Skips : Start(S)
    BY <1>10
  <2>1. /\ UNCHANGED <<mode, kafkaUp, outages, sent, log, cb, producers, writers, closing, rangeTodo, visiting>>
        /\ subs < MaxSubs /\ subs' = subs + 1 /\ sub' = subs + 1
        /\ acked' = acked \/ acked' = {}
        /\ skipped' = S
    BY Zenon DEF Start, kafkaVars, cacheVars
  <2>2. CallbackTypes' /\ CacheTypes'
    BY <2>1, Zenon DEF CallbackTypes, CacheTypes
  <2>3. subs' \in 0..MaxSubs /\ sub' \in 0..MaxSubs
    BY <2>1, WritersAssumption DEF OtherTypes
  <2>4. acked' \subseteq Messages /\ skipped' \subseteq Messages
    BY <2>1, WritersAssumption, Zenon DEF OtherTypes
  <2>. QED
    BY <2>1, <2>2, <2>3, <2>4, Zenon DEF OtherTypes
<1>11. CASE /\ UNCHANGED <<mode, sent, skipped, log, acked, cb, cacheVars>>
            /\ Shutdown \/ Unsubscribe \/ KafkaStep
  <2>1. CallbackTypes' /\ CacheTypes'
    BY <1>11, Zenon DEF CallbackTypes, CacheTypes, cacheVars
  <2>2. ASSUME Shutdown \/ Unsubscribe PROVE OtherTypes'
    <3>1. UNCHANGED <<mode, kafkaUp, outages, sent, skipped, log, acked, subs, visiting>>
      BY <2>2, Zenon DEF Shutdown, Unsubscribe, kafkaVars
    <3>2. sub' \in 0..MaxSubs
      BY <2>2, WritersAssumption DEF Shutdown, Unsubscribe, OtherTypes
    <3>3. closing' \in BOOLEAN /\ rangeTodo' \subseteq Hashes
      BY <2>2, Zenon DEF Shutdown, Unsubscribe, OtherTypes
    <3>. QED
      BY <3>1, <3>2, <3>3, Zenon DEF OtherTypes
  <2>3. ASSUME KafkaStep PROVE OtherTypes'
    <3>1. UNCHANGED <<mode, sent, skipped, log, acked, subs, sub, closing, rangeTodo, visiting>>
      BY <2>3, Zenon DEF KafkaStep, KafkaDown, KafkaUp, shutVars
    <3>2. outages' \in Nat
      BY <2>3 DEF KafkaStep, KafkaDown, KafkaUp, OtherTypes
    <3>3. kafkaUp' \in BOOLEAN
      BY <2>3, Zenon DEF KafkaStep, KafkaDown, KafkaUp
    <3>. QED
      BY <3>1, <3>2, <3>3, Zenon DEF OtherTypes
  <2>. QED
    BY <1>11, <2>1, <2>2, <2>3, Zenon
<1>12. CASE UNCHANGED vars
  BY <1>12 DEF vars, kafkaVars, cacheVars, shutVars, CallbackTypes, CacheTypes, OtherTypes
<1>. QED
  BY <1>1, <1>2, <1>3, <1>4, <1>5, <1>6, <1>7, <1>8, <1>9, <1>10, <1>11, <1>12, NextCases

-----------------------------------------------------------------------------
(* The invariant.                                                          *)

LEMMA InvInit == Init => IInv
<1>. SUFFICES ASSUME Init PROVE IInv
  OBVIOUS
<1>1. TypeOK
  BY TypeInit, Zenon
<1>2. \A g \in Subs : cb[g].pc = "idle"
  BY Zenon DEF Init, Idle
<1>3. CacheIsKeyed
  BY Zenon DEF Init, CacheIsKeyed
<1>4. HeldFitsMessage /\ AckIsDue
  BY <1>2, Zenon DEF HeldFitsMessage, AckIsDue
<1>5. RightTopic /\ AckedIsWritten
  BY Zenon DEF Init, RightTopic, AckedIsWritten
<1>. QED
  BY <1>1, <1>3, <1>4, <1>5, Zenon DEF IInv

LEMMA InvNext == IInv /\ [Next]_vars => IInv'
<1>. SUFFICES ASSUME IInv, [Next]_vars
              PROVE  (CacheIsKeyed /\ HeldFitsMessage /\ RightTopic /\ AckIsDue /\ AckedIsWritten)'
  BY TypeNext DEF IInv
<1>t. TypeOK /\ CacheIsKeyed /\ HeldFitsMessage /\ RightTopic /\ AckIsDue /\ AckedIsWritten
  BY Zenon DEF IInv
<1>c. cb \in [Subs -> Callback] /\ log \in [Topics -> SUBSET Messages] /\ acked \subseteq Messages
  BY <1>t, Zenon DEF TypeOK
<1>x. /\ Len(producers) \in Nat
      /\ \A w \in 1..Len(producers) : producers[w] \in Producer
      /\ \A h \in Hashes : writers[h] # 0 => writers[h] \in 1..Len(producers)
      /\ \A g \in Subs : cb[g].pc \in {"store", "write", "ack"} => cb[g].writer \in 1..Len(producers)
      /\ \A g \in Subs : cb[g] \in Callback
      /\ \A g \in Subs : cb[g].pc # "idle" =>
           Topic(g) \in Topics /\ Key(g) \in Hashes /\ cb[g].msg \in Messages
  BY <1>t, IndexesAreProducers, Zenon
<1>1. CASE \E g \in Subs, m \in Messages : Deliver(g, m)
  <2>. PICK g \in Subs, m \in Messages : Deliver(g, m)
    BY <1>1, Zenon
  <2>1. UNCHANGED <<producers, writers, log, acked>>
    BY Zenon DEF Deliver, cacheVars
  <2>2. cb'[g].pc = "load" /\ \A k \in Subs \ {g} : cb'[k] = cb[k]
    BY <1>c, Zenon DEF Deliver
  <2>3. HeldFitsMessage' /\ AckIsDue'
    BY <1>t, <2>1, <2>2, Zenon DEF HeldFitsMessage, AckIsDue, Topic
  <2>. QED
    BY <1>t, <2>1, <2>3, Zenon DEF CacheIsKeyed, RightTopic, AckedIsWritten
<1>2. CASE \E g \in Subs : LoadWriter(g)
  <2>. PICK g \in Subs : LoadWriter(g)
    BY <1>2, Zenon
  <2>1. UNCHANGED <<producers, writers, log, acked>>
    BY DEF LoadWriter, cacheVars
  <2>2. /\ cb'[g].pc = IF writers[Key(g)] = 0 THEN "create" ELSE "write"
        /\ cb'[g].writer = writers[Key(g)] /\ cb'[g].msg = cb[g].msg
        /\ \A k \in Subs \ {g} : cb'[k] = cb[k]
    BY <1>c, Zenon DEF LoadWriter, Callback
  <2>3. Topic(g) \in Topics /\ Key(g) \in Hashes
    BY <1>x, Zenon DEF LoadWriter
  <2>4. writers[Key(g)] # 0 => producers[writers[Key(g)]].topic = Topic(g)
    <3>. SUFFICES ASSUME writers[Key(g)] # 0 PROVE producers[writers[Key(g)]].topic = Topic(g)
      BY Zenon
    <3>1. producers[writers[Key(g)]].topic \in Topics
      BY <1>x, <2>3, Zenon DEF Producer
    <3>2. Hash[producers[writers[Key(g)]].topic] = Hash[Topic(g)]
      BY <1>t, <2>3, Zenon DEF CacheIsKeyed, Key
    <3>. QED
      BY <2>3, <3>1, <3>2, NoCollision, Zenon
  <2>5. HeldFitsMessage' /\ AckIsDue'
    BY <1>t, <2>1, <2>2, <2>4 DEF HeldFitsMessage, AckIsDue, Topic
  <2>. QED
    BY <1>t, <2>1, <2>5, Zenon DEF CacheIsKeyed, RightTopic, AckedIsWritten
<1>3. CASE \E g \in Subs, ok \in BOOLEAN : NewProducer(g, ok)
  <2>. PICK g \in Subs, ok \in BOOLEAN : NewProducer(g, ok)
    BY <1>3, Zenon
  <2>1. UNCHANGED <<writers, log, acked>>
    BY Zenon DEF NewProducer
  <2>2. /\ cb'[g].pc = "store" /\ cb'[g].writer = Len(producers) + 1 /\ cb'[g].msg = cb[g].msg
        /\ \A k \in Subs \ {g} : cb'[k] = cb[k]
    BY <1>c, Zenon DEF NewProducer, Callback
  <2>3. /\ \A w \in 1..Len(producers) : producers'[w] = producers[w]
        /\ producers'[Len(producers) + 1].topic = Topic(g)
    BY <1>t, NewKeepsProducers, Zenon
  <2>4. CacheIsKeyed'
    BY <1>t, <1>x, <2>1, <2>3, Zenon DEF CacheIsKeyed
  <2>5. HeldFitsMessage'
    BY <1>t, <1>x, <2>2, <2>3 DEF HeldFitsMessage, Topic
  <2>6. AckIsDue'
    BY <1>t, <2>1, <2>2, Zenon DEF AckIsDue, Topic
  <2>. QED
    BY <1>t, <2>1, <2>4, <2>5, <2>6, Zenon DEF RightTopic, AckedIsWritten
<1>4. CASE \E g \in Subs : StoreWriter(g)
  <2>. PICK g \in Subs : StoreWriter(g)
    BY <1>4
  <2>1. UNCHANGED <<producers, log, acked>>
    BY DEF StoreWriter
  <2>2. /\ cb'[g].pc = "write" /\ cb'[g].writer = cb[g].writer /\ cb'[g].msg = cb[g].msg
        /\ \A k \in Subs \ {g} : cb'[k] = cb[k]
    BY <1>c, Zenon DEF StoreWriter, Callback
  <2>3. producers[cb[g].writer].topic = Topic(g) /\ Key(g) \in Hashes
    BY <1>t, <1>x, Zenon DEF StoreWriter, HeldFitsMessage
  <2>4. CacheIsKeyed'
    <3>1. writers \in [Hashes -> Nat]
      BY <1>t, Zenon DEF TypeOK
    <3>2. \A h \in Hashes : writers'[h] = IF h = Key(g) THEN cb[g].writer ELSE writers[h]
      BY <2>3, <3>1, Zenon DEF StoreWriter
    <3>. QED
      BY <1>t, <2>1, <2>3, <3>2, Zenon DEF CacheIsKeyed, Key
  <2>5. HeldFitsMessage' /\ AckIsDue'
    BY <1>t, <2>1, <2>2, <2>3 DEF HeldFitsMessage, AckIsDue, Topic
  <2>. QED
    BY <1>t, <2>1, <2>4, <2>5, Zenon DEF RightTopic, AckedIsWritten
<1>5. CASE \E g \in Subs, ok \in BOOLEAN : Write(g, ok)
  <2>. PICK g \in Subs, ok \in BOOLEAN : Write(g, ok)
    BY <1>5
  <2>1. UNCHANGED <<producers, writers, acked>>
    BY Zenon DEF Write, cacheVars
  <2>2. \A k \in Subs \ {g} : cb'[k] = cb[k]
    BY <1>c, Zenon DEF Write
  <2>3. /\ producers[cb[g].writer].topic = Topic(g) /\ Topic(g) \in Topics
        /\ cb[g].msg \in Messages
    BY <1>t, <1>x, Zenon DEF Write, HeldFitsMessage
  <2>4. CASE ok /\ CanWrite(producers[cb[g].writer])
    <3>1. log' = [log EXCEPT ![Topic(g)] = @ \cup {cb[g].msg}]
      BY <2>3, <2>4, Zenon DEF Write
    <3>2. /\ log'[Topic(g)] = log[Topic(g)] \cup {cb[g].msg}
          /\ \A t \in Topics \ {Topic(g)} : log'[t] = log[t]
      BY <1>c, <2>3, <3>1, Zenon
    <3>3. cb'[g].pc \in {"ack", "idle"} /\ (cb'[g].pc = "ack" => cb'[g].msg = cb[g].msg)
      BY <1>c, <2>4 DEF Write, Callback, Idle
    <3>4. HeldFitsMessage'
      BY <1>t, <2>1, <2>2, <3>3, Zenon DEF HeldFitsMessage, Topic
    <3>5. AckIsDue'
      <4>1. \A m \in Messages : m \in log[Dest[m]] => m \in log'[Dest[m]]
        BY <3>2, WritersAssumption, Zenon
      <4>2. \A k \in Subs \ {g} : cb[k].pc = "ack" => cb[k].msg \in Messages /\ cb[k].msg \in log[Topic(k)]
        BY <1>t, <1>x, Zenon DEF AckIsDue
      <4>. QED
        BY <2>2, <3>2, <3>3, <4>1, <4>2 DEF AckIsDue, Topic
    <3>6. RightTopic'
      BY <1>t, <3>2, Zenon DEF RightTopic, Topic
    <3>7. AckedIsWritten'
      BY <1>c, <1>t, <2>1, <3>2, WritersAssumption, Zenon DEF AckedIsWritten
    <3>. QED
      BY <1>t, <2>1, <3>4, <3>5, <3>6, <3>7, Zenon DEF CacheIsKeyed
  <2>5. CASE ~(ok /\ CanWrite(producers[cb[g].writer]))
    <3>1. UNCHANGED log /\ cb'[g].pc = "idle"
      BY <1>c, <2>5 DEF Write, Idle
    <3>2. HeldFitsMessage' /\ AckIsDue'
      BY <1>t, <2>1, <2>2, <3>1, Zenon DEF HeldFitsMessage, AckIsDue, Topic
    <3>. QED
      BY <1>t, <2>1, <3>1, <3>2, Zenon DEF CacheIsKeyed, RightTopic, AckedIsWritten
  <2>. QED
    BY <2>4, <2>5, Zenon
<1>6. CASE \E g \in Subs : Ack(g)
  <2>. PICK g \in Subs : Ack(g)
    BY <1>6
  <2>1. UNCHANGED <<producers, writers, log>>
    BY Zenon DEF Ack, cacheVars
  <2>2. cb'[g].pc = "idle" /\ \A k \in Subs \ {g} : cb'[k] = cb[k]
    BY <1>c, Zenon DEF Ack, Idle
  <2>3. HeldFitsMessage' /\ AckIsDue'
    BY <1>t, <2>1, <2>2, Zenon DEF HeldFitsMessage, AckIsDue, Topic
  <2>4. AckedIsWritten'
    BY <1>t, <2>1, Zenon DEF Ack, AckIsDue, AckedIsWritten, Topic
  <2>. QED
    BY <1>t, <2>1, <2>3, <2>4, Zenon DEF CacheIsKeyed, RightTopic
<1>7. CASE \E h \in Hashes : CloseWriter(h)
  <2>. PICK h \in Hashes : CloseWriter(h)
    BY <1>7, Zenon
  <2>1. UNCHANGED <<cb, writers, log, acked>>
    BY Zenon DEF CloseWriter
  <2>2. \A w \in 1..Len(producers) : producers'[w].topic = producers[w].topic
    BY <1>t, CloseKeepsProducers, Zenon
  <2>3. CacheIsKeyed'
    BY <1>t, <1>x, <2>1, <2>2, Zenon DEF CacheIsKeyed
  <2>4. HeldFitsMessage'
    BY <1>t, <1>x, <2>1, <2>2, Zenon DEF HeldFitsMessage, Topic
  <2>. QED
    BY <1>t, <2>1, <2>3, <2>4, Zenon DEF AckIsDue, RightTopic, AckedIsWritten, Topic
<1>8. CASE \E h \in Hashes : DeleteWriter(h)
  <2>. PICK h \in Hashes : DeleteWriter(h)
    BY <1>8
  <2>1. UNCHANGED <<cb, producers, log, acked>>
    BY Zenon DEF DeleteWriter
  <2>2. CacheIsKeyed'
    <3>1. writers \in [Hashes -> Nat]
      BY <1>t, Zenon DEF TypeOK
    <3>2. \A k \in Hashes : writers'[k] = IF k = h THEN 0 ELSE writers[k]
      BY <3>1, Zenon DEF DeleteWriter
    <3>. QED
      BY <1>t, <2>1, <3>2, Zenon DEF CacheIsKeyed
  <2>. QED
    BY <1>t, <2>1, <2>2, Zenon DEF HeldFitsMessage, AckIsDue, RightTopic, AckedIsWritten, Topic
<1>9. CASE \E g \in Subs : WritePanics(g)
  <2>. PICK g \in Subs : WritePanics(g)
    BY <1>9
  <2>1. UNCHANGED <<log, acked>> /\ \A h \in Hashes : writers'[h] = 0
    BY Zenon DEF WritePanics
  <2>2. \A k \in Subs : cb'[k].pc = "idle"
    BY Zenon DEF WritePanics, Idle
  <2>. QED
    BY <1>t, <2>1, <2>2, Zenon DEF CacheIsKeyed, HeldFitsMessage, AckIsDue, RightTopic, AckedIsWritten
<1>10. CASE \E S \in Skips : Start(S)
  <2>1. UNCHANGED <<log, cb, producers, writers>> /\ (acked' = acked \/ acked' = {})
    BY <1>10, Zenon DEF Start, cacheVars
  <2>2. AckedIsWritten'
    BY <1>t, <2>1, Zenon DEF AckedIsWritten
  <2>. QED
    BY <1>t, <2>1, <2>2, Zenon DEF CacheIsKeyed, HeldFitsMessage, AckIsDue, RightTopic, Topic
<1>11. CASE UNCHANGED <<log, acked, cb, producers, writers>>
  BY <1>11, <1>t, Zenon DEF CacheIsKeyed, HeldFitsMessage, AckIsDue, RightTopic, AckedIsWritten, Topic
<1>. QED
  BY <1>1, <1>2, <1>3, <1>4, <1>5, <1>6, <1>7, <1>8, <1>9, <1>10, <1>11, NextCases, Zenon DEF vars, cacheVars

-----------------------------------------------------------------------------
(* Theorems.                                                               *)

\* The invariant holds in every behaviour, for any number of subscriptions,
\* topics, Shutdowns and outages.
THEOREM WritersInvariant == Spec => []IInv
<1>. QED
  BY InvInit, InvNext, PTL DEF Spec

\* Every variable keeps its type, and no callback or key ever refers to a
\* producer that was not made (writer, closeWriters).
THEOREM TypeCorrect == Spec => []TypeOK
<1>1. IInv => TypeOK
  BY Zenon DEF IInv
<1>. QED
  BY <1>1, WritersInvariant, PTL

\* A message reaches no topic but its own, though callbacks load, make and
\* store producers without a lock while Shutdown empties the cache.
THEOREM NoMixUp == Spec => []RightTopic
<1>1. IInv => RightTopic
  BY Zenon DEF IInv
<1>. QED
  BY <1>1, WritersInvariant, PTL

\* A message whose acknowledgement JetStream or STAN has is in its topic.
THEOREM AtLeastOnce == Spec => []AckedIsWritten
<1>1. IInv => AckedIsWritten
  BY Zenon DEF IInv
<1>. QED
  BY <1>1, WritersInvariant, PTL

\* What is acknowledged or passed over is seen by the relay only if the
\* subscription is durable.
LEMMA ReleasedChanges ==
  ASSUME mode' = mode
  PROVE  /\ mode # "durable" => /\ {m \in acked : mode = "durable"}' = {m \in acked : mode = "durable"}
                                /\ {m \in skipped : mode = "durable"}' = {m \in skipped : mode = "durable"}
         /\ mode = "durable" => /\ {m \in acked : mode = "durable"} = acked
                                /\ {m \in skipped : mode = "durable"} = skipped
                                /\ {m \in acked : mode = "durable"}' = acked'
                                /\ {m \in skipped : mode = "durable"}' = skipped'
BY Zenon

\* Before the first Start nothing is passed over or acknowledged.
NotStarted == subs = 0 => skipped = {} /\ acked = {} /\ \A g \in Subs : cb[g].pc = "idle"

LEMMA NotStartedNext == IInv /\ NotStarted /\ sub <= subs /\ [Next]_vars => NotStarted' /\ (sub <= subs)'
<1>. SUFFICES ASSUME IInv, NotStarted, sub <= subs, [Next]_vars PROVE NotStarted' /\ sub' <= subs'
  BY Zenon
<1>. subs \in Nat /\ sub \in Nat
  BY WritersAssumption DEF IInv, TypeOK
<1>. \A g \in Subs : g \in Nat /\ g # 0
  BY WritersAssumption DEF Subs
<1>1. CASE \E g \in Subs, m \in Messages : Deliver(g, m)
  BY <1>1 DEF NotStarted, Deliver, shutVars
<1>2. CASE \E g \in Subs : LoadWriter(g) \/ StoreWriter(g) \/ Ack(g)
  BY <1>2, Zenon DEF NotStarted, LoadWriter, StoreWriter, Ack, shutVars
<1>3. CASE \E g \in Subs, ok \in BOOLEAN : NewProducer(g, ok) \/ Write(g, ok)
  BY <1>3, Zenon DEF NotStarted, NewProducer, Write, shutVars
<1>4. CASE \E g \in Subs : WritePanics(g)
  <2>1. UNCHANGED <<subs, skipped, acked>> /\ sub' = 0 /\ \A k \in Subs : cb'[k].pc = "idle"
    BY <1>4 DEF WritePanics, Idle
  <2>. QED
    BY <2>1 DEF NotStarted
<1>5. CASE \E S \in Skips : Start(S)
  <2>1. subs' = subs + 1 /\ sub' = subs + 1
    BY <1>5, Zenon DEF Start
  <2>. QED
    BY <2>1 DEF NotStarted
<1>6. CASE UNCHANGED <<skipped, acked, cb, subs>> /\ (UNCHANGED sub \/ sub' = 0)
  BY <1>6 DEF NotStarted
<1>7. (\E h \in Hashes : CloseWriter(h) \/ DeleteWriter(h)) \/ Shutdown \/ Unsubscribe \/ KafkaStep
      \/ UNCHANGED vars
        => UNCHANGED <<skipped, acked, cb, subs>> /\ (UNCHANGED sub \/ sub' = 0)
  BY DEF CloseWriter, DeleteWriter, Shutdown, Unsubscribe, KafkaStep, KafkaDown, KafkaUp, vars, shutVars
<1>. QED
  BY <1>1, <1>2, <1>3, <1>4, <1>5, <1>6, <1>7, NextCases, Zenon

\* The connector implements the relay: the write of a callback delivers its
\* message, the acknowledgement of a durable subscription releases it, the
\* first Start of one passes over what its start option excludes, and no other
\* step is seen.
THEOREM WritersImplementRelay == Spec => ImplementsRelay
<1>. DEFINE delivered == {m \in Messages : m \in log[Dest[m]]}
            released == {m \in acked : mode = "durable"}
            passed == {m \in skipped : mode = "durable"}
            Inv == IInv /\ NotStarted /\ sub <= subs
<1>1. Init => NATS2Kafka!Init
  BY WritersAssumption, Zenon DEF Init, NATS2Kafka!Init
<1>2. Inv /\ [Next]_vars => [NATS2Kafka!Next]_<<delivered, released, passed>>
  <2>. SUFFICES ASSUME Inv, [Next]_vars
                PROVE  NATS2Kafka!Next \/ UNCHANGED <<delivered, released, passed>>
    BY Zenon
  <2>1. CASE \E g \in Subs, ok \in BOOLEAN : Write(g, ok)
    <3>. PICK g \in Subs, ok \in BOOLEAN : Write(g, ok)
      BY <2>1, Zenon
    <3>1. TypeOK /\ log \in [Topics -> SUBSET Messages]
      BY Zenon DEF IInv, TypeOK
    <3>2. cb[g].msg \in Messages /\ Topic(g) \in Topics
      BY <3>1, IndexesAreProducers, Zenon DEF Write
    <3>3. producers[cb[g].writer].topic = Topic(g)
      BY Zenon DEF Write, IInv, HeldFitsMessage
    <3>4. UNCHANGED <<released, passed>>
      BY Zenon DEF Write, kafkaVars
    <3>5. CASE ok /\ CanWrite(producers[cb[g].writer])
      <4>1. log' = [log EXCEPT ![Topic(g)] = @ \cup {cb[g].msg}]
        BY <3>3, <3>5, Zenon DEF Write
      <4>2. \A m \in Messages : m \in log'[Dest[m]] <=> m \in log[Dest[m]] \/ m = cb[g].msg
        BY <3>1, <3>2, <4>1, WritersAssumption, Zenon DEF Topic
      <4>3. delivered' = delivered \cup {cb[g].msg}
        BY <3>2, <4>2, Zenon
      <4>. QED
        BY <3>2, <3>4, <4>3, Zenon DEF NATS2Kafka!Next, NATS2Kafka!Deliver
    <3>6. CASE ~(ok /\ CanWrite(producers[cb[g].writer]))
      <4>1. UNCHANGED log
        BY <3>6, Zenon DEF Write
      <4>. QED
        BY <3>4, <4>1, Zenon
    <3>. QED
      BY <3>5, <3>6, Zenon
  <2>2. CASE \E g \in Subs : Ack(g)
    <3>. PICK g \in Subs : Ack(g)
      BY <2>2, Zenon
    <3>1. cb[g].msg \in Messages
      BY IndexesAreProducers, Zenon DEF Ack, IInv
    <3>2. cb[g].msg \in delivered
      BY <3>1, Zenon DEF Ack, IInv, AckIsDue, Topic
    <3>3. /\ UNCHANGED <<delivered, mode, skipped>>
          /\ mode = "durable" => acked' = acked \cup {cb[g].msg}
      BY Zenon DEF Ack, kafkaVars
    <3>4. {cb[g].msg} \in SUBSET Messages /\ {cb[g].msg} \subseteq delivered
      BY <3>1, <3>2, Zenon
    <3>5. CASE mode = "durable"
      <4>1. released' = released \cup {cb[g].msg} /\ UNCHANGED <<delivered, passed>>
        BY <3>3, <3>5, Zenon
      <4>2. NATS2Kafka!Release({cb[g].msg})
        BY <3>4, <4>1, Zenon DEF NATS2Kafka!Release
      <4>. QED
        BY <3>4, <4>2, Zenon DEF NATS2Kafka!Next
    <3>6. CASE mode # "durable"
      BY <3>3, <3>6, ReleasedChanges, Zenon
    <3>. QED
      BY <3>5, <3>6, Zenon
  <2>3. CASE \E S \in Skips : Start(S)
    <3>. PICK S \in Skips : Start(S)
      BY <2>3, Zenon
    <3>1. UNCHANGED <<delivered, mode>> /\ skipped' = S
      BY Zenon DEF Start, kafkaVars
    <3>2. CASE mode # "durable"
      BY <3>1, <3>2, ReleasedChanges, Zenon
    <3>3. CASE mode = "durable" /\ subs # 0
      <4>1. UNCHANGED <<acked, skipped>>
        BY <3>3, Zenon DEF Start
      <4>. QED
        BY <3>1, <4>1, Zenon
    <3>4. CASE mode = "durable" /\ subs = 0
      <4>1. skipped = {} /\ acked = {} /\ acked' = {}
        BY <3>4, Zenon DEF Start, NotStarted
      <4>2. released = {} /\ UNCHANGED <<delivered, released>> /\ passed' = passed \cup S
        BY <3>1, <3>4, <4>1, Zenon
      <4>3. S \in SUBSET Messages
        BY WritersAssumption, Zenon
      <4>4. NATS2Kafka!PassOver(S)
        BY <4>2, Zenon DEF NATS2Kafka!PassOver
      <4>. QED
        BY <4>3, <4>4, Zenon DEF NATS2Kafka!Next
    <3>. QED
      BY <3>2, <3>3, <3>4, Zenon
  <2>4. CASE UNCHANGED <<mode, skipped, log, acked>>
    BY <2>4, Zenon
  <2>5. \/ \E g \in Subs, ok \in BOOLEAN : Write(g, ok)
        \/ \E g \in Subs : Ack(g)
        \/ \E S \in Skips : Start(S)
        \/ UNCHANGED <<mode, skipped, log, acked>>
    BY NextCases, Zenon DEF Deliver, LoadWriter, NewProducer, StoreWriter, WritePanics, CloseWriter, DeleteWriter,
       vars, kafkaVars
  <2>. QED
    BY <2>1, <2>2, <2>3, <2>4, <2>5, Zenon
<1>3. Init => Inv
  <2>. SUFFICES ASSUME Init PROVE NotStarted /\ sub <= subs
    BY InvInit
  <2>. QED
    BY DEF Init, NotStarted, Idle
<1>4. Inv /\ [Next]_vars => Inv'
  BY InvNext, NotStartedNext
<1>. HIDE DEF Inv
<1>. QED
  BY <1>1, <1>2, <1>3, <1>4, PTL DEF Spec, ImplementsRelay, NATS2Kafka!Spec
=============================================================================
