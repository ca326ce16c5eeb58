----------------------------- MODULE MCClients -----------------------------
(***************************************************************************)
(* Publishers, connections and subscriptions of the brokers on small       *)
(* instances.  unit names the part that runs; the others rest in their     *)
(* initial states.                                                         *)
(*   writer    the Kafka writers         producer  the RocketMQ producers  *)
(*   nats, mqtt                          map       the subscriber map      *)
(***************************************************************************)
EXTENDS KafkaWriter, TLAPS

CONSTANTS Units, Subs, NoSub, ProducerTopics, MaxProducers, MaxSends, MaxDials, MaxAsking,
          MaxSessions

ASSUME ProducerAssumption == MaxProducers \in Nat /\ MaxSends \in Nat /\ ProducerTopics # {}
ASSUME SubsAssumption == NoSub \notin Subs
ASSUME NatsAssumption == MaxDials \in Nat /\ MaxAsking \in Nat
ASSUME MqttAssumption == MaxSessions \in Nat

VARIABLES unit,
          gup, cached, born, gone, send, sends, arrived, gave,
          drain, nconn, nopen, nup, ndials, natsSub, entry, disc, stopping, sender, asking,
          link, session, redial, hook, mapped, served, leaving, clear, adding, overtaken,
          smap, stopped, topicOf, taking, lost, helper, awaited, failed

producerVars == <<gup, cached, born, gone, send, sends, arrived, gave>>
natsVars     == <<drain, nconn, nopen, nup, ndials, natsSub, entry, disc, stopping, sender, asking>>
mqttVars     == <<link, session, redial, hook, mapped, served, leaving, clear, adding,
                  overtaken>>
mapVars      == <<smap, stopped, topicOf, taking, lost, helper, awaited, failed>>
suiteVars    == <<unit, writerVars, producerVars, natsVars, mqttVars, mapVars>>

------------------------------------------------------------------------------
(* The Kafka writers, for any publishers and topics and any number of writers. *)

\* A writer that a publisher made outside the cache and has not stored yet.
Own(p) == pub[p].pc \in {"retry", "store"}

\* Whose writer is whose.
WritersApart ==
  /\ perTopic => \A t, u \in Topics : cache[t] = cache[u] /\ cache[t] # 0 => t = u
  /\ ~perTopic => \A t, u \in Topics : cache[t] = cache[u]
  /\ \A p \in Publishers, t \in Topics :
       perTopic /\ pub[p].pc # "idle" /\ cache[t] # 0 /\ cache[t] = pub[p].w => t = pub[p].topic
  /\ \A p \in Publishers : Own(p) =>
       pub[p].w # 0 /\ pub[p].w \notin shut /\ \A t \in Topics : cache[t] # pub[p].w
  /\ \A p, q \in Publishers : Own(p) /\ p # q /\ pub[q].pc # "idle" => pub[q].w # pub[p].w

\* What a publisher stores has taken its message.
StoredIsAccepted == \A p \in Publishers : pub[p].pc = "store" => p \in accepted

\* The inductive invariant of the Kafka writers.
WriterInv == TypeOK /\ CachedIsOpen /\ OkIsAccepted /\ WritersApart /\ StoredIsAccepted

\* It holds when the broker is made.
LEMMA WriterInit == Init => WriterInv
<1> SUFFICES ASSUME Init PROVE WriterInv
  OBVIOUS
<1> USE KafkaWriterAssumption
<1>1. made = 0 /\ pub = [p \in Publishers |-> Idle] /\ cache = [t \in Topics |-> 0] /\ shut = {}
  BY DEF Init
<1>2. Idle \in PubRec /\ Idle.pc = "idle" /\ Idle.result = "none"
  BY <1>1 DEF Idle, PubRec
<1>3. perTopic \in BOOLEAN /\ up \in BOOLEAN /\ noMap \in BOOLEAN
  BY Zenon DEF Init
<1>4. pub \in [Publishers -> PubRec] /\ cache \in [Topics -> 0 .. made]
  BY <1>1, <1>2
<1>5. TypeOK
  BY <1>1, <1>3, <1>4 DEF Init, TypeOK
<1> QED
  BY <1>1, <1>2, <1>5 DEF Init, WriterInv, CachedIsOpen, OkIsAccepted, WritersApart, StoredIsAccepted, Own

\* A publish begins: the cached writer, or a new one that is stored at once.
LEMMA WriterBegin ==
  ASSUME WriterInv, NEW p \in Publishers, NEW t \in Topics, Begin(p, t)
  PROVE  WriterInv'
<1> USE KafkaWriterAssumption
<1> DEFINE fresh == cache[t] = 0
           w == IF fresh THEN made + 1 ELSE cache[t]
           rec == [pc |-> "write", topic |-> t, w |-> w, cached |-> ~fresh, tries |-> 0,
                   result |-> "none"]
<1>1. /\ made' = IF fresh THEN made + 1 ELSE made
      /\ cache' = IF fresh THEN [s \in Topics |-> IF s \in Slots(t) THEN w ELSE cache[s]] ELSE cache
      /\ pub' = [pub EXCEPT ![p] = rec]
      /\ calls' = calls + 1 /\ calls < MaxCalls /\ accepted' = accepted \ {p}
      /\ wpanic' \in {wpanic, "nilMap"}
      /\ UNCHANGED <<perTopic, up, noMap, shut>>
  BY DEF Begin, CreateProducer, Stored
<1>2. TypeOK /\ made \in Nat /\ made' \in Nat /\ made <= made' /\ w \in 1 .. made'
  BY <1>1 DEF WriterInv, TypeOK
<1>3. rec \in PubRec' /\ PubRec \subseteq PubRec'
  BY <1>1, <1>2 DEF PubRec
<1> HIDE DEF w, rec
<1>4. TypeOK'
  BY <1>1, <1>2, <1>3 DEF TypeOK
<1>5. /\ \A s \in Topics : cache'[s] = IF fresh /\ s \in Slots(t) THEN w ELSE cache[s]
      /\ \A q \in Publishers : pub'[q] = IF q = p THEN rec ELSE pub[q]
      /\ rec.pc = "write" /\ rec.w = w /\ rec.topic = t /\ rec.result = "none"
      /\ \A s \in Topics : cache[s] \in 0 .. made
      /\ \A q \in Publishers : pub[q].w \in 0 .. made
      /\ shut \subseteq 1 .. made /\ (fresh => w = made + 1) /\ (~fresh => w = cache[t])
  BY <1>1, <1>2 DEF TypeOK, PubRec, rec, w
<1> HIDE DEF fresh
<1> USE <1>1, <1>2, <1>5 DEF WriterInv
<1>6. CachedIsOpen' /\ OkIsAccepted' /\ StoredIsAccepted'
  BY DEF CachedIsOpen, OkIsAccepted, StoredIsAccepted
<1>7. WritersApart'
  BY DEF WritersApart, Own, Slots, CachedIsOpen
<1> QED
  BY <1>4, <1>6, <1>7

\* Connect and Disconnect, which closes what is cached and empties the cache.
LEMMA WriterConnections == ASSUME WriterInv, Connect \/ Disconnect PROVE WriterInv'
<1>1. CASE Connect
  BY <1>1 DEF Connect, WriterInv, TypeOK, PubRec, CachedIsOpen, OkIsAccepted, StoredIsAccepted,
     WritersApart, Own
<1>2. CASE Disconnect
  <2>1. /\ \A t \in Topics : cache'[t] = 0
        /\ shut' = shut \union ({cache[t] : t \in Topics} \ {0})
        /\ cache' = [t \in Topics |-> 0] /\ up' = FALSE /\ noMap' = TRUE
        /\ UNCHANGED <<perTopic, made, pub, calls, accepted, wpanic>>
    BY <1>2 DEF Disconnect, Close
  <2>2. shut' \subseteq 1 .. made
    <3>1. made \in Nat /\ shut \subseteq 1 .. made /\ \A t \in Topics : cache[t] \in 0 .. made
      BY DEF WriterInv, TypeOK
    <3>2. shut' = shut \union ({cache[t] : t \in Topics} \ {0})
      BY <2>1
    <3>3. ASSUME NEW x \in shut' PROVE x \in 1 .. made
      BY <3>1, <3>2, <3>3
    <3> QED
      BY <3>3
  <2>3. up' \in BOOLEAN /\ noMap' \in BOOLEAN
    BY <2>1, Zenon
  <2>4. TypeOK'
    BY <2>1, <2>2, <2>3 DEF WriterInv, TypeOK, PubRec
  <2>5. WritersApart'
    BY <2>1 DEF WriterInv, WritersApart, Own
  <2> QED
    BY <2>1, <2>2, <2>4, <2>5 DEF WriterInv, CachedIsOpen, OkIsAccepted, StoredIsAccepted
<1> QED
  BY <1>1, <1>2

\* A publisher that only moves on: the writers stay where they are.
LEMMA WriterWrites ==
  ASSUME WriterInv, NEW p \in Publishers, Write(p) \/ Again(p)
  PROVE  WriterInv'
<1>1. /\ UNCHANGED <<perTopic, up, cache, noMap, made, shut, calls>>
      /\ pub[p].pc \in {"write", "again"}
      /\ \/ /\ pub' = [pub EXCEPT ![p].pc = "idle", ![p].result = "ok"]
            /\ accepted' = accepted \union {p} /\ wpanic' = wpanic
         \/ /\ pub' = [pub EXCEPT ![p].pc = "idle", ![p].result = "error"]
            /\ accepted' = accepted /\ wpanic' = wpanic
         \/ /\ pub' = [pub EXCEPT ![p].pc = "swap"] /\ accepted' = accepted /\ wpanic' = wpanic
         \/ /\ pub' = [pub EXCEPT ![p].pc = "again"] /\ accepted' = accepted /\ wpanic' = wpanic
         \/ /\ pub' = pub /\ accepted' = accepted /\ wpanic' = "nilWriter"
  BY DEF Write, Again, Took, Returns, writeOnly
<1>2. /\ \A q \in Publishers : q # p => pub'[q] = pub[q]
      /\ pub'[p].pc \in {"idle", "swap", "again", pub[p].pc}
      /\ pub'[p].w = pub[p].w /\ pub'[p].topic = pub[p].topic
      /\ pub'[p].result = "ok" => p \in accepted' \/ pub'[p].result = pub[p].result
  BY <1>1 DEF WriterInv, TypeOK, PubRec
<1>3. pub' \in [Publishers -> PubRec]
  BY <1>1 DEF WriterInv, TypeOK, PubRec
<1>4. TypeOK'
  BY <1>1, <1>3 DEF WriterInv, TypeOK, PubRec
<1>5. WritersApart'
  BY <1>1, <1>2 DEF WriterInv, WritersApart, Own
<1> QED
  BY <1>1, <1>2, <1>4, <1>5 DEF WriterInv, CachedIsOpen, OkIsAccepted, StoredIsAccepted

\* A publisher closes the writer it found broken and makes one of its own.
LEMMA WriterSwap == ASSUME WriterInv, NEW p \in Publishers, Swap(p) PROVE WriterInv'
<1> USE KafkaWriterAssumption
<1>1. CASE Target(p) = 0
  BY <1>1 DEF Swap, WriterInv, TypeOK, PubRec, CachedIsOpen, OkIsAccepted, StoredIsAccepted,
     WritersApart, Own
<1>2. CASE Target(p) # 0
  <2>1. /\ shut' = shut \union {Target(p)} /\ made' = made + 1
        /\ cache' = [s \in Topics |-> IF s \in Slots(pub[p].topic) THEN 0 ELSE cache[s]]
        /\ Retries = 0 => pub' = [pub EXCEPT ![p].pc = "idle", ![p].result = "ok"]
        /\ Retries # 0 => pub' = [pub EXCEPT ![p].pc = "retry", ![p].w = made + 1]
        /\ pub[p].pc = "swap"
        /\ UNCHANGED <<perTopic, up, noMap, calls, accepted, wpanic>>
    BY <1>2 DEF Swap, Stored, CreateProducer, Returns
  <2>2. TypeOK /\ made \in Nat /\ made' \in Nat /\ Target(p) \in 1 .. made
    BY <1>2, <2>1 DEF WriterInv, TypeOK, PubRec, Target
  <2>3. pub' \in [Publishers -> PubRec']
    <3>1. PubRec \subseteq PubRec'
      BY <2>1, <2>2 DEF PubRec
    <3>2. pub \in [Publishers -> PubRec']
      BY <2>2, <3>1 DEF TypeOK
    <3>3. CASE Retries = 0
      <4>1. pub' = [pub EXCEPT ![p].pc = "idle", ![p].result = "ok"]
        BY <2>1, <3>3
      <4>2. [pub[p] EXCEPT !.pc = "idle", !.result = "ok"] \in PubRec'
        BY <3>2, Zenon DEF PubRec
      <4> QED
        BY <3>2, <4>1, <4>2
    <3>4. CASE Retries # 0
      <4>1. pub' = [pub EXCEPT ![p].pc = "retry", ![p].w = made + 1]
        BY <2>1, <3>4
      <4>2. made + 1 \in 0 .. made'
        BY <2>1, <2>2
      <4> QED
        BY <3>2, <4>1, <4>2, ZenonT(30) DEF PubRec
    <3> QED
      BY <3>3, <3>4
  <2>4. TypeOK'
    BY <2>1, <2>2, <2>3 DEF TypeOK
  <2>5. /\ \A s \in Topics : cache'[s] = IF s \in Slots(pub[p].topic) THEN 0 ELSE cache[s]
        /\ \A q \in Publishers : q # p => pub'[q] = pub[q]
        /\ Retries = 0 => pub'[p].pc = "idle"
        /\ Retries # 0 => pub'[p].pc = "retry" /\ pub'[p].result = pub[p].result
        /\ pub'[p].pc = "retry" => pub'[p].w = made + 1
        /\ pub'[p].topic = pub[p].topic /\ pub[p].topic \in Topics
        /\ \A s \in Topics : cache[s] \in 0 .. made
        /\ \A q \in Publishers : pub[q].w \in 0 .. made
        /\ shut \subseteq 1 .. made
        /\ UNCHANGED <<perTopic, accepted>> /\ shut' = shut \union {Target(p)} /\ pub[p].pc = "swap"
    BY <2>1, <2>2 DEF TypeOK, PubRec
  <2>6. CachedIsOpen'
    BY <2>1, <2>2, <2>5 DEF WriterInv, CachedIsOpen, WritersApart, Slots, Target
  <2>7. OkIsAccepted' /\ StoredIsAccepted'
    BY <2>5 DEF WriterInv, OkIsAccepted, StoredIsAccepted
  <2>8. WritersApart'
    <3>1. ASSUME NEW q \in Publishers, Own(q)', q # p
          PROVE  pub[q].w # Target(p)
      BY <2>5, <3>1 DEF WriterInv, WritersApart, Own, Target
    <3>2. (perTopic => \A t, u \in Topics : cache[t] = cache[u] /\ cache[t] # 0 => t = u)'
          /\ (~perTopic => \A t, u \in Topics : cache[t] = cache[u])'
      BY <2>5 DEF WriterInv, WritersApart, Slots
    <3>3. ASSUME NEW q \in Publishers, NEW t \in Topics, perTopic, pub'[q].pc # "idle",
                 cache'[t] # 0, cache'[t] = pub'[q].w
          PROVE  t = pub'[q].topic
      BY <2>2, <2>5, <3>3 DEF WriterInv, WritersApart, Slots
    <3>4. ASSUME NEW q \in Publishers, Own(q)'
          PROVE  /\ pub'[q].w # 0 /\ pub'[q].w \notin shut' /\ \A t \in Topics : cache'[t] # pub'[q].w
                 /\ \A r \in Publishers : q # r /\ pub'[r].pc # "idle" => pub'[r].w # pub'[q].w
      <4>1. CASE q = p
        BY <2>2, <2>5, <3>4, <4>1 DEF Own
      <4>2. CASE q # p
        BY <2>2, <2>5, <3>1, <3>4, <4>2 DEF WriterInv, WritersApart, Own
      <4> QED
        BY <4>1, <4>2
    <3> QED
      BY <2>5, <3>2, <3>3, <3>4 DEF WritersApart
  <2> QED
    BY <2>4, <2>6, <2>7, <2>8 DEF WriterInv
<1> QED
  BY <1>1, <1>2

\* A publisher writes again, on the writer that is its own.
LEMMA WriterRetry == ASSUME WriterInv, NEW p \in Publishers, Retry(p) PROVE WriterInv'
<1> USE KafkaWriterAssumption
<1>1. /\ pub[p].pc = "retry" /\ UNCHANGED <<perTopic, up, cache, noMap, made, calls, wpanic>>
      /\ \/ /\ pub' = [pub EXCEPT ![p].pc = "store"] /\ shut' = shut
            /\ accepted' = accepted \union {p}
         \/ /\ pub' = [pub EXCEPT ![p].tries = @ + 1] /\ shut' = shut /\ accepted' = accepted
            /\ pub[p].tries + 1 < Retries
         \/ /\ pub' = [pub EXCEPT ![p].pc = "idle", ![p].result = "error"]
            /\ shut' = shut \union {pub[p].w} /\ accepted' = accepted
  BY DEF Retry, Took, Returns
<1>2. /\ pub[p].w \in 1 .. made /\ pub[p].w \notin shut /\ \A t \in Topics : cache[t] # pub[p].w
      /\ \A q \in Publishers : Own(q) /\ q # p => pub[q].w # pub[p].w
  BY <1>1 DEF WriterInv, TypeOK, PubRec, WritersApart, Own
<1>3. pub' \in [Publishers -> PubRec]
  BY <1>1 DEF WriterInv, TypeOK, PubRec
<1>4. TypeOK'
  BY <1>1, <1>2, <1>3 DEF WriterInv, TypeOK, PubRec
<1>5. /\ \A q \in Publishers : q # p => pub'[q] = pub[q]
      /\ pub'[p].w = pub[p].w /\ pub'[p].topic = pub[p].topic
      /\ pub'[p].pc \in {"retry", "store", "idle"}
      /\ pub'[p].pc = "store" => p \in accepted'
      /\ pub'[p].pc # "idle" => shut' = shut /\ pub'[p].result = pub[p].result
      /\ pub'[p].pc = "idle" => shut' = shut \union {pub[p].w} /\ pub'[p].result = "error"
  BY <1>1 DEF WriterInv, TypeOK, PubRec
<1>6. WritersApart'
  BY <1>1, <1>2, <1>5 DEF WriterInv, WritersApart, Own
<1>7. CachedIsOpen' /\ OkIsAccepted' /\ StoredIsAccepted'
  BY <1>1, <1>2, <1>5 DEF WriterInv, CachedIsOpen, OkIsAccepted, StoredIsAccepted
<1> QED
  BY <1>4, <1>6, <1>7 DEF WriterInv

\* Its writer goes into the cache; one that is there by now is closed.
LEMMA WriterStore == ASSUME WriterInv, NEW p \in Publishers, Store(p) PROVE WriterInv'
<1>1. /\ pub[p].pc = "store" /\ pub' = [pub EXCEPT ![p].pc = "idle", ![p].result = "ok"]
      /\ cache' = [s \in Topics |-> IF s \in Slots(pub[p].topic) THEN pub[p].w ELSE cache[s]]
      /\ wpanic' \in {wpanic, "nilMap"}
      /\ UNCHANGED <<perTopic, up, noMap, made, shut, calls, accepted>>
  BY DEF Store, Stored, Returns
<1>2. pub[p] \in PubRec /\ pub[p].w \in 0 .. made /\ pub' \in [Publishers -> PubRec]
  <2>1. pub \in [Publishers -> PubRec]
    BY DEF WriterInv, TypeOK
  <2> QED
    BY <1>1, <2>1, ZenonT(30) DEF PubRec
<1>3. TypeOK'
  BY <1>1, <1>2 DEF WriterInv, TypeOK, PubRec
<1>4. /\ \A q \in Publishers : q # p => pub'[q] = pub[q]
      /\ pub'[p].pc = "idle" /\ pub[p].topic \in Topics
      /\ \A s \in Topics : cache'[s] = IF s \in Slots(pub[p].topic) THEN pub[p].w ELSE cache[s]
      /\ UNCHANGED <<perTopic, shut>>
  BY <1>1, <1>2 DEF WriterInv, TypeOK, PubRec
<1>5. WritersApart'
  <2>1. /\ pub[p].w # 0 /\ pub[p].w \notin shut /\ \A t \in Topics : cache[t] # pub[p].w
        /\ \A q \in Publishers : q # p /\ pub[q].pc # "idle" => pub[q].w # pub[p].w
    BY <1>1 DEF WriterInv, WritersApart, Own
  <2> QED
    BY <1>4, <2>1 DEF WriterInv, WritersApart, Own, Slots
<1>6. CachedIsOpen' /\ OkIsAccepted' /\ StoredIsAccepted'
  BY <1>1, <1>4, Zenon DEF WriterInv, WritersApart, Own, CachedIsOpen, OkIsAccepted, StoredIsAccepted
<1> QED
  BY <1>3, <1>5, <1>6 DEF WriterInv

\* Every step of the Kafka writers preserves the invariant.
LEMMA WriterStep == WriterInv /\ [Next]_writerVars => WriterInv'
<1> SUFFICES ASSUME WriterInv, [Next]_writerVars PROVE WriterInv'
  OBVIOUS
<1>1. CASE UNCHANGED writerVars
  BY <1>1 DEF writerVars, WriterInv, TypeOK, PubRec, CachedIsOpen, OkIsAccepted, StoredIsAccepted,
     WritersApart, Own
<1> QED
  BY <1>1, WriterBegin, WriterConnections, WriterWrites, WriterSwap, WriterRetry, WriterStore
     DEF Next, Publishing

\* For any number of publishers and topics: no writer in the cache is closed, however
\* publishers replace broken writers under each other and race Disconnect, and a
\* Publish that returned nil has had its message taken by a writer.
THEOREM WritersAreSafe == Spec => [](CachedIsOpen /\ OkIsAccepted)
<1>1. WriterInv => CachedIsOpen /\ OkIsAccepted
  BY DEF WriterInv
<1> QED
  BY <1>1, WriterInit, WriterStep, PTL DEF Spec

------------------------------------------------------------------------------
(* The RocketMQ producers, for any publishers and topics and any number of them. *)
G == INSTANCE RocketProducer WITH Topics <- ProducerTopics

\* A publisher that holds a producer; one whose producer nobody else has.
Holds(p) == send[p].at \in {"send", "drop", "resend", "store"}
Renewed(p) == send[p].at \in {"resend", "store"}

\* Producers are numbered as they are made.  No two topics share one; what a publisher
\* holds is cached for its own topic at most, and what it made anew is open, not
\* cached and held by nobody else.
ProducersApart ==
  /\ \A t \in ProducerTopics : cached[t] \in 0 .. born
  /\ \A p \in Publishers : send[p].by \in 0 .. born
  /\ gone \subseteq 1 .. born
  /\ \A t, u \in ProducerTopics : cached[t] = cached[u] /\ cached[t] # 0 => t = u
  /\ \A p \in Publishers : Holds(p) => send[p].by # 0
  /\ \A p \in Publishers : send[p].at # "idle" => send[p].call # 0
  /\ \A p \in Publishers, t \in ProducerTopics :
       Holds(p) /\ cached[t] = send[p].by => t = send[p].topic
  /\ \A p \in Publishers : Renewed(p) =>
       send[p].by \notin gone /\ \A t \in ProducerTopics : cached[t] # send[p].by
  /\ \A p, q \in Publishers : Renewed(p) /\ p # q /\ Holds(q) => send[q].by # send[p].by

\* The inductive invariant of the RocketMQ producers.
ProducerInv == G!TypeOK /\ G!CachedIsOpen /\ G!OkIsAccepted /\ ProducersApart

\* A publisher at rest holds no producer.
LEMMA RestingHasNone == G!Resting \in G!SendRec /\ G!Resting.at = "idle" /\ G!Resting.by = 0
  BY ProducerAssumption DEF G!Resting, G!SendRec

\* It holds when the broker is made.
LEMMA ProducerInit == G!Init => ProducerInv
<1> SUFFICES ASSUME G!Init PROVE ProducerInv
  OBVIOUS
<1> USE ProducerAssumption
<1>1. /\ send = [p \in Publishers |-> G!Resting] /\ cached = [t \in ProducerTopics |-> 0]
      /\ gone = {} /\ born = 0 /\ sends = 0 /\ arrived = {}
  BY DEF G!Init
<1>2. G!Resting \in G!SendRec /\ G!Resting.at = "idle" /\ G!Resting.by = 0
  BY RestingHasNone
<1>3. gup \in BOOLEAN /\ gave \in BOOLEAN
  BY Zenon DEF G!Init
<1>4. send \in [Publishers -> G!SendRec] /\ cached \in [ProducerTopics -> 0 .. MaxProducers]
  BY <1>1, <1>2
<1>5. G!TypeOK
  BY <1>1, <1>3, <1>4 DEF G!TypeOK
<1>6. ProducersApart
  BY <1>1, <1>2 DEF ProducersApart, Holds, Renewed
<1> QED
  BY <1>1, <1>2, <1>5, <1>6 DEF ProducerInv, G!CachedIsOpen, G!OkIsAccepted

\* A publisher comes by a producer: the cached one, or one it makes.
LEMMA ProducerTake ==
  ASSUME ProducerInv, NEW p \in Publishers, NEW t \in ProducerTopics, NEW ok \in BOOLEAN,
         G!Take(p, t, ok)
  PROVE  ProducerInv'
<1> USE ProducerAssumption
<1> DEFINE rec(n, r) == [at |-> "send", topic |-> t, by |-> n, call |-> sends + 1, reused |-> r]
<1>1. /\ UNCHANGED <<gup, gone, arrived, gave>> /\ send[p].at = "idle"
      /\ sends' = sends + 1 /\ sends < MaxSends
      /\ \/ cached[t] # 0 /\ UNCHANGED <<cached, born>> /\ send' = [send EXCEPT ![p] = rec(cached[t], TRUE)]
         \/ /\ cached[t] = 0 /\ born < MaxProducers /\ born' = born + 1
            /\ cached' = [cached EXCEPT ![t] = born + 1]
            /\ send' = [send EXCEPT ![p] = rec(born + 1, FALSE)]
         \/ UNCHANGED <<cached, born, send>>
  BY DEF G!Take
<1>2. /\ G!TypeOK /\ ProducersApart /\ born \in 0 .. MaxProducers /\ sends' \in 1 .. MaxSends
      /\ \A s \in ProducerTopics : cached[s] \in 0 .. born
      /\ \A q \in Publishers : send[q].by \in 0 .. born
      /\ gone \subseteq 1 .. born
  BY <1>1 DEF ProducerInv, G!TypeOK, ProducersApart
<1>3. CASE UNCHANGED <<cached, born, send>>
  <2>1. G!TypeOK'
    BY <1>1, <1>2, <1>3 DEF G!TypeOK
  <2>2. ProducersApart'
    BY <1>1, <1>2, <1>3 DEF ProducersApart, Holds, Renewed
  <2>3. G!CachedIsOpen' /\ G!OkIsAccepted'
    BY <1>1, <1>3 DEF ProducerInv, G!CachedIsOpen, G!OkIsAccepted
  <2> QED
    BY <2>1, <2>2, <2>3 DEF ProducerInv
<1>4. ASSUME NEW n \in 1 .. MaxProducers, NEW r \in BOOLEAN, send' = [send EXCEPT ![p] = rec(n, r)],
             \/ n = cached[t] /\ UNCHANGED <<cached, born>>
             \/ /\ cached[t] = 0 /\ n = born + 1 /\ born' = n /\ born < MaxProducers
                /\ cached' = [cached EXCEPT ![t] = n]
      PROVE  ProducerInv'
  <2>1. rec(n, r) \in G!SendRec
    BY <1>1, <1>2, <1>4 DEF G!SendRec
  <2>2. send' \in [Publishers -> G!SendRec] /\ cached' \in [ProducerTopics -> 0 .. MaxProducers]
    BY <1>4, <2>1, <1>2 DEF G!TypeOK
  <2>3. G!TypeOK'
    BY <1>1, <1>2, <1>4, <2>2 DEF G!TypeOK
  <2>4. /\ \A q \in Publishers : q # p => send'[q] = send[q]
        /\ send'[p].at = "send" /\ send'[p].by = n /\ send'[p].topic = t /\ send'[p].call = sends + 1
        /\ \A s \in ProducerTopics : s # t => cached'[s] = cached[s]
        /\ cached'[t] = n /\ n \in 1 .. born' /\ born <= born' /\ born' \in Nat
        /\ cached[t] # n => cached[t] = 0 /\ n = born + 1
        /\ UNCHANGED <<gone, arrived, gave>>
    BY <1>1, <1>2, <1>4 DEF G!TypeOK
  <2>5. ProducersApart'
    <3>1. /\ \A s \in ProducerTopics : cached'[s] \in 0 .. born'
          /\ \A q \in Publishers : send'[q].by \in 0 .. born'
          /\ gone' \subseteq 1 .. born'
      BY <1>2, <2>4
    <3>2. \A s, u \in ProducerTopics : cached'[s] = cached'[u] /\ cached'[s] # 0 => s = u
      BY <1>2, <2>4, SMTT(30) DEF ProducersApart
    <3>3. \A q \in Publishers : (Holds(q)' => send'[q].by # 0) /\ (send'[q].at # "idle" => send'[q].call # 0)
      BY <1>1, <1>2, <2>4 DEF ProducersApart, Holds
    <3>4. ASSUME NEW q \in Publishers, NEW s \in ProducerTopics, Holds(q)', cached'[s] = send'[q].by
          PROVE  s = send'[q].topic
      BY <1>2, <2>4, <3>4 DEF ProducersApart, Holds
    <3>5. ASSUME NEW q \in Publishers, Renewed(q)'
          PROVE  send'[q].by \notin gone' /\ \A s \in ProducerTopics : cached'[s] # send'[q].by
      BY <1>2, <2>4, <3>5 DEF ProducersApart, Renewed
    <3>6. ASSUME NEW q \in Publishers, NEW o \in Publishers, Renewed(q)', q # o, Holds(o)'
          PROVE  send'[o].by # send'[q].by
      BY <1>2, <2>4, <3>6 DEF ProducersApart, Renewed, Holds
    <3> QED
      BY <3>1, <3>2, <3>3, <3>4, <3>5, <3>6 DEF ProducersApart
  <2>6. G!CachedIsOpen' /\ G!OkIsAccepted'
    BY <1>2, <2>4 DEF ProducerInv, G!CachedIsOpen, G!OkIsAccepted
  <2> QED
    BY <2>3, <2>5, <2>6 DEF ProducerInv
<1>5. cached[t] # 0 => cached[t] \in 1 .. MaxProducers
  BY <1>2
<1>6. CASE cached[t] # 0 /\ UNCHANGED <<cached, born>> /\ send' = [send EXCEPT ![p] = rec(cached[t], TRUE)]
  BY <1>4, <1>5, <1>6, Zenon
<1>7. CASE /\ cached[t] = 0 /\ born < MaxProducers /\ born' = born + 1
           /\ cached' = [cached EXCEPT ![t] = born + 1]
           /\ send' = [send EXCEPT ![p] = rec(born + 1, FALSE)]
  <2>1. born + 1 \in 1 .. MaxProducers
    BY <1>2, <1>7
  <2> QED
    BY <1>4, <1>7, <2>1, Zenon
<1> HIDE DEF rec
<1> QED
  BY <1>1, <1>3, <1>6, <1>7, Zenon

\* A publisher that moves on with the producer it has.
LEMMA ProducerMoves ==
  ASSUME ProducerInv, NEW p \in Publishers, NEW x \in {"ok", "drop", "failed", "store"},
         send' = [send EXCEPT ![p].at = x], send[p].at # "idle",
         UNCHANGED <<gup, cached, born, gone, sends, gave>>,
         arrived' = arrived \/ arrived' = arrived \union {send[p].call},
         x = "drop" => send[p].at = "send", x = "store" => send[p].at = "resend",
         x \in {"ok", "store"} => send[p].call \in arrived'
  PROVE  ProducerInv'
<1> USE ProducerAssumption
<1>1. G!TypeOK /\ ProducersApart /\ send[p] \in G!SendRec /\ send[p].call \in 1 .. MaxSends
  BY DEF ProducerInv, G!TypeOK, G!SendRec, ProducersApart
<1>2. [send[p] EXCEPT !.at = x] \in G!SendRec
  BY <1>1 DEF G!SendRec
<1>3. send' \in [Publishers -> G!SendRec]
  BY <1>1, <1>2 DEF G!TypeOK
<1>4. G!TypeOK'
  BY <1>1, <1>3 DEF G!TypeOK
<1>5. /\ \A q \in Publishers : q # p => send'[q] = send[q]
      /\ send'[p].at = x /\ send'[p].by = send[p].by /\ send'[p].topic = send[p].topic
      /\ send'[p].call = send[p].call
  BY <1>1 DEF G!TypeOK, G!SendRec
<1>6. ProducersApart'
  BY <1>1, <1>5 DEF ProducersApart, Holds, Renewed
<1>7. G!CachedIsOpen' /\ G!OkIsAccepted'
  BY <1>5 DEF ProducerInv, G!CachedIsOpen, G!OkIsAccepted
<1> QED
  BY <1>4, <1>6, <1>7 DEF ProducerInv

\* The steps of a publish after that: send, drop, make anew, send again, store.
LEMMA ProducerPublishing ==
  ASSUME ProducerInv, NEW p \in Publishers, G!Publishing(p)
  PROVE  ProducerInv'
<1> USE ProducerAssumption
<1>t. /\ G!TypeOK /\ ProducersApart /\ send[p] \in G!SendRec /\ send \in [Publishers -> G!SendRec]
      /\ send[p].topic \in ProducerTopics /\ born \in 0 .. MaxProducers
      /\ cached \in [ProducerTopics -> 0 .. MaxProducers]
  BY DEF ProducerInv, G!TypeOK, G!SendRec
<1>1. ASSUME NEW reached \in BOOLEAN, NEW ok \in BOOLEAN, G!Send(p, reached, ok) PROVE ProducerInv'
  BY <1>1, ProducerMoves, Zenon DEF G!Send, G!SendSync
<1>2. ASSUME NEW reached \in BOOLEAN, NEW ok \in BOOLEAN, G!Resend(p, reached, ok) PROVE ProducerInv'
  BY <1>2, ProducerMoves, Zenon DEF G!Resend, G!SendSync
<1>3. CASE G!Renew(p, FALSE)
  BY <1>3, ProducerMoves DEF G!Renew
<1>4. CASE G!Renew(p, TRUE)
  <2>1. /\ born < MaxProducers /\ born' = born + 1 /\ send[p].at = "renew"
        /\ send' = [send EXCEPT ![p].by = born + 1, ![p].at = "resend"]
        /\ UNCHANGED <<gup, cached, gone, sends, arrived, gave>>
    BY <1>4 DEF G!Renew
  <2>2. [send[p] EXCEPT !.by = born + 1, !.at = "resend"] \in G!SendRec
    BY <1>t, <2>1 DEF G!SendRec
  <2>3. send' \in [Publishers -> G!SendRec]
    BY <1>t, <2>1, <2>2
  <2>4. G!TypeOK'
    BY <1>t, <2>1, <2>3 DEF G!TypeOK
  <2>5. /\ \A q \in Publishers : q # p => send'[q] = send[q]
        /\ send'[p].at = "resend" /\ send'[p].by = born + 1 /\ send'[p].topic = send[p].topic
        /\ send'[p].call = send[p].call /\ send[p].at = "renew" /\ born' = born + 1
        /\ UNCHANGED <<cached, gone, arrived, gave>>
    BY <1>t, <2>1 DEF G!SendRec
  <2>6. ProducersApart'
    BY <1>t, <2>5 DEF ProducersApart, Holds, Renewed
  <2>7. G!CachedIsOpen' /\ G!OkIsAccepted'
    BY <2>5 DEF ProducerInv, G!CachedIsOpen, G!OkIsAccepted
  <2> QED
    BY <2>4, <2>6, <2>7 DEF ProducerInv
<1>5. CASE G!Drop(p)
  <2>1. /\ send[p].at = "drop" /\ gone' = gone \union {send[p].by}
        /\ cached' = [cached EXCEPT ![send[p].topic] = 0]
        /\ send' = [send EXCEPT ![p].at = "renew"]
        /\ UNCHANGED <<gup, born, sends, arrived, gave>>
    BY <1>5 DEF G!Drop
  <2>2. [send[p] EXCEPT !.at = "renew"] \in G!SendRec
    BY <1>t DEF G!SendRec
  <2>3. send' \in [Publishers -> G!SendRec] /\ cached' \in [ProducerTopics -> 0 .. MaxProducers]
    BY <1>t, <2>1, <2>2
  <2>4. /\ \A q \in Publishers : q # p => send'[q] = send[q]
        /\ send'[p].at = "renew" /\ send'[p].by = send[p].by /\ send'[p].topic = send[p].topic
        /\ send'[p].call = send[p].call /\ send[p].at = "drop"
        /\ \A s \in ProducerTopics : cached'[s] = IF s = send[p].topic THEN 0 ELSE cached[s]
        /\ gone' = gone \union {send[p].by} /\ send[p].by \in 1 .. born
        /\ UNCHANGED <<born, arrived, gave>>
    BY <1>t, <2>1 DEF G!SendRec, ProducersApart, Holds
  <2>5. gone' \subseteq 1 .. born
    <3>1. gone \subseteq 1 .. born
      BY <1>t DEF ProducersApart
    <3> QED
      BY <2>4, <3>1, Zenon
  <2>6. G!TypeOK'
    BY <1>t, <2>1, <2>3, <2>5 DEF G!TypeOK
  <2>7. ProducersApart'
    <3>1. /\ \A s \in ProducerTopics : cached'[s] \in 0 .. born'
          /\ \A q \in Publishers : send'[q].by \in 0 .. born'
          /\ \A s, u \in ProducerTopics : cached'[s] = cached'[u] /\ cached'[s] # 0 => s = u
          /\ \A q \in Publishers : (Holds(q)' => send'[q].by # 0) /\ (send'[q].at # "idle" => send'[q].call # 0)
      BY <1>t, <2>4 DEF ProducersApart, Holds
    <3>2. \A q \in Publishers, s \in ProducerTopics :
            Holds(q)' /\ cached'[s] = send'[q].by => s = send'[q].topic
      BY <1>t, <2>4 DEF ProducersApart, Holds
    <3>3. ASSUME NEW q \in Publishers, Renewed(q)'
          PROVE  /\ send'[q].by \notin gone' /\ \A s \in ProducerTopics : cached'[s] # send'[q].by
                 /\ \A o \in Publishers : q # o /\ Holds(o)' => send'[o].by # send'[q].by
      <4>1. q # p /\ Renewed(q) /\ send'[q] = send[q] /\ send[q].by # send[p].by /\ send[q].by # 0
        BY <1>t, <2>4, <3>3 DEF ProducersApart, Holds, Renewed
      <4> QED
        BY <1>t, <2>4, <4>1 DEF ProducersApart, Holds
    <3> QED
      BY <2>5, <2>4, <3>1, <3>2, <3>3, Zenon DEF ProducersApart
  <2>8. G!CachedIsOpen'
    <3>1. ASSUME ~gave, NEW s \in ProducerTopics PROVE cached'[s] \notin gone'
      <4>1. CASE s = send[p].topic
        BY <2>4, <2>5, <4>1
      <4>2. CASE s # send[p].topic
        <5>1. cached'[s] = cached[s] /\ cached[s] \notin gone
          BY <2>4, <3>1, <4>2 DEF ProducerInv, G!CachedIsOpen
        <5>2. cached[s] # send[p].by
          BY <1>t, <2>4, <4>2 DEF ProducersApart, Holds
        <5> QED
          BY <2>4, <5>1, <5>2
      <4> QED
        BY <4>1, <4>2
    <3> QED
      BY <2>4, <3>1 DEF G!CachedIsOpen
  <2>9. G!OkIsAccepted'
    BY <2>4 DEF ProducerInv, G!OkIsAccepted
  <2> QED
    BY <2>6, <2>7, <2>8, <2>9 DEF ProducerInv
<1>6. CASE G!Store(p)
  <2>1. /\ send[p].at = "store" /\ cached' = [cached EXCEPT ![send[p].topic] = send[p].by]
        /\ send' = [send EXCEPT ![p].at = "ok"]
        /\ UNCHANGED <<gup, born, gone, sends, arrived, gave>>
    BY <1>6 DEF G!Store
  <2>2. [send[p] EXCEPT !.at = "ok"] \in G!SendRec /\ send[p].by \in 0 .. MaxProducers
    BY <1>t DEF G!SendRec
  <2>3. send' \in [Publishers -> G!SendRec] /\ cached' \in [ProducerTopics -> 0 .. MaxProducers]
    BY <1>t, <2>1, <2>2
  <2>4. G!TypeOK'
    BY <1>t, <2>1, <2>3 DEF G!TypeOK
  <2>5. /\ \A q \in Publishers : q # p => send'[q] = send[q]
        /\ send'[p].at = "ok" /\ send'[p].by = send[p].by /\ send'[p].topic = send[p].topic
        /\ send'[p].call = send[p].call /\ send[p].at = "store"
        /\ \A s \in ProducerTopics : cached'[s] = IF s = send[p].topic THEN send[p].by ELSE cached[s]
        /\ UNCHANGED <<born, gone, arrived, gave>>
    BY <1>t, <2>1, SMTT(30) DEF G!SendRec
  <2>6. ProducersApart'
    BY <1>t, <2>5, SMTT(30) DEF ProducersApart, Holds, Renewed
  <2>7. G!CachedIsOpen' /\ G!OkIsAccepted'
    BY <1>t, <2>5 DEF ProducerInv, G!CachedIsOpen, G!OkIsAccepted, ProducersApart, Renewed
  <2> QED
    BY <2>4, <2>6, <2>7 DEF ProducerInv
<1>7. CASE G!Return(p)
  <2>1. send' = [send EXCEPT ![p] = G!Resting] /\ UNCHANGED <<gup, cached, born, gone, sends, arrived, gave>>
    BY <1>7 DEF G!Return
  <2>2. G!Resting \in G!SendRec /\ G!Resting.at = "idle" /\ G!Resting.by = 0
    BY RestingHasNone
  <2>3. send' \in [Publishers -> G!SendRec]
    BY <1>t, <2>1, <2>2
  <2>4. G!TypeOK'
    BY <1>t, <2>1, <2>3 DEF G!TypeOK
  <2>5. \A q \in Publishers : send'[q] = IF q = p THEN G!Resting ELSE send[q]
    BY <1>t, <2>1
  <2>6. ProducersApart'
    BY <1>t, <2>1, <2>2, <2>5 DEF ProducersApart, Holds, Renewed
  <2>7. G!CachedIsOpen' /\ G!OkIsAccepted'
    BY <2>1, <2>2, <2>5 DEF ProducerInv, G!CachedIsOpen, G!OkIsAccepted
  <2> QED
    BY <2>4, <2>6, <2>7 DEF ProducerInv
<1> QED
  BY <1>1, <1>2, <1>3, <1>4, <1>5, <1>6, <1>7, Zenon DEF G!Publishing

\* Every step of the RocketMQ producers preserves the invariant.
LEMMA ProducerStep == ProducerInv /\ [G!Next]_producerVars => ProducerInv'
<1> SUFFICES ASSUME ProducerInv, [G!Next]_producerVars PROVE ProducerInv'
  OBVIOUS
<1> USE ProducerAssumption
<1>1. CASE G!Connect
  BY <1>1 DEF G!Connect, ProducerInv, G!TypeOK, G!CachedIsOpen, G!OkIsAccepted, ProducersApart,
     Holds, Renewed
<1>2. ASSUME NEW T \in SUBSET ProducerTopics, NEW ok \in BOOLEAN, G!Disconnect(T, ok)
      PROVE  ProducerInv'
  <2>1. /\ UNCHANGED <<born, send, sends, arrived>>
        /\ \E U \in SUBSET ProducerTopics :
             /\ \A t \in U : cached[t] # 0
             /\ gone' = gone \union {cached[t] : t \in U}
             /\ \/ cached' = cached /\ gave' = TRUE /\ gup' = gup
                \/ cached' = [t \in ProducerTopics |-> 0] /\ gave' = gave /\ gup' = FALSE
    <3>1. CASE ok
      <4>1. /\ UNCHANGED <<born, send, sends, arrived>>
            /\ gone' = gone \union {cached[t] : t \in {u \in ProducerTopics : cached[u] # 0}}
            /\ cached' = [t \in ProducerTopics |-> 0] /\ gave' = gave /\ gup' = FALSE
        BY <1>2, <3>1 DEF G!Disconnect
      <4> DEFINE U == {u \in ProducerTopics : cached[u] # 0}
      <4>2. U \in SUBSET ProducerTopics /\ \A t \in U : cached[t] # 0
        OBVIOUS
      <4>3. gone' = gone \union {cached[t] : t \in U}
        BY <4>1
      <4> HIDE DEF U
      <4> QED
        BY <4>1, <4>2, <4>3
    <3>2. CASE ~ok
      BY <1>2, <3>2 DEF G!Disconnect
    <3> QED
      BY <3>1, <3>2, Zenon
  <2>2. PICK U \in SUBSET ProducerTopics :
             /\ \A t \in U : cached[t] # 0
             /\ gone' = gone \union {cached[t] : t \in U}
             /\ \/ cached' = cached /\ gave' = TRUE /\ gup' = gup
                \/ cached' = [t \in ProducerTopics |-> 0] /\ gave' = gave /\ gup' = FALSE
    BY <2>1
  <2>3. G!TypeOK /\ ProducersApart /\ born \in 0 .. MaxProducers
    BY DEF ProducerInv, G!TypeOK
  <2>4. gup' \in BOOLEAN /\ gave' \in BOOLEAN /\ (~gave' => ~gave /\ cached' = [t \in ProducerTopics |-> 0])
    <3>1. gup \in BOOLEAN /\ gave \in BOOLEAN
      BY <2>3 DEF G!TypeOK
    <3> QED
      BY <2>2, <3>1, Zenon
  <2>5. cached' \in [ProducerTopics -> 0 .. MaxProducers]
    BY <2>2, <2>3 DEF G!TypeOK
  <2>6. /\ \A x \in gone' : x \in gone \/ \E t \in ProducerTopics : x = cached[t] /\ x # 0
        /\ (\A t \in ProducerTopics : cached'[t] = cached[t]) \/ (\A t \in ProducerTopics : cached'[t] = 0)
        /\ UNCHANGED <<born, send, arrived>>
    BY <2>1, <2>2
  <2>7. gone' \subseteq 1 .. born
    <3>1. gone \subseteq 1 .. born /\ \A t \in ProducerTopics : cached[t] \in 0 .. born
      BY <2>3 DEF ProducersApart
    <3>2. ASSUME NEW x \in gone' PROVE x \in 1 .. born
      <4>1. x \in gone \/ \E t \in ProducerTopics : x = cached[t] /\ x # 0
        BY <2>6
      <4>2. ASSUME NEW t \in ProducerTopics, x = cached[t], x # 0 PROVE x \in 1 .. born
        <5>1. cached[t] \in 0 .. born /\ born \in Nat
          BY <2>3, <3>1
        <5> QED
          BY <4>2, <5>1
      <4> QED
        BY <3>1, <4>1, <4>2, Zenon
    <3> QED
      BY <3>2
  <2>8. G!TypeOK'
    BY <2>1, <2>3, <2>4, <2>5, <2>7 DEF G!TypeOK
  <2>9. ProducersApart'
    BY <2>3, <2>6, <2>7 DEF ProducersApart, Holds, Renewed
  <2>10. G!CachedIsOpen' /\ G!OkIsAccepted'
    BY <2>3, <2>4, <2>6, <2>7 DEF ProducerInv, G!CachedIsOpen, G!OkIsAccepted
  <2> QED
    BY <2>8, <2>9, <2>10 DEF ProducerInv
<1>3. CASE UNCHANGED producerVars
  BY <1>3 DEF producerVars, ProducerInv, G!TypeOK, G!CachedIsOpen, G!OkIsAccepted, ProducersApart,
     Holds, Renewed
<1> QED
  BY <1>1, <1>2, <1>3, ProducerTake, ProducerPublishing DEF G!Next

\* For any number of publishers and topics: a cached producer has not been shut down,
\* and a Publish that returned nil has had its message sent.
THEOREM ProducersAreSafe == G!Spec => [](G!CachedIsOpen /\ G!OkIsAccepted)
<1>1. ProducerInv => G!CachedIsOpen /\ G!OkIsAccepted
  BY DEF ProducerInv
<1>2. G!Spec => G!Init /\ [][G!Next]_producerVars
  BY DEF G!Spec, producerVars, G!producerVars
<1> QED
  BY <1>1, <1>2, ProducerInit, ProducerStep, PTL

------------------------------------------------------------------------------
(* NATS, for any number of connections and requests. *)
N == INSTANCE Nats

\* Connections are counted, and Clear is what stops subscribers.
DialsCounted ==
  /\ ndials \in 0 .. MaxDials /\ nconn \in 0 .. ndials
  /\ \A s \in Subs : natsSub[s].conn \in 0 .. ndials
  /\ stopping # {} => disc = "clearing"

\* The inductive invariant of the NATS broker.
NatsInv == N!TypeOK /\ N!OpenIsKnown /\ N!SilentAfterDisconnect /\ DialsCounted

\* It holds when the broker is made.
LEMMA NatsInit == N!Init => NatsInv
<1> SUFFICES ASSUME N!Init PROVE NatsInv
  OBVIOUS
<1> USE SubsAssumption, NatsAssumption, KafkaWriterAssumption
<1> DEFINE rest == [at |-> "none", topic |-> CHOOSE t \in Topics : TRUE, conn |-> 0]
<1>1. /\ natsSub = [s \in Subs |-> rest] /\ entry = [t \in Topics |-> NoSub]
      /\ disc = "no" /\ stopping = {} /\ asking = 0 /\ nconn = 0 /\ ndials = 0
  BY DEF N!Init
<1>2. {drain, nopen, nup} \subseteq BOOLEAN /\ sender \in BOOLEAN
  BY Zenon DEF N!Init
<1>3. rest \in N!SubRec /\ rest.at = "none" /\ rest.conn = 0
  BY DEF N!SubRec
<1> HIDE DEF rest
<1>4. natsSub \in [Subs -> N!SubRec] /\ entry \in [Topics -> Subs \union {NoSub}]
  BY <1>1, <1>3
<1>5. N!TypeOK
  BY <1>1, <1>2, <1>4 DEF N!TypeOK
<1> QED
  BY <1>1, <1>3, <1>5 DEF NatsInv, N!OpenIsKnown, N!Delivering, N!SilentAfterDisconnect, DialsCounted

\* The state of the subscribers and of the map is not touched.
LEMMA NatsConnection ==
  ASSUME NatsInv,
         \/ \E ok \in BOOLEAN : N!Connect(ok)
         \/ N!Lose \/ N!Request \/ N!RequestEnd \/ N!DisconnectCall \/ N!Drained \/ N!DisconnectEnd
  PROVE  NatsInv'
<1> USE SubsAssumption, NatsAssumption DEF NatsInv
<1>1. /\ UNCHANGED <<drain, natsSub, entry, stopping>>
      /\ nopen' => \/ nopen /\ nconn' = nconn
                   \/ nconn' = ndials + 1
      /\ stopping # {} => disc' = "clearing"
      /\ disc' = "done" => ~nopen'
      /\ disc' \in {"no", "waiting", "sending", "clearing", "done"}
      /\ {nopen', nup', sender'} \subseteq BOOLEAN
  BY Zenon DEF N!TypeOK, N!Connect, N!Unlocked, N!Lose, N!Request, N!RequestEnd, N!DisconnectCall, N!Drained, N!DisconnectEnd, DialsCounted, N!SilentAfterDisconnect
<1>2. /\ ndials' \in 0 .. MaxDials /\ nconn' \in 0 .. ndials' /\ ndials <= ndials'
      /\ asking' \in 0 .. MaxAsking
  BY DEF N!TypeOK, N!Connect, N!Lose, N!Request, N!RequestEnd, N!DisconnectCall, N!Drained, N!DisconnectEnd, DialsCounted
<1>3. N!TypeOK'
  BY <1>1, <1>2 DEF N!TypeOK
<1>4. DialsCounted' /\ N!SilentAfterDisconnect'
  BY <1>1, <1>2, SMTT(30) DEF DialsCounted, N!SilentAfterDisconnect
<1>5. N!OpenIsKnown'
  BY <1>1, <1>2 DEF DialsCounted, N!OpenIsKnown, N!Delivering
<1> QED
  BY <1>3, <1>4, <1>5

\* One subscriber changes, and perhaps the entry of its topic.
LEMMA NatsSubscriber ==
  ASSUME NatsInv, NEW s \in Subs,
         \/ N!Add(s) \/ N!Unsubscribe(s) \/ N!ClearOne(s) \/ \E t \in Topics : N!Subscribe(s, t)
  PROVE  NatsInv'
<1> USE SubsAssumption, NatsAssumption DEF NatsInv
<1>1. /\ UNCHANGED <<drain, nconn, nopen, nup, ndials, disc, sender, asking>>
      /\ stopping' \in {stopping, stopping \ {s}}
  BY DEF N!Add, N!Unsubscribe, N!ClearOne, N!Subscribe
<1>2. PICK r \in N!SubRec :
        /\ natsSub' = [natsSub EXCEPT ![s] = r]
        /\ r.at # "none" /\ r.conn \in 0 .. ndials
        /\ natsSub[s].at # "none" => r.topic = natsSub[s].topic
        /\ r.at = "on" => N!Add(s)
  <2>1. /\ natsSub \in [Subs -> N!SubRec] /\ natsSub[s] \in N!SubRec /\ natsSub[s].conn \in 0 .. ndials
        /\ nconn \in 0 .. ndials /\ ndials \in 0 .. MaxDials
    BY DEF N!TypeOK, DialsCounted
  <2>2. ASSUME NEW x \in {"on", "off"}
        PROVE  [natsSub[s] EXCEPT !.at = x] \in N!SubRec
    BY <2>1 DEF N!SubRec
  <2>3. CASE N!Add(s)
    <3>1. natsSub' = [natsSub EXCEPT ![s] = [natsSub[s] EXCEPT !.at = "on"]]
      BY <2>3 DEF N!Add
    <3> QED
      BY <2>1, <2>2, <2>3, <3>1, Zenon DEF N!SubRec
  <2>4. CASE N!Unsubscribe(s) \/ N!ClearOne(s)
    <3>1. natsSub' = [natsSub EXCEPT ![s] = [natsSub[s] EXCEPT !.at = "off"]]
      BY <2>4 DEF N!Unsubscribe, N!ClearOne
    <3> QED
      BY <2>1, <2>2, <3>1, Zenon DEF N!SubRec
  <2>5. ASSUME NEW t \in Topics, N!Subscribe(s, t)
        PROVE  \E r \in N!SubRec : /\ natsSub' = [natsSub EXCEPT ![s] = r]
                                   /\ r.at # "none" /\ r.conn \in 0 .. ndials
                                   /\ natsSub[s].at # "none" => r.topic = natsSub[s].topic
                                   /\ r.at = "on" => N!Add(s)
    <3>1. [at |-> "made", topic |-> t, conn |-> nconn] \in N!SubRec
      BY <2>1 DEF N!SubRec
    <3> QED
      BY <2>1, <2>5, <3>1, Zenon DEF N!Subscribe
  <2> QED
    BY <2>3, <2>4, <2>5
<1>3. /\ natsSub' \in [Subs -> N!SubRec] /\ natsSub'[s] = r
      /\ \A o \in Subs : o # s => natsSub'[o] = natsSub[o]
  BY <1>2, SMTT(30) DEF N!TypeOK
<1>4. /\ entry' \in [Topics -> Subs \union {NoSub}]
      /\ \A t \in Topics : \/ entry'[t] = entry[t]
                           \/ t = natsSub[s].topic /\ natsSub[s].at # "none"
      /\ N!Add(s) => entry'[r.topic] = s
  <2>1. entry \in [Topics -> Subs \union {NoSub}] /\ natsSub[s].topic \in Topics
    BY DEF N!TypeOK, N!SubRec
  <2>2. CASE N!Add(s)
    <3>1. natsSub[s].at = "made" /\ entry' = [entry EXCEPT ![natsSub[s].topic] = s]
      BY <2>2, SMTT(30) DEF N!Add
    <3> QED
      BY <1>2, <2>1, <3>1
  <2>3. CASE N!Unsubscribe(s)
    <3>1. natsSub[s].at # "made" /\ natsSub[s].at # "none" /\ entry' = [entry EXCEPT ![natsSub[s].topic] = NoSub]
      BY <2>3 DEF N!Unsubscribe
    <3>2. ~N!Add(s)
      BY <3>1 DEF N!Add
    <3> QED
      BY <2>1, <3>1, <3>2
  <2>4. CASE ~N!Add(s) /\ ~N!Unsubscribe(s)
    <3>1. entry' = entry
      BY <2>4 DEF N!ClearOne, N!Subscribe
    <3>2. entry' \in [Topics -> Subs \union {NoSub}] /\ \A t \in Topics : entry'[t] = entry[t]
      BY <2>1, <3>1
    <3> QED
      BY <2>4, <3>2, Zenon
  <2> QED
    BY <2>2, <2>3, <2>4
<1>5. N!TypeOK'
  BY <1>1, <1>3, <1>4 DEF N!TypeOK
<1>6. DialsCounted' /\ N!SilentAfterDisconnect'
  BY <1>1, <1>2, <1>3 DEF DialsCounted, N!SilentAfterDisconnect
<1>7. N!OpenIsKnown'
  BY <1>1, <1>2, <1>3, <1>4 DEF N!OpenIsKnown, N!Delivering, N!TypeOK, N!SubRec
<1> QED
  BY <1>5, <1>6, <1>7

\* Every step of the NATS broker preserves the invariant.
LEMMA NatsStep == NatsInv /\ [N!Next]_natsVars => NatsInv'
<1> SUFFICES ASSUME NatsInv, [N!Next]_natsVars PROVE NatsInv'
  OBVIOUS
<1> USE SubsAssumption, NatsAssumption
<1>1. CASE N!DisconnectStart
  <2>1. /\ UNCHANGED <<drain, nconn, nopen, nup, ndials, natsSub, sender, asking>> /\ disc = "waiting"
        /\ \/ disc' = "sending" /\ UNCHANGED <<entry, stopping>>
           \/ /\ disc' = "clearing" /\ stopping' = {entry[t] : t \in Topics} \ {NoSub}
              /\ entry' = [t \in Topics |-> NoSub]
    BY <1>1 DEF N!DisconnectStart
  <2>2. CASE disc' = "sending" /\ UNCHANGED <<entry, stopping>>
    BY <2>1, <2>2 DEF NatsInv, N!TypeOK, N!OpenIsKnown, N!Delivering, N!SilentAfterDisconnect, DialsCounted
  <2>3. CASE /\ disc' = "clearing" /\ stopping' = {entry[t] : t \in Topics} \ {NoSub}
             /\ entry' = [t \in Topics |-> NoSub]
    <3>1. stopping = {} /\ stopping' \subseteq Subs /\ entry' \in [Topics -> Subs \union {NoSub}]
          /\ \A t \in Topics : entry[t] \in Subs => entry[t] \in stopping'
      BY <2>1, <2>3 DEF NatsInv, N!TypeOK, DialsCounted
    <3>2. N!TypeOK'
      BY <2>1, <2>3, <3>1 DEF NatsInv, N!TypeOK
    <3>3. N!OpenIsKnown'
      BY <2>1, <3>1 DEF NatsInv, N!TypeOK, N!SubRec, N!OpenIsKnown, N!Delivering
    <3> QED
      BY <2>1, <2>3, <3>2, <3>3, Zenon DEF NatsInv, N!SilentAfterDisconnect, DialsCounted
  <2> QED
    BY <2>1, <2>2, <2>3
<1>2. CASE UNCHANGED natsVars
  BY <1>2 DEF natsVars, NatsInv, N!TypeOK, N!OpenIsKnown, N!Delivering, N!SilentAfterDisconnect,
     DialsCounted
<1> QED
  BY <1>1, <1>2, NatsConnection, NatsSubscriber, Zenon DEF N!Next, N!Disconnecting

\* For any number of subscribers, topics and connections: what delivers can be stopped
\* through the map, and nothing delivers once Disconnect has returned.
THEOREM NatsIsSafe == N!Spec => [](N!OpenIsKnown /\ N!SilentAfterDisconnect)
<1>1. NatsInv => N!OpenIsKnown /\ N!SilentAfterDisconnect
  BY DEF NatsInv
<1>2. N!Spec => N!Init /\ [][N!Next]_natsVars
  BY DEF N!Spec, natsVars, N!natsVars
<1> QED
  BY <1>1, <1>2, NatsInit, NatsStep, PTL

------------------------------------------------------------------------------
(* MQTT, for any number of sessions. *)
Q == INSTANCE Mqtt

\* What is between doSubscribe and Add belongs to a session that has begun, and as
\* long as that is the present one the server holds it, unless a Clear took it.
AddingIsServed ==
  /\ link => session > 0
  /\ \A s \in Subs :
       /\ adding[s] <= session
       /\ adding[s] # 0 => s \notin mapped
       /\ adding[s] # 0 /\ adding[s] = session /\ link => s \in served \union overtaken

\* The inductive invariant of the MQTT broker.
MqttInv == Q!TypeOK /\ Q!MappedIsServed /\ AddingIsServed

\* It holds when the broker is made.
LEMMA MqttInit == Q!Init => MqttInv
<1> SUFFICES ASSUME Q!Init PROVE MqttInv
  OBVIOUS
<1> USE MqttAssumption
<1>1. /\ link = FALSE /\ session = 0 /\ mapped = {} /\ served = {} /\ clear = {} /\ overtaken = {}
      /\ adding = [s \in Subs |-> 0]
      /\ hook = [n \in Q!Sessions |-> [at |-> "none", todo |-> {}]]
  BY DEF Q!Init
<1>2. {link, redial, leaving} \subseteq BOOLEAN
  BY Zenon DEF Q!Init
<1>3. hook \in [Q!Sessions -> Q!Hook] /\ adding \in [Subs -> 0 .. MaxSessions]
  BY <1>1 DEF Q!Hook
<1>4. Q!TypeOK
  BY <1>1, <1>2, <1>3 DEF Q!TypeOK
<1> QED
  BY <1>1, <1>4 DEF MqttInv, Q!MappedIsServed, AddingIsServed

\* Connections come and go.
LEMMA MqttLink ==
  ASSUME MqttInv, Q!Connect \/ Q!Lose \/ Q!LoopConnect \/ Q!Disconnect \/ Q!Clear
  PROVE  MqttInv'
<1> USE MqttAssumption DEF MqttInv
<1>1. /\ adding' = adding /\ overtaken' = overtaken /\ {link', redial', leaving'} \subseteq BOOLEAN
      /\ mapped' \in {mapped, {}} /\ served' \in {served, {}} /\ clear' \subseteq Subs
      /\ ~link \/ ~link' \/ UNCHANGED <<link, session, hook, served>>
  BY Zenon DEF Q!TypeOK, Q!Connect, Q!Lose, Q!LoopConnect, Q!Disconnect, Q!Clear, Q!Up
<1>2. CASE Q!Up /\ ~link
  <2>1. /\ session \in 0 .. MaxSessions /\ session' = session + 1 /\ session' \in Q!Sessions
        /\ hook' = [hook EXCEPT ![session'].at = "starting"] /\ link'
    BY <1>2 DEF Q!Up, Q!TypeOK, Q!Sessions
  <2>2. [hook[session'] EXCEPT !.at = "starting"] \in Q!Hook
    BY <2>1 DEF Q!TypeOK, Q!Hook
  <2>3. hook' \in [Q!Sessions -> Q!Hook] /\ hook'[session'].at = "starting"
    BY <2>1, <2>2 DEF Q!TypeOK, Q!Hook
  <2>4. Q!TypeOK'
    BY <1>1, <2>1, <2>3 DEF Q!TypeOK, Q!Sessions
  <2>5. Q!MappedIsServed'
    BY <2>3 DEF Q!MappedIsServed
  <2>6. AddingIsServed'
    BY <1>1, <2>1 DEF Q!TypeOK, AddingIsServed
  <2> QED
    BY <2>4, <2>5, <2>6
<1>3. CASE UNCHANGED <<session, hook>>
  <2>1. Q!TypeOK'
    BY <1>1, <1>3 DEF Q!TypeOK
  <2>2. link' => link /\ served' = served
    <3>1. ~Q!Up
      BY <1>3 DEF Q!Up, Q!TypeOK
    <3> QED
      BY <3>1, Zenon DEF Q!Connect, Q!Lose, Q!LoopConnect, Q!Disconnect, Q!Clear
  <2>3. Q!MappedIsServed'
    BY <1>1, <1>3, <2>2 DEF Q!MappedIsServed
  <2>4. AddingIsServed'
    BY <1>1, <1>3, <2>2 DEF AddingIsServed
  <2> QED
    BY <2>1, <2>3, <2>4
<1> QED
  BY <1>2, <1>3 DEF Q!Connect, Q!Lose, Q!LoopConnect, Q!Disconnect, Q!Clear

\* A goroutine of onConnect.
LEMMA MqttHook ==
  ASSUME MqttInv, NEW n \in Q!Sessions, Q!Snapshot(n) \/ \E s \in Subs : Q!Resubscribe(n, s)
  PROVE  MqttInv'
<1> USE MqttAssumption DEF MqttInv
<1>1. UNCHANGED <<link, session, redial, mapped, leaving, clear, adding>>
  BY DEF Q!Snapshot, Q!Resubscribe
<1>2. PICK h \in Q!Hook, R \in SUBSET Subs :
        /\ hook' = [hook EXCEPT ![n] = h]
        /\ served' \subseteq Subs /\ overtaken' \subseteq Subs
        /\ served \union overtaken \subseteq served' \union overtaken'
        /\ \/ h.at = "running" /\ h.todo = mapped
           \/ /\ h.at = hook[n].at /\ hook[n].todo \subseteq h.todo \union R
              /\ link => R \subseteq served'
  <2>1. /\ hook \in [Q!Sessions -> Q!Hook] /\ hook[n] \in Q!Hook
        /\ mapped \subseteq Subs /\ served \subseteq Subs /\ overtaken \subseteq Subs
    BY DEF Q!TypeOK
  <2>2. CASE Q!Snapshot(n)
    <3>1. [at |-> "running", todo |-> mapped] \in Q!Hook
      BY <2>1 DEF Q!Hook
    <3> QED
      BY <2>1, <2>2, <3>1, Zenon DEF Q!Snapshot
  <2>3. ASSUME NEW s \in Subs, Q!Resubscribe(n, s)
        PROVE  \E h \in Q!Hook, R \in SUBSET Subs :
                 /\ hook' = [hook EXCEPT ![n] = h]
                 /\ served' \subseteq Subs /\ overtaken' \subseteq Subs
                 /\ served \union overtaken \subseteq served' \union overtaken'
                 /\ \/ h.at = "running" /\ h.todo = mapped
                    \/ /\ h.at = hook[n].at /\ hook[n].todo \subseteq h.todo \union R
                       /\ link => R \subseteq served'
    <3> DEFINE h == [hook[n] EXCEPT !.todo = @ \ {s}]
    <3>1. h \in Q!Hook /\ h.at = hook[n].at /\ hook[n].todo \subseteq h.todo \union {s}
      BY <2>1 DEF Q!Hook
    <3>2. hook' = [hook EXCEPT ![n] = h]
      BY <2>1, <2>3 DEF Q!Resubscribe
    <3>3. /\ served' \subseteq Subs /\ overtaken' \subseteq Subs
          /\ served \union overtaken \subseteq served' \union overtaken'
          /\ link => {s} \subseteq served'
      BY <2>1, <2>3, SMTT(30) DEF Q!Resubscribe
    <3> HIDE DEF h
    <3> QED
      BY <3>1, <3>2, <3>3, Zenon
  <2> QED
    BY <2>2, <2>3, Zenon
<1>3. /\ hook' \in [Q!Sessions -> Q!Hook] /\ hook'[n] = h
      /\ \A m \in Q!Sessions : m # n => hook'[m] = hook[m]
  BY <1>2 DEF Q!TypeOK
<1>4. Q!TypeOK'
  BY <1>1, <1>2, <1>3, Zenon DEF Q!TypeOK
<1>5. AddingIsServed'
  BY <1>1, <1>2, ZenonT(30) DEF AddingIsServed
<1>6. ASSUME link, session > 0, hook'[session].at = "running", NEW s \in mapped
      PROVE  s \in served' \union hook'[session].todo \union overtaken'
  <2>0. session \in 0 .. MaxSessions
    BY DEF Q!TypeOK
  <2>1. session \in Q!Sessions
    BY <1>6, <2>0 DEF Q!Sessions
  <2>2. CASE session # n
    BY <1>2, <1>3, <1>6, <2>1, <2>2 DEF Q!MappedIsServed
  <2>3. CASE session = n
    BY <1>2, <1>3, <1>6, <2>1, <2>3 DEF Q!MappedIsServed
  <2> QED
    BY <2>2, <2>3
<1>7. Q!MappedIsServed'
  BY <1>1, <1>6, Zenon DEF Q!MappedIsServed
<1> QED
  BY <1>4, <1>5, <1>7

\* The application subscribes and unsubscribes, and Clear stops what it took.
LEMMA MqttSubscriber ==
  ASSUME MqttInv, NEW s \in Subs, Q!ClearOne(s) \/ Q!Subscribe(s) \/ Q!Add(s) \/ Q!Unsubscribe(s)
  PROVE  MqttInv'
<1> USE MqttAssumption DEF MqttInv
<1>1. /\ UNCHANGED <<link, session, redial, hook, leaving>>
      /\ clear' \subseteq clear
      /\ \A o \in Subs : o # s => /\ adding'[o] = adding[o]
                                  /\ o \in mapped' <=> o \in mapped
                                  /\ o \in served' <=> o \in served
                                  /\ o \in overtaken' <=> o \in overtaken
      /\ adding' \in [Subs -> 0 .. MaxSessions] /\ mapped' \subseteq Subs /\ served' \subseteq Subs
      /\ overtaken' \subseteq Subs
  BY DEF Q!ClearOne, Q!Subscribe, Q!Add, Q!Unsubscribe, Q!TypeOK
<1>2. Q!TypeOK'
  BY <1>1 DEF Q!TypeOK
<1>3. /\ adding'[s] <= session
      /\ adding'[s] # 0 => s \notin mapped'
      /\ adding'[s] # 0 /\ adding'[s] = session /\ link => s \in served' \union overtaken'
  BY DEF Q!ClearOne, Q!Subscribe, Q!Add, Q!Unsubscribe, Q!TypeOK, AddingIsServed
<1>4. AddingIsServed'
  BY <1>1, <1>3 DEF AddingIsServed
<1>5. \/ s \notin mapped'
      \/ s \in mapped /\ (s \in served => s \in served' \union overtaken') /\ (s \in overtaken => s \in overtaken')
      \/ link => s \in served' \union overtaken'
  <2>1. CASE Q!ClearOne(s)
    BY <2>1 DEF Q!ClearOne
  <2>2. CASE Q!Subscribe(s)
    BY <2>2 DEF Q!Subscribe
  <2>3. CASE Q!Add(s)
    BY <2>3 DEF Q!Add, AddingIsServed
  <2>4. CASE Q!Unsubscribe(s)
    BY <2>4 DEF Q!Unsubscribe
  <2> QED
    BY <2>1, <2>2, <2>3, <2>4
<1>6. ASSUME link, session > 0, hook[session].at = "running", NEW o \in mapped'
      PROVE  o \in served' \union hook[session].todo \union overtaken'
  BY <1>1, <1>5, <1>6, ZenonT(30) DEF Q!MappedIsServed
<1>7. Q!MappedIsServed'
  BY <1>1, <1>6 DEF Q!MappedIsServed
<1> QED
  BY <1>2, <1>4, <1>7

\* Every step of the MQTT broker preserves the invariant.
LEMMA MqttStep == MqttInv /\ [Q!Next]_mqttVars => MqttInv'
<1>1. MqttInv /\ UNCHANGED mqttVars => MqttInv'
  BY DEF mqttVars, MqttInv, Q!TypeOK, Q!MappedIsServed, AddingIsServed
<1> QED
  BY <1>1, MqttLink, MqttHook, MqttSubscriber, Zenon DEF Q!Next, Q!Hooking

\* For any number of subscribers and connections: once the onConnect of the present
\* connection is through, the server holds every subscription of the map.
THEOREM MqttIsSafe == Q!Spec => []Q!MappedIsServed
<1>1. MqttInv => Q!MappedIsServed
  BY DEF MqttInv
<1>2. Q!Spec => Q!Init /\ [][Q!Next]_mqttVars
  BY DEF Q!Spec, mqttVars, Q!mqttVars
<1> QED
  BY <1>1, <1>2, MqttInit, MqttStep, PTL

------------------------------------------------------------------------------
(* The subscriber map, for any set of subscribers. *)
S == INSTANCE SubscriberMap

\* What the map holds is there under its own topic, was not displaced, and nobody
\* but the application may be unsubscribing it; a helper unsubscribes what is out
\* of the map, and its caller waits for it or has reported it.
HeldIsLive ==
  /\ topicOf \in [Subs -> Topics]
  /\ \A t \in Topics : smap[t] \in Subs =>
       /\ topicOf[smap[t]] = t /\ smap[t] \notin lost
       /\ stopped[smap[t]] \in {"no", "byCaller"}
       /\ stopped[smap[t]] = "byCaller" => smap[t] \in taking
  /\ \A s \in Subs :
       /\ helper[s] = "running" => stopped[s] = "byHelper" /\ s \in awaited \union failed
       /\ helper[s] \in {"sending", "ended"} => stopped[s] = "yes"

\* The inductive invariant of the subscriber map.
MapInv == S!TypeOK /\ HeldIsLive

\* It holds of the empty map.
LEMMA MapInit == S!Init => MapInv
  BY SubsAssumption, KafkaWriterAssumption DEF S!Init, MapInv, HeldIsLive, S!TypeOK

\* Entries T leave the map for somebody who unsubscribes them.
LEMMA MapTake ==
  ASSUME MapInv, NEW T \in SUBSET Topics, NEW who \in {"byCaller", "byHelper"}, NEW own \in BOOLEAN,
         S!Take(T, who, own),
         \/ who = "byCaller" /\ UNCHANGED <<helper, awaited, failed>>
         \/ who = "byHelper" /\ S!Delegate(T),
         UNCHANGED <<topicOf, lost>>
  PROVE  MapInv'
<1> USE SubsAssumption
<1> DEFINE X == {smap[t] : t \in T} \ {NoSub}
<1>1. /\ smap \in [Topics -> Subs \union {NoSub}] /\ stopped \in [Subs -> {"no", "byCaller", "byHelper", "yes"}]
      /\ helper \in [Subs -> {"none", "running", "sending", "ended"}]
      /\ taking \subseteq Subs /\ lost \subseteq Subs /\ awaited \subseteq Subs /\ failed \subseteq Subs
      /\ topicOf \in [Subs -> Topics]
  BY DEF MapInv, S!TypeOK, HeldIsLive
<1>2. /\ X \subseteq Subs
      /\ \A s \in X : topicOf[s] \in T /\ smap[topicOf[s]] = s /\ stopped[s] \in {"no", "byCaller"}
  BY <1>1 DEF MapInv, HeldIsLive
<1>3. /\ smap' = [t \in Topics |-> IF t \in T THEN NoSub ELSE smap[t]]
      /\ stopped' = [s \in Subs |-> IF s \in X THEN who ELSE stopped[s]]
      /\ taking' \in {taking, taking \union X}
  BY Zenon DEF S!Take
<1>4. \/ who = "byCaller" /\ UNCHANGED <<helper, awaited, failed>>
      \/ /\ who = "byHelper" /\ awaited = {} /\ awaited' = X /\ failed' = failed
         /\ helper' = [s \in Subs |-> IF s \in X THEN "running" ELSE helper[s]]
  BY Zenon DEF S!Delegate
<1> HIDE DEF X
<1>5. /\ smap' \in [Topics -> Subs \union {NoSub}] /\ stopped' \in [Subs -> {"no", "byCaller", "byHelper", "yes"}]
      /\ \A t \in Topics : smap'[t] = IF t \in T THEN NoSub ELSE smap[t]
      /\ \A s \in Subs : stopped'[s] = IF s \in X THEN who ELSE stopped[s]
      /\ taking' \subseteq Subs /\ awaited' \subseteq Subs /\ failed' \subseteq Subs
  BY <1>1, <1>2, <1>3, <1>4
<1>12. taking \subseteq taking'
  BY <1>3, Zenon
<1>6. /\ helper' \in [Subs -> {"none", "running", "sending", "ended"}]
      /\ \A s \in Subs : helper'[s] = IF s \in X /\ who = "byHelper" THEN "running" ELSE helper[s]
      /\ \A s \in Subs : helper'[s] = "running" => s \in X \/ s \in awaited \union failed
  BY <1>1, <1>2, <1>4 DEF MapInv, HeldIsLive
<1>7. S!TypeOK'
  BY <1>1, <1>5, <1>6 DEF S!TypeOK
<1>8. \A s \in X : helper[s] = "none"
  BY <1>1, <1>2 DEF MapInv, HeldIsLive
<1>9. ASSUME NEW t \in Topics, smap'[t] \in Subs
      PROVE  /\ topicOf'[smap'[t]] = t /\ smap'[t] \notin lost'
             /\ stopped'[smap'[t]] \in {"no", "byCaller"}
             /\ stopped'[smap'[t]] = "byCaller" => smap'[t] \in taking'
  <2>1. t \notin T /\ smap'[t] = smap[t]
    BY <1>5, <1>9, Zenon
  <2>2. /\ topicOf[smap[t]] = t /\ smap[t] \notin lost /\ stopped[smap[t]] \in {"no", "byCaller"}
        /\ stopped[smap[t]] = "byCaller" => smap[t] \in taking
    BY <1>9, <2>1, Zenon DEF MapInv, HeldIsLive
  <2>3. smap[t] \notin X
    BY <1>2, <2>1, <2>2, Zenon
  <2> QED
    BY <1>5, <1>9, <1>12, <2>1, <2>2, <2>3, Zenon
<1>10. ASSUME NEW s \in Subs
       PROVE  /\ helper'[s] = "running" => stopped'[s] = "byHelper" /\ s \in awaited' \union failed'
              /\ helper'[s] \in {"sending", "ended"} => stopped'[s] = "yes"
  BY <1>4, <1>5, <1>6, <1>8, Zenon DEF MapInv, HeldIsLive
<1>11. topicOf' \in [Subs -> Topics]
  BY <1>1
<1> QED
  BY <1>7, <1>9, <1>10, <1>11, Zenon DEF MapInv, HeldIsLive

\* An entry is set, or dropped.
LEMMA MapEntry ==
  ASSUME MapInv, \/ S!ForceClear
                 \/ \E s \in Subs : S!Unsubscribe(s) \/ \E t \in Topics : S!Add(s, t)
  PROVE  MapInv'
<1> USE SubsAssumption
<1>1. /\ smap \in [Topics -> Subs \union {NoSub}] /\ stopped \in [Subs -> {"no", "byCaller", "byHelper", "yes"}]
      /\ helper \in [Subs -> {"none", "running", "sending", "ended"}]
      /\ taking \subseteq Subs /\ lost \subseteq Subs /\ awaited \subseteq Subs /\ failed \subseteq Subs
      /\ topicOf \in [Subs -> Topics]
  BY DEF MapInv, S!TypeOK, HeldIsLive
<1>2. CASE S!ForceClear
  <2>1. /\ \A t \in Topics : smap'[t] = NoSub
        /\ UNCHANGED <<stopped, topicOf, taking, helper, awaited, failed>>
        /\ smap' \in [Topics -> Subs \union {NoSub}] /\ lost' \subseteq Subs
    BY <1>1, <1>2 DEF S!ForceClear, S!Held
  <2> QED
    BY <1>1, <2>1 DEF MapInv, S!TypeOK, HeldIsLive
<1>3. ASSUME NEW s \in Subs, S!Unsubscribe(s) PROVE MapInv'
  <2>1. /\ stopped' \in [Subs -> {"no", "byCaller", "byHelper", "yes"}]
        /\ \A o \in Subs : o # s => stopped'[o] = stopped[o]
        /\ stopped[s] = "no" /\ stopped'[s] = "byCaller" /\ taking' \subseteq Subs
        /\ taking' = taking \union {s}
        /\ UNCHANGED <<smap, topicOf, lost, helper, awaited, failed>>
    BY <1>1, <1>3 DEF S!Unsubscribe
  <2> QED
    BY <1>1, <2>1 DEF MapInv, S!TypeOK, HeldIsLive
<1>4. ASSUME NEW s \in Subs, NEW t \in Topics, S!Add(s, t) PROVE MapInv'
  <2>1. /\ smap' \in [Topics -> Subs \union {NoSub}] /\ smap'[t] = s
        /\ \A u \in Topics : u # t => smap'[u] = smap[u]
        /\ topicOf' \in [Subs -> Topics] /\ topicOf'[s] = t
        /\ \A o \in Subs : o # s => topicOf'[o] = topicOf[o]
        /\ lost' = lost \union ({smap[t]} \ {NoSub}) /\ lost' \subseteq Subs
        /\ UNCHANGED <<stopped, taking, helper, awaited, failed>>
        /\ s \notin lost /\ stopped[s] = "no" /\ \A u \in Topics : smap[u] # s
    BY <1>1, <1>4 DEF S!Add, S!Held
  <2>2. S!TypeOK'
    BY <1>1, <2>1 DEF S!TypeOK
  <2>3. ASSUME NEW u \in Topics, smap'[u] \in Subs
        PROVE  /\ topicOf'[smap'[u]] = u /\ smap'[u] \notin lost'
               /\ stopped'[smap'[u]] \in {"no", "byCaller"}
               /\ stopped'[smap'[u]] = "byCaller" => smap'[u] \in taking'
    <3>1. CASE u = t
      BY <2>1, <2>3, <3>1, ZenonT(30)
    <3>2. CASE u # t
      BY <1>1, <2>1, <2>3, <3>2 DEF MapInv, HeldIsLive
    <3> QED
      BY <3>1, <3>2, Zenon
  <2> QED
    BY <1>1, <2>1, <2>2, <2>3 DEF MapInv, HeldIsLive
<1> QED
  BY <1>2, <1>3, <1>4

\* An Unsubscribe ends, a helper sends, a caller stops waiting.
LEMMA MapEnd ==
  ASSUME MapInv, NEW s \in Subs, S!Stopped(s) \/ S!Send(s) \/ S!Await(s)
  PROVE  MapInv'
<1> USE SubsAssumption
<1>1. /\ smap \in [Topics -> Subs \union {NoSub}] /\ stopped \in [Subs -> {"no", "byCaller", "byHelper", "yes"}]
      /\ helper \in [Subs -> {"none", "running", "sending", "ended"}]
      /\ taking \subseteq Subs /\ lost \subseteq Subs /\ awaited \subseteq Subs /\ failed \subseteq Subs
      /\ topicOf \in [Subs -> Topics]
  BY DEF MapInv, S!TypeOK, HeldIsLive
<1>2. CASE S!Stopped(s)
  <2>1. /\ stopped' \in [Subs -> {"no", "byCaller", "byHelper", "yes"}]
        /\ \A o \in Subs : o # s => stopped'[o] = stopped[o]
        /\ stopped'[s] = "yes"
        /\ helper' \in [Subs -> {"none", "running", "sending", "ended"}]
        /\ \A o \in Subs : o # s => helper'[o] = helper[o]
        /\ helper'[s] # "running"
        /\ UNCHANGED <<topicOf, taking, awaited, failed>>
    BY <1>1, <1>2, SMTT(30) DEF S!Stopped
  <2>2. /\ smap' \in [Topics -> Subs \union {NoSub}] /\ lost' \subseteq Subs
        /\ \A t \in Topics : \/ smap'[t] = smap[t] /\ smap'[t] # s
                             \/ smap'[t] = NoSub
        /\ \A t \in Topics : smap[t] \in Subs /\ smap'[t] = smap[t] => smap[t] \notin lost'
    BY <1>1, <1>2 DEF S!Stopped, MapInv, HeldIsLive
  <2>3. S!TypeOK'
    BY <1>1, <2>1, <2>2 DEF S!TypeOK
  <2> QED
    BY <1>1, <2>1, <2>2, <2>3 DEF MapInv, HeldIsLive
<1>3. CASE S!Send(s)
  <2>1. /\ helper' \in [Subs -> {"none", "running", "sending", "ended"}]
        /\ \A o \in Subs : o # s => helper'[o] = helper[o]
        /\ helper[s] = "sending" /\ helper'[s] = "ended"
        /\ UNCHANGED <<smap, stopped, topicOf, taking, lost, awaited, failed>>
    BY <1>1, <1>3 DEF S!Send
  <2>2. S!TypeOK'
    BY <1>1, <2>1, SMTT(30) DEF S!TypeOK
  <2> QED
    BY <1>1, <2>1, <2>2 DEF MapInv, HeldIsLive
<1>4. CASE S!Await(s)
  <2>1. /\ awaited' \subseteq Subs /\ failed' \subseteq Subs
        /\ \A o \in Subs : helper[o] = "running" /\ o \in awaited \union failed => o \in awaited' \union failed'
        /\ UNCHANGED <<smap, stopped, topicOf, taking, lost, helper>>
    BY <1>1, <1>4 DEF S!Await
  <2>2. S!TypeOK'
    BY <1>1, <2>1 DEF S!TypeOK
  <2> QED
    BY <1>1, <2>1, <2>2 DEF MapInv, HeldIsLive
<1> QED
  BY <1>2, <1>3, <1>4

\* Every step of the subscriber map preserves the invariant.
LEMMA MapStep == MapInv /\ [S!Next]_mapVars => MapInv'
<1> SUFFICES ASSUME MapInv, [S!Next]_mapVars PROVE MapInv'
  OBVIOUS
<1>1. CASE S!Clear \/ S!ClearWithTimeout
  BY <1>1, MapTake, Zenon DEF S!Clear, S!ClearWithTimeout
<1>2. ASSUME NEW t \in Topics, S!Remove(t) \/ S!RemoveWithTimeout(t) PROVE MapInv'
  <2>1. {t} \in SUBSET Topics
    BY SMTT(30)
  <2> QED
    BY <1>2, <2>1, MapTake, Zenon DEF S!Remove, S!RemoveWithTimeout
<1>3. CASE UNCHANGED mapVars
  BY <1>3 DEF mapVars, MapInv, S!TypeOK, HeldIsLive
<1> QED
  BY <1>1, <1>2, <1>3, MapEntry, MapEnd, Zenon DEF S!Next

\* It says what the runs check.
LEMMA MapKeeps == MapInv => S!TypeOK /\ S!StoppedOnce /\ S!TimeoutAccounts
  BY SubsAssumption DEF MapInv, S!TypeOK, HeldIsLive, S!StoppedOnce, S!Held, S!TimeoutAccounts

\* For any number of subscribers and topics: what leaves the map to be stopped is stopped
\* by one call, and a call with a timeout reports what it did not see stopped.
THEOREM MapIsSafe == S!Spec => [](S!StoppedOnce /\ S!TimeoutAccounts)
<1>1. S!Spec => S!Init /\ [][S!Next]_mapVars
  BY DEF S!Spec, mapVars, S!smapVars
<1> QED
  BY <1>1, MapInit, MapStep, MapKeeps, PTL

------------------------------------------------------------------------------
(* The suite *)

WriterOnly(A) ==
  unit = "writer" /\ A /\ UNCHANGED <<unit, producerVars, natsVars, mqttVars, mapVars>>
ProducerOnly(A) ==
  unit = "producer" /\ A /\ UNCHANGED <<unit, writerVars, natsVars, mqttVars, mapVars>>
NatsOnly(A) ==
  unit = "nats" /\ A /\ UNCHANGED <<unit, writerVars, producerVars, mqttVars, mapVars>>
MqttOnly(A) ==
  unit = "mqtt" /\ A /\ UNCHANGED <<unit, writerVars, producerVars, natsVars, mapVars>>
MapOnly(A) ==
  unit = "map" /\ A /\ UNCHANGED <<unit, writerVars, producerVars, natsVars, mqttVars>>

SuiteInit ==
  /\ unit \in Units
  /\ Init /\ G!Init /\ N!Init /\ Q!Init /\ S!Init
  /\ unit # "writer" => perTopic
  /\ unit # "nats" => ~drain

SuiteNext ==
  \/ WriterOnly(Next) \/ ProducerOnly(G!Next) \/ NatsOnly(N!Next)
  \/ MqttOnly(Q!Next) \/ MapOnly(S!Next)

\* One part runs, so the first fair actions of the parts share a conjunct, and so do
\* the second ones.
SuiteFairness ==
  /\ \A p \in Publishers :
       WF_suiteVars(WriterOnly(wpanic = "no" /\ Publishing(p)) \/ ProducerOnly(G!Publishing(p)))
  /\ \A s \in Subs : WF_suiteVars(MapOnly(S!Send(s))) /\ WF_suiteVars(MapOnly(S!Await(s)))
  /\ WF_suiteVars(NatsOnly(N!Disconnecting) \/ MqttOnly(Q!LoopConnect))
  /\ WF_suiteVars(NatsOnly(N!RequestEnd) \/ MqttOnly(Q!Hooking))

SuiteSpec == SuiteInit /\ [][SuiteNext]_suiteVars /\ SuiteFairness

------------------------------------------------------------------------------
\* The parts keep their types.  The writers of Kafka and the producers of RocketMQ that are cached are open,
\* however publishers replace broken ones under each other, and a publish that
\* returns without error has its message taken.
SendersAgree ==
  /\ TypeOK /\ G!TypeOK /\ N!TypeOK /\ Q!TypeOK /\ S!TypeOK
  /\ CachedIsOpen /\ OkIsAccepted /\ G!CachedIsOpen /\ G!OkIsAccepted

\* Subscriptions and maps agree: what NATS delivers can be stopped and Disconnect
\* silences it, what the MQTT map holds is subscribed after every reconnect, and
\* what leaves the map is unsubscribed once and accounted for.
SubscriptionsAgree ==
  /\ N!OpenIsKnown /\ N!SilentAfterDisconnect /\ Q!MappedIsServed
  /\ S!StoppedOnce /\ S!TimeoutAccounts

\* A publish returns, a NATS Disconnect without drain returns, a lost MQTT
\* connection comes back, and a call with a timeout leaves no goroutine behind.
CallsReturn ==
  /\ \A p \in Publishers :
       (\/ pub[p].pc # "idle" \/ send[p].at # "idle"
        \/ (disc \in {"waiting", "clearing"} /\ ~drain) \/ redial)
       ~> (\/ unit = "writer" /\ (pub[p].pc = "idle" \/ wpanic # "no")
           \/ unit = "producer" /\ send[p].at = "idle"
           \/ unit = "nats" /\ disc = "done"
           \/ unit = "mqtt" /\ (link \/ session = MaxSessions))
  /\ S!HelpersEnd

\* A NATS Disconnect returns, with drain as well.
NatsDisconnectReturns == N!DisconnectReturns

------------------------------------------------------------------------------
\* A step of the suite is a step, or a stutter, of every part.
LEMMA SuiteStep ==
  [SuiteNext]_suiteVars =>
    /\ [Next]_writerVars /\ [G!Next]_producerVars /\ [N!Next]_natsVars
    /\ [Q!Next]_mqttVars /\ [S!Next]_mapVars
  BY Zenon DEF SuiteNext, suiteVars, WriterOnly, ProducerOnly, NatsOnly, MqttOnly, MapOnly

\* The parts keep their invariants side by side.
LEMMA SuiteKeeps ==
  SuiteSpec => []WriterInv /\ []ProducerInv /\ []NatsInv /\ []MqttInv /\ []MapInv
<1>1. SuiteSpec => /\ Init /\ G!Init /\ N!Init /\ Q!Init /\ S!Init
                   /\ [][SuiteNext]_suiteVars
  BY DEF SuiteSpec, SuiteInit
<1> QED
  BY <1>1, SuiteStep, WriterInit, WriterStep, ProducerInit, ProducerStep, NatsInit, NatsStep,
     MqttInit, MqttStep, MapInit, MapStep, PTL

\* Publishers, writers and producers agree for any number of them, with either kind of
\* cache.
THEOREM SendersAlwaysAgree == SuiteSpec => []SendersAgree
<1>1. WriterInv /\ ProducerInv /\ NatsInv /\ MqttInv /\ MapInv => SendersAgree
  BY MapKeeps DEF SendersAgree, WriterInv, ProducerInv, NatsInv, MqttInv
<1> QED
  BY <1>1, SuiteKeeps, PTL

\* Subscriptions and maps agree for any number of subscribers, topics and connections.
THEOREM SubscriptionsAlwaysAgree == SuiteSpec => []SubscriptionsAgree
<1>1. WriterInv /\ ProducerInv /\ NatsInv /\ MqttInv /\ MapInv => SubscriptionsAgree
  BY MapKeeps DEF SubscriptionsAgree, NatsInv, MqttInv
<1> QED
  BY <1>1, SuiteKeeps, PTL
==============================================================================
