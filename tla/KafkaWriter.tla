---------------------------- MODULE KafkaWriter ----------------------------
(***************************************************************************)
(* broker/kafka, publishing: the kafka-go writers the broker caches, one   *)
(* per topic or one for all, and publishers that use them, find them       *)
(* broken, replace them and race each other and Disconnect.                *)
(*                                                                         *)
(* A kafka-go Writer is a number, 0 is nil.  The lock of the broker covers *)
(* one action; what a publisher does between two of them, it does with     *)
(* what it read before.  A panic ends the program.                         *)
(***************************************************************************)
EXTENDS Integers

CONSTANTS Publishers, Topics,
          Retries,          \* retriesCount
          MaxCalls          \* bound: calls of Publish

ASSUME KafkaWriterAssumption ==
  Publishers # {} /\ Topics # {} /\ Retries \in Nat /\ MaxCalls \in Nat

VARIABLES perTopic,         \* EnableOneTopicOneWriter
          up,               \* connected
          cache,            \* Writers, or Writer in every entry
          noMap,            \* Writers is nil
          made, shut,       \* writers created; the ones closed
          pub,              \* the publishers
          calls, accepted,  \* calls so far; publishers whose message a writer took
          wpanic

writerVars == <<perTopic, up, cache, noMap, made, shut, pub, calls, accepted, wpanic>>

Idle == [pc |-> "idle", topic |-> CHOOSE t \in Topics : TRUE, w |-> 0, cached |-> FALSE,
         tries |-> 0, result |-> "none"]

\* NewBroker and Init: a Writer without any kafka-go Writer, connected.
Init ==
  /\ perTopic \in BOOLEAN /\ up = TRUE
  /\ cache = [t \in Topics |-> 0] /\ noMap = FALSE
  /\ made = 0 /\ shut = {}
  /\ pub = [p \in Publishers |-> Idle]
  /\ calls = 0 /\ accepted = {}
  /\ wpanic = "no"

\* The entry of a topic in Writers, or the one Writer.
Slots(t) == IF perTopic THEN {t} ELSE Topics

Stored(t, w) == cache' = [s \in Topics |-> IF s \in Slots(t) THEN w ELSE cache[s]]

\* The writer a publisher calls: the one it holds, but publishOneWriter reads
\* b.writer.Writer again, without the lock.
Target(p) == IF perTopic THEN pub[p].w ELSE cache[pub[p].topic]

Returns(p, r) == pub' = [pub EXCEPT ![p].pc = "idle", ![p].result = r]

\* CreateProducer and initPublishOption: a kafka-go Writer more.
CreateProducer == made' = made + 1

\* Connect and the guard of Disconnect only look at the flag; Writers stays nil.
Connect ==
  /\ ~up /\ up' = TRUE
  /\ UNCHANGED <<perTopic, cache, noMap, made, shut, pub, calls, accepted, wpanic>>

\* Faulty variant: the writers are closed and kept.
Disconnect_KeepsCache ==
  /\ up /\ up' = FALSE
  /\ shut' = shut \union ({cache[t] : t \in Topics} \ {0})
  /\ UNCHANGED <<perTopic, cache, noMap, made, pub, calls, accepted, wpanic>>

\* Writer.Close: all writers closed, Writer and Writers nil.
Close ==
  /\ shut' = shut \union ({cache[t] : t \in Topics} \ {0})
  /\ cache' = [t \in Topics |-> 0] /\ noMap' = TRUE

\* Disconnect: nothing without a connection; Clear and Writer.Close.
Disconnect ==
  /\ up /\ up' = FALSE /\ Close
  /\ UNCHANGED <<perTopic, made, pub, calls, accepted, wpanic>>

\* Publish, internalPublish and the first critical section of the two publish
\* functions: the cached writer, or a new one put into the cache; a store into a
\* nil map panics.
Begin(p, t) ==
  /\ pub[p].pc = "idle" /\ calls < MaxCalls
  /\ calls' = calls + 1 /\ accepted' = accepted \ {p}
  /\ LET fresh == cache[t] = 0
         w == IF fresh THEN made + 1 ELSE cache[t]
     IN /\ IF fresh THEN CreateProducer ELSE UNCHANGED made
        /\ wpanic' = IF fresh /\ perTopic /\ noMap THEN "nilMap" ELSE wpanic
        /\ IF fresh THEN Stored(t, w) ELSE UNCHANGED cache
        /\ pub' = [pub EXCEPT ![p] = [pc |-> "write", topic |-> t, w |-> w,
                                      cached |-> ~fresh, tries |-> 0, result |-> "none"]]
  /\ UNCHANGED <<perTopic, up, noMap, shut>>

writeOnly == <<perTopic, up, cache, noMap, made, shut, calls>>

\* WriteMessages: an open writer takes the message or fails; a closed one fails;
\* nil is dereferenced.
Took(p, w) == w # 0 /\ w \notin shut /\ accepted' = accepted \union {p}

\* Faulty variant: the error of a fresh writer is dropped.
Write_DropsError(p) ==
  /\ pub[p].pc = "write"
  /\ \/ /\ Took(p, Target(p)) /\ Returns(p, "ok") /\ UNCHANGED wpanic
     \/ /\ Target(p) # 0 /\ UNCHANGED <<accepted, wpanic>>
        /\ IF pub[p].cached THEN pub' = [pub EXCEPT ![p].pc = "swap"] ELSE Returns(p, "ok")
     \/ Target(p) = 0 /\ wpanic' = "nilWriter" /\ UNCHANGED <<pub, accepted>>
  /\ UNCHANGED writeOnly

\* The first WriteMessages. A failure of a cached writer leads to a new one; a
\* fresh writer tries again after a temporary error only.
Write(p) ==
  /\ pub[p].pc = "write"
  /\ \/ /\ Took(p, Target(p)) /\ Returns(p, "ok") /\ UNCHANGED wpanic
     \/ /\ Target(p) # 0 /\ UNCHANGED <<accepted, wpanic>>
        /\ IF pub[p].cached THEN pub' = [pub EXCEPT ![p].pc = "swap"]
           ELSE \/ Returns(p, "error")
                \/ Target(p) \notin shut /\ pub' = [pub EXCEPT ![p].pc = "again"]
     \/ Target(p) = 0 /\ wpanic' = "nilWriter" /\ UNCHANGED <<pub, accepted>>
  /\ UNCHANGED writeOnly

\* The second WriteMessages, 200 ms after a temporary error.
Again(p) ==
  /\ pub[p].pc = "again"
  /\ \/ Took(p, Target(p)) /\ Returns(p, "ok") /\ UNCHANGED wpanic
     \/ Target(p) # 0 /\ Returns(p, "error") /\ UNCHANGED <<accepted, wpanic>>
     \/ Target(p) = 0 /\ wpanic' = "nilWriter" /\ UNCHANGED <<pub, accepted>>
  /\ UNCHANGED writeOnly

\* The case of a cached writer: it is closed, which leaves err nil, its entry
\* deleted, whoever is in it by now, and a new writer made outside the cache.
Swap(p) ==
  /\ pub[p].pc = "swap"
  /\ IF Target(p) = 0
     THEN wpanic' = "nilWriter" /\ UNCHANGED <<cache, made, shut, pub>>
     ELSE /\ shut' = shut \union {Target(p)}
          /\ Stored(pub[p].topic, 0)
          /\ CreateProducer
          /\ IF Retries = 0 THEN Returns(p, "ok")
             ELSE pub' = [pub EXCEPT ![p].pc = "retry", ![p].w = made + 1]
          /\ UNCHANGED wpanic
  /\ UNCHANGED <<perTopic, up, noMap, calls, accepted>>

\* One turn of the retry loop with the new writer, which is closed if the last
\* one fails.
Retry(p) ==
  /\ pub[p].pc = "retry"
  /\ \/ /\ Took(p, pub[p].w) /\ UNCHANGED shut
        /\ pub' = [pub EXCEPT ![p].pc = "store"]
     \/ /\ UNCHANGED accepted
        /\ IF pub[p].tries + 1 < Retries
           THEN pub' = [pub EXCEPT ![p].tries = @ + 1] /\ UNCHANGED shut
           ELSE Returns(p, "error") /\ shut' = shut \union {pub[p].w}
  /\ UNCHANGED <<perTopic, up, cache, noMap, made, calls, wpanic>>

\* The new writer goes into the cache, over whatever is there.
Store(p) ==
  /\ pub[p].pc = "store"
  /\ Stored(pub[p].topic, pub[p].w)
  /\ Returns(p, "ok")
  /\ wpanic' = IF perTopic /\ noMap THEN "nilMap" ELSE wpanic
  /\ UNCHANGED <<perTopic, up, noMap, made, shut, calls, accepted>>

\* The rest of a publish; publishOneWriter goes through the same steps over its one slot.
Publishing(p) == Write(p) \/ Again(p) \/ Swap(p) \/ Retry(p) \/ Store(p)

Next ==
  /\ wpanic = "no"
  /\ \/ Connect \/ Disconnect
     \/ \E p \in Publishers : Publishing(p) \/ \E t \in Topics : Begin(p, t)

\* Goroutines run, and WriteMessages returns.
Fairness == \A p \in Publishers : WF_writerVars(wpanic = "no" /\ Publishing(p))

Spec == Init /\ [][Next]_writerVars /\ Fairness

------------------------------------------------------------------------------
\* A publisher.
PubRec == [pc : {"idle", "write", "again", "swap", "retry", "store"}, topic : Topics,
           w : 0 .. made, cached : BOOLEAN, tries : 0 .. Retries,
           result : {"none", "ok", "error"}]

\* The type of the state.
TypeOK ==
  /\ perTopic \in BOOLEAN /\ up \in BOOLEAN /\ noMap \in BOOLEAN
  /\ made \in Nat /\ calls \in 0 .. MaxCalls
  /\ cache \in [Topics -> 0 .. made] /\ shut \subseteq 1 .. made
  /\ pub \in [Publishers -> PubRec]
  /\ accepted \subseteq Publishers
  /\ wpanic \in {"no", "nilMap", "nilWriter"}

\* A writer in the cache is open: however publishers that found one broken close,
\* delete and store in each other's way, the next one never starts with a writer
\* that somebody has closed.
CachedIsOpen == wpanic = "no" => \A t \in Topics : cache[t] \notin shut

\* Publish returns nil only if an open writer has taken this call's message, on
\* whichever of its attempts (retriesCount is at least 1: a Close that succeeds
\* would otherwise stand in for the send).
OkIsAccepted ==
  Retries > 0 => \A p \in Publishers : pub[p].result = "ok" => p \in accepted

\* Publish returns.
Returned == \A p \in Publishers : pub[p].pc # "idle" ~> (pub[p].pc = "idle" \/ wpanic # "no")
=============================================================================
