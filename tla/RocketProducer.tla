--------------------------- MODULE RocketProducer ---------------------------
(***************************************************************************)
(* broker/rocketmq/rocketmq-client-go, publishing: producers cached by     *)
(* topic; a cached one whose send fails is shut down, dropped and replaced *)
(* by a new one, which is cached when its send succeeds; Disconnect.       *)
(*                                                                         *)
(* A producer is a number, 0 is none.                                      *)
(***************************************************************************)
EXTENDS Integers

CONSTANTS Publishers, Topics,
          MaxProducers,     \* bound: producers created
          MaxSends          \* bound: publish calls

VARIABLES gup,              \* connected
          cached,           \* b.producers
          born, gone,       \* producers created so far; those shut down
          send,             \* a publisher: where it is, its topic and its producer
          sends, arrived,   \* calls so far; calls whose message the server has
          gave              \* history: a Disconnect ended at a producer's error

producerVars == <<gup, cached, born, gone, send, sends, arrived, gave>>

Resting == [at |-> "idle", topic |-> CHOOSE t \in Topics : TRUE, by |-> 0, call |-> 0, reused |-> FALSE]

\* NewBroker, Init.
Init ==
  /\ gup = FALSE /\ cached = [t \in Topics |-> 0] /\ born = 0 /\ gone = {}
  /\ send = [p \in Publishers |-> Resting] /\ sends = 0 /\ arrived = {} /\ gave = FALSE

\* Connect only sets the flag.
Connect ==
  /\ ~gup /\ gup' = TRUE
  /\ UNCHANGED <<cached, born, gone, send, sends, arrived, gave>>

\* publish: the producer of the topic, created under the lock if there is none; an
\* error of createProducer is returned.
Take(p, t, ok) ==
  /\ send[p].at = "idle" /\ sends < MaxSends /\ sends' = sends + 1
  /\ IF cached[t] # 0
     THEN /\ send' = [send EXCEPT ![p] = [at |-> "send", topic |-> t, by |-> cached[t],
                                          call |-> sends + 1, reused |-> TRUE]]
          /\ UNCHANGED <<cached, born>>
     ELSE IF ok
     THEN /\ born < MaxProducers /\ born' = born + 1 /\ cached' = [cached EXCEPT ![t] = born + 1]
          /\ send' = [send EXCEPT ![p] = [at |-> "send", topic |-> t, by |-> born + 1,
                                          call |-> sends + 1, reused |-> FALSE]]
     ELSE UNCHANGED <<cached, born, send>>
  /\ UNCHANGED <<gup, gone, arrived, gave>>

\* SendSync, which fails on a producer that is shut down; the answer of a message
\* that arrived may be lost.
SendSync(p, reached, ok) ==
  /\ send[p].at \in {"send", "resend"}
  /\ ok => reached
  /\ reached => send[p].by \notin gone
  /\ arrived' = IF reached THEN arrived \union {send[p].call} ELSE arrived

\* Faulty variant: the answer of the first send counts.
Send_Lost(p, reached, ok) ==
  /\ send[p].at = "send" /\ SendSync(p, reached, ok)
  /\ send' = [send EXCEPT ![p].at = IF ~ok /\ send[p].reused THEN "drop" ELSE "ok"]
  /\ UNCHANGED <<gup, cached, born, gone, sends, gave>>

\* The first send; only a cached producer is replaced.
Send(p, reached, ok) ==
  /\ send[p].at = "send" /\ SendSync(p, reached, ok)
  /\ send' = [send EXCEPT ![p].at = IF ok THEN "ok" ELSE IF send[p].reused THEN "drop" ELSE "failed"]
  /\ UNCHANGED <<gup, cached, born, gone, sends, gave>>

\* Faulty variant: the producer is shut down and stays in the map.
Drop_Keeps(p) ==
  /\ send[p].at = "drop" /\ gone' = gone \union {send[p].by}
  /\ send' = [send EXCEPT ![p].at = "renew"]
  /\ UNCHANGED <<gup, cached, born, sends, arrived, gave>>

\* Under the lock: Shutdown of the producer it used, delete of the topic's entry,
\* whichever producer that is by now.
Drop(p) ==
  /\ send[p].at = "drop" /\ gone' = gone \union {send[p].by}
  /\ cached' = [cached EXCEPT ![send[p].topic] = 0]
  /\ send' = [send EXCEPT ![p].at = "renew"]
  /\ UNCHANGED <<gup, born, sends, arrived, gave>>

\* createProducer, without the lock.
Renew(p, ok) ==
  /\ send[p].at = "renew"
  /\ IF ok THEN /\ born < MaxProducers /\ born' = born + 1
                /\ send' = [send EXCEPT ![p].by = born + 1, ![p].at = "resend"]
     ELSE send' = [send EXCEPT ![p].at = "failed"] /\ UNCHANGED born
  /\ UNCHANGED <<gup, cached, gone, sends, arrived, gave>>

\* The second send; a producer that fails here is not shut down.
Resend(p, reached, ok) ==
  /\ send[p].at = "resend" /\ SendSync(p, reached, ok)
  /\ send' = [send EXCEPT ![p].at = IF ok THEN "store" ELSE "failed"]
  /\ UNCHANGED <<gup, cached, born, gone, sends, gave>>

\* Under the lock: the new producer takes the entry.
Store(p) ==
  /\ send[p].at = "store"
  /\ cached' = [cached EXCEPT ![send[p].topic] = send[p].by]
  /\ send' = [send EXCEPT ![p].at = "ok"]
  /\ UNCHANGED <<gup, born, gone, sends, arrived, gave>>

\* publish returns.
Return(p) ==
  /\ send[p].at \in {"ok", "failed"} /\ send' = [send EXCEPT ![p] = Resting]
  /\ UNCHANGED <<gup, cached, born, gone, sends, arrived, gave>>

\* Disconnect: every producer is shut down; an error ends it there.
Disconnect(T, ok) ==
  /\ gup /\ T \subseteq {t \in Topics : cached[t] # 0}
  /\ IF ok THEN /\ gone' = gone \union {cached[t] : t \in {u \in Topics : cached[u] # 0}}
                /\ cached' = [t \in Topics |-> 0] /\ gup' = FALSE /\ UNCHANGED gave
     ELSE /\ T # {t \in Topics : cached[t] # 0}
          /\ gone' = gone \union {cached[t] : t \in T}
          /\ gave' = TRUE /\ UNCHANGED <<cached, gup>>
  /\ UNCHANGED <<born, send, sends, arrived>>

Publishing(p) ==
  \/ \E reached, ok \in BOOLEAN : Send(p, reached, ok) \/ Resend(p, reached, ok)
  \/ Drop(p) \/ Store(p) \/ Return(p) \/ \E ok \in BOOLEAN : Renew(p, ok)

Next ==
  \/ Connect \/ \E T \in SUBSET Topics, ok \in BOOLEAN : Disconnect(T, ok)
  \/ \E p \in Publishers :
       Publishing(p) \/ \E t \in Topics, ok \in BOOLEAN : Take(p, t, ok)

\* Calls of the client end.
Fairness == \A p \in Publishers : WF_producerVars(Publishing(p))

Spec == Init /\ [][Next]_producerVars /\ Fairness

------------------------------------------------------------------------------
\* A publisher.
SendRec == [at : {"idle", "send", "drop", "renew", "resend", "store", "ok", "failed"},
            topic : Topics, by : 0 .. MaxProducers, call : 0 .. MaxSends, reused : BOOLEAN]

\* The type of the state.
TypeOK ==
  /\ {gup, gave} \subseteq BOOLEAN /\ born \in 0 .. MaxProducers
  /\ cached \in [Topics -> 0 .. MaxProducers]
  /\ gone \subseteq 1 .. MaxProducers
  /\ send \in [Publishers -> SendRec]
  /\ sends \in 0 .. MaxSends /\ arrived \subseteq 1 .. MaxSends

\* However publishers replace producers under each other: a producer of the map is
\* not shut down, unless a Disconnect gave up half way.
CachedIsOpen == ~gave => \A t \in Topics : cached[t] \notin gone

\* A publish that returns without error has its message at the server.
OkIsAccepted == \A p \in Publishers : send[p].at \in {"ok", "store"} => send[p].call \in arrived

\* Every publish returns.
Returned == \A p \in Publishers : send[p].at # "idle" ~> send[p].at = "idle"
=============================================================================
