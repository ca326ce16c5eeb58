---------------------------- MODULE KafkaReader ----------------------------
(***************************************************************************)
(* broker/kafka, consuming: one subscriber on one partition, its loop in   *)
(* single and in batch mode, the offset it commits, and what happens when  *)
(* the handler fails, the network fails, the subscriber is closed or the   *)
(* process restarts in the middle.                                         *)
(*                                                                         *)
(* Messages are their offsets 0 .. Length - 1.  What has been fetched and  *)
(* not yet handled (the local variable of the single mode, messageBuffer   *)
(* of the batch mode) is next .. pos - 1.                                  *)
(***************************************************************************)
EXTENDS Integers

CONSTANTS Length,           \* messages of the partition
          BatchSizes,       \* values of batchSize to look at
          MaxRestarts       \* bound: restarts of the process

ASSUME KafkaReaderAssumption ==
  Length \in Nat /\ BatchSizes \subseteq Nat /\ MaxRestarts \in Nat

Offsets == 0 .. Length - 1

VARIABLES batchSize, ticking,     \* batchSize; batchInterval > 0
          loop, flushing,         \* the goroutine; inside handleBatchMessage?
          pos, next, committed,   \* to be fetched, to be handled, of the group
          kclosed, kdone,         \* s.closed; the context is done
          listed,                 \* in b.subscribers: "no", "adding" or "yes"
          khanded, ktried, kgood, \* history: given out, handled, handled without error
          restarts

readerVars == <<batchSize, ticking, loop, flushing, pos, next, committed, kclosed, kdone,
                listed, khanded, ktried, kgood, restarts>>
config   == <<batchSize, ticking>>
history  == <<khanded, ktried, kgood>>

IsBatchMode == batchSize > 0 \/ ticking

Init ==
  /\ batchSize \in BatchSizes /\ ticking \in BOOLEAN
  /\ loop = "none" /\ flushing = FALSE
  /\ pos = 0 /\ next = 0 /\ committed = 0
  /\ kclosed = FALSE /\ kdone = FALSE /\ listed = "no"
  /\ khanded = {} /\ ktried = {} /\ kgood = {}
  /\ restarts = 0

\* Subscribe, up to go sub.run(): the reader starts at the offset of the group;
\* a batch without an interval panics in NewTicker.
Subscribe ==
  /\ loop = "none"
  /\ loop' = IF IsBatchMode /\ ~ticking THEN "panic" ELSE "select"
  /\ pos' = committed /\ next' = committed /\ listed' = "adding"
  /\ UNCHANGED <<config, flushing, committed, kclosed, kdone, history, restarts>>

\* Subscribe: subscribers.Add.
Listed ==
  /\ listed = "adding" /\ loop # "panic"
  /\ listed' = "yes"
  /\ UNCHANGED <<config, loop, flushing, pos, next, committed, kclosed, kdone, history, restarts>>

loopOnly == <<config, committed, kdone, listed, restarts>>

\* The select finds the context done: close, and the loop ends. (s.done is nil
\* once it is closed, so the loop learns of a close from FetchMessage below.)
SeesDone ==
  /\ loop = "select" /\ ~flushing /\ kdone
  /\ kclosed' = TRUE /\ loop' = "gone"
  /\ UNCHANGED <<loopOnly, flushing, pos, next, history>>

\* The ticker of the batch mode.
Tick ==
  /\ loop = "select" /\ ~flushing /\ ticking /\ next < pos
  /\ flushing' = TRUE
  /\ UNCHANGED <<loopOnly, loop, pos, next, kclosed, history>>

\* FetchMessage returns a message; the single mode handles it, the batch mode once
\* the buffer is full.
Fetch ==
  /\ loop = "select" /\ ~flushing /\ ~kclosed /\ pos < Length
  /\ pos' = pos + 1 /\ khanded' = khanded \union {pos}
  /\ flushing' = (~IsBatchMode \/ pos + 1 - next >= batchSize)
  /\ UNCHANGED <<loopOnly, loop, next, kclosed, ktried, kgood>>

\* FetchMessage fails with an error isFatalError takes for fatal (closed, context
\* done, or not temporary): the loop ends and closes nothing. After any other
\* error it backs off and goes on, which changes nothing here.
FetchFails ==
  /\ loop = "select" /\ ~flushing
  /\ loop' = "gone"
  /\ UNCHANGED <<loopOnly, flushing, pos, next, kclosed, history>>

\* Faulty variant: a message is passed over before it is handled.
Handle_Skips(ok) ==
  /\ loop = "select" /\ flushing
  /\ ktried' = IF ok THEN ktried \union {next} ELSE ktried
  /\ kgood' = IF ok THEN kgood \union {next} ELSE kgood
  /\ IF ok THEN loop' = "ack" /\ UNCHANGED <<next, flushing>>
     ELSE next' = next + 1 /\ flushing' = (next + 1 < pos) /\ UNCHANGED loop
  /\ UNCHANGED <<loopOnly, pos, kclosed, khanded>>

\* handleMessage: a message that cannot be decoded or that the handler refuses is
\* passed over without a commit; one it takes is committed next.
Handle(ok) ==
  /\ loop = "select" /\ flushing
  /\ ktried' = ktried \union {next}
  /\ kgood' = IF ok THEN kgood \union {next} ELSE kgood
  /\ IF ok THEN loop' = "ack" /\ UNCHANGED <<next, flushing>>
     ELSE next' = next + 1 /\ flushing' = (next + 1 < pos) /\ UNCHANGED loop
  /\ UNCHANGED <<loopOnly, pos, kclosed, khanded>>

\* Faulty variant: the whole batch is committed with its first message.
Ack_Batch(ok) ==
  /\ loop = "ack"
  /\ committed' = IF ok THEN pos ELSE committed
  /\ next' = next + 1 /\ flushing' = (next + 1 < pos) /\ loop' = "select"
  /\ UNCHANGED <<config, pos, kclosed, kdone, listed, history, restarts>>

\* Ack, CommitMessages: the group's offset moves past this message, and past all
\* before it; it fails on a reader that is closed, and may fail on any.
Ack(ok) ==
  /\ loop = "ack" /\ (ok => ~kclosed)
  /\ committed' = IF ok THEN next + 1 ELSE committed
  /\ next' = next + 1 /\ flushing' = (next + 1 < pos) /\ loop' = "select"
  /\ UNCHANGED <<config, pos, kclosed, kdone, listed, history, restarts>>

\* Unsubscribe, closeLocked: called by the application once Subscribe has returned,
\* and by Disconnect for a subscriber it finds; one that is not added yet it leaves.
Unsubscribe ==
  /\ listed = "yes" /\ loop # "none"
  /\ kclosed' = TRUE /\ listed' = "no"
  /\ UNCHANGED <<config, loop, flushing, pos, next, committed, kdone, history, restarts>>

\* The context of the subscription is cancelled.
Cancel ==
  /\ ~kdone /\ kdone' = TRUE
  /\ UNCHANGED <<config, loop, flushing, pos, next, committed, kclosed, listed, history, restarts>>

\* The process dies and starts again.
Restart ==
  /\ loop # "none" /\ restarts < MaxRestarts
  /\ restarts' = restarts + 1
  /\ loop' = "none" /\ flushing' = FALSE /\ kclosed' = FALSE /\ kdone' = FALSE /\ listed' = "no"
  /\ UNCHANGED <<config, pos, next, committed, history>>

\* What a loop does with the messages it fetched, one at a time or a batch.
Settling == \E ok \in BOOLEAN : Handle(ok) \/ Ack(ok)

\* The ways on from the select once the subscriber is closed or its context done.
Ending == SeesDone \/ (FetchFails /\ (kclosed \/ kdone))

Next == \/ Subscribe \/ Listed \/ SeesDone \/ Tick \/ Fetch \/ FetchFails
        \/ Settling \/ Unsubscribe \/ Cancel \/ Restart

\* The goroutine runs, the handler and the calls of the reader return.
Fairness == WF_readerVars(Settling) /\ WF_readerVars(Ending)

Spec == Init /\ [][Next]_readerVars /\ Fairness

------------------------------------------------------------------------------
\* The type of the state.
TypeOK ==
  /\ batchSize \in BatchSizes /\ ticking \in BOOLEAN
  /\ loop \in {"none", "select", "ack", "gone", "panic"} /\ flushing \in BOOLEAN
  /\ pos \in 0 .. Length /\ next \in 0 .. Length /\ committed \in 0 .. Length
  /\ kclosed \in BOOLEAN /\ kdone \in BOOLEAN /\ listed \in {"no", "adding", "yes"}
  /\ khanded \subseteq Offsets /\ ktried \subseteq Offsets /\ kgood \subseteq Offsets
  /\ restarts \in 0 .. MaxRestarts

Settled == 0 .. committed - 1

D == INSTANCE Delivery WITH Messages <- Offsets, strict <- FALSE, settled <- Settled,
                            handed <- khanded, tried <- ktried, good <- kgood

\* The loop implements the contract of a consumer: in both modes, with failing
\* handlers and restarts, the group's offset never passes a message that
\* handleMessage was not called with.
ImplementsDelivery == D!Spec

Closing == (kclosed \/ kdone) /\ loop \in {"select", "ack"}
Over    == loop \notin {"select", "ack"}

\* A closed subscriber's goroutine ends, although s.done, which it selects on, has
\* become nil.
LoopEnds == Closing ~> Over
=============================================================================
