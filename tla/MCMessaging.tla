----------------------------- MODULE MCMessaging -----------------------------
(***************************************************************************)
(* The RabbitMQ broker and the broker server on small instances.  unit     *)
(* names the part that runs; the others rest in their initial states.      *)
(*   link    RabbitMQ: one subscriber, a publisher, lost connections       *)
(*   subs    RabbitMQ: subscribers that may share a topic, no losses       *)
(*   server  the broker server: RegisterSubscriber, Start and Stop at once *)
(*   restart the six broker servers over their brokers, stopped and started *)
(***************************************************************************)
EXTENDS Rabbit

CONSTANTS Units, Keys, Starters, MaxStarts, ServerKinds, MaxRegs, MaxRuns

VARIABLES unit, started, failed, opts, subscribers, up, live, startAt, todo, stopAt,
          starts, wanted, raced, excused,
          kind, running, broken, pending, held, joined, spent, redial, table, feeds,
          orphans, panicked, regs, runs, latest, doubled, slipped

serverVars == <<started, failed, opts, subscribers, up, live, startAt, todo, stopAt,
                starts, wanted, raced, excused>>
restartVars == <<kind, running, broken, pending, held, joined, spent, redial, table, feeds,
                 orphans, panicked, regs, runs, latest, doubled, slipped>>
suiteVars  == <<unit, vars, serverVars, restartVars>>

B == INSTANCE BrokerServer WITH Kinds <- ServerKinds, Topics <- Keys, crashed <- panicked

\* In "link" one subscriber is used, on one topic.
Lone == CHOOSE s \in Subs : TRUE
LinkOnly == \A s \in Subs : sub'[s].topic = sub[s].topic /\ (s # Lone => sub'[s] = sub[s])
SubsOnly == ~pub' /\ drops' = 0 /\ halves' = 0 /\ crashed' # "publish"

RabbitStep ==
  /\ unit \in {"link", "subs"} /\ Next
  /\ IF unit = "link" THEN LinkOnly ELSE SubsOnly
  /\ UNCHANGED <<unit, serverVars, restartVars>>
ServerStep == unit = "server" /\ B!Next /\ UNCHANGED <<unit, vars, restartVars>>
RestartStep == unit = "restart" /\ B!RestartNext /\ UNCHANGED <<unit, vars, serverVars>>

SuiteInit == /\ unit \in Units /\ Init /\ B!Init /\ B!RestartInit
             /\ unit # "restart" => kind = CHOOSE k \in ServerKinds : TRUE
SuiteNext == RabbitStep \/ ServerStep \/ RestartStep
SuiteSpec == SuiteInit /\ [][SuiteNext]_suiteVars /\ Fairness

------------------------------------------------------------------------------
\* The types of the parts.
AllTypesOK == TypeOK /\ B!TypeOK /\ B!RestartTypeOK

\* A lost connection comes back with the subscriptions, and Disconnect returns.
LinkRecovers == Resubscribes /\ DisconnectReturns

\* A started server serves every topic that was not registered while Start or Stop
\* ran or before two Starts that overlapped, and a stopped one holds no subscription
\* and no connection, unless a Start has failed or run beside its Stop.  One that is
\* stopped and started again delivers each topic to the handler that was registered
\* last in this run and to no handler of an earlier one, and a first run never panics.
ServersServe ==
  /\ B!RegisteredIsServed /\ B!StoppedIsDown
  /\ B!StoppedIsSilent /\ B!RunningIsServed /\ B!OnlyThisRun /\ B!FirstRunIsSafe
==============================================================================
