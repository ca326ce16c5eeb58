--------------------------- MODULE SubscriberMap ---------------------------
(***************************************************************************)
(* broker/subscriber.go, SubscriberSyncMap: the map of topics to           *)
(* subscribers that every broker keeps.  A subscriber that leaves the map  *)
(* is unsubscribed without the map's lock, with Remove and Clear by the    *)
(* caller, with the ...WithTimeout variants by a helper goroutine that the *)
(* caller may stop waiting for.                                            *)
(***************************************************************************)
EXTENDS Integers

CONSTANTS Subs, Topics, NoSub

VARIABLES smap,             \* sm.m
          stopped,          \* per subscriber: "no", "byCaller", "byHelper", "yes"
          topicOf,          \* the topic it was added under
          taking,           \* those whose Unsubscribe(true) will call RemoveOnly
          lost,             \* history: displaced or removed by another, or by ForceClear
          helper,           \* per subscriber, the goroutine: "none", "running", "sending", "ended"
          awaited, failed   \* the ...WithTimeout call: what it waits for; what timed out, ever

smapVars == <<smap, stopped, topicOf, taking, lost, helper, awaited, failed>>

Held == {smap[t] : t \in Topics} \ {NoSub}

\* NewSubscriberSyncMap.
Init ==
  /\ smap = [t \in Topics |-> NoSub]
  /\ stopped = [s \in Subs |-> "no"] /\ topicOf = [s \in Subs |-> CHOOSE t \in Topics : TRUE]
  /\ taking = {} /\ lost = {} /\ helper = [s \in Subs |-> "none"]
  /\ awaited = {} /\ failed = {}

\* Add.
Add(s, t) ==
  /\ s \notin Held /\ s \notin lost /\ stopped[s] = "no"
  /\ smap' = [smap EXCEPT ![t] = s] /\ topicOf' = [topicOf EXCEPT ![s] = t]
  /\ lost' = lost \union ({smap[t]} \ {NoSub})
  /\ UNCHANGED <<stopped, taking, helper, awaited, failed>>

\* Faulty variant: the entries are copied, not taken out.
Take_Copies(T, who, own) ==
  LET S == {smap[t] : t \in T} \ {NoSub} IN
    /\ S # {} /\ smap' = smap
    /\ stopped' = [s \in Subs |-> IF s \in S THEN who ELSE stopped[s]]
    /\ taking' = IF own THEN taking \union S ELSE taking

\* The entries of T leave the map under its lock; their subscribers are unsubscribed
\* afterwards.
Take(T, who, own) ==
  LET S == {smap[t] : t \in T} \ {NoSub} IN
    /\ S # {} /\ smap' = [t \in Topics |-> IF t \in T THEN NoSub ELSE smap[t]]
    /\ stopped' = [s \in Subs |-> IF s \in S THEN who ELSE stopped[s]]
    /\ taking' = IF own THEN taking \union S ELSE taking

\* Remove.
Remove(t) ==
  /\ Take({t}, "byCaller", TRUE)
  /\ UNCHANGED <<topicOf, lost, helper, awaited, failed>>

\* Clear.
Clear ==
  /\ Take(Topics, "byCaller", FALSE)
  /\ UNCHANGED <<topicOf, lost, helper, awaited, failed>>

\* A helper per subscriber, which the caller waits for.
Delegate(T) ==
  LET S == {smap[t] : t \in T} \ {NoSub} IN
    /\ awaited = {} /\ awaited' = S
    /\ helper' = [s \in Subs |-> IF s \in S THEN "running" ELSE helper[s]]
    /\ UNCHANGED failed

\* RemoveWithTimeout.
RemoveWithTimeout(t) ==
  /\ Take({t}, "byHelper", TRUE) /\ Delegate({t})
  /\ UNCHANGED <<topicOf, lost>>

\* ClearWithTimeout.
ClearWithTimeout ==
  /\ Take(Topics, "byHelper", FALSE) /\ Delegate(Topics)
  /\ UNCHANGED <<topicOf, lost>>

\* ForceClear.
ForceClear ==
  /\ Held # {} /\ lost' = lost \union Held /\ smap' = [t \in Topics |-> NoSub]
  /\ UNCHANGED <<stopped, topicOf, taking, helper, awaited, failed>>

\* The application calls Unsubscribe(true) itself.
Unsubscribe(s) ==
  /\ s \in Held /\ stopped[s] = "no" /\ stopped' = [stopped EXCEPT ![s] = "byCaller"]
  /\ taking' = taking \union {s}
  /\ UNCHANGED <<smap, topicOf, lost, helper, awaited, failed>>

\* An Unsubscribe ends: RemoveOnly of its topic, whoever holds that by now, and the
\* helper has a result.
Stopped(s) ==
  /\ stopped[s] \in {"byCaller", "byHelper"}
  /\ stopped' = [stopped EXCEPT ![s] = "yes"]
  /\ IF s \in taking
     THEN /\ smap' = [smap EXCEPT ![topicOf[s]] = NoSub]
          /\ lost' = lost \union ({smap[topicOf[s]]} \ {NoSub, s})
     ELSE UNCHANGED <<smap, lost>>
  /\ helper' = [helper EXCEPT ![s] = IF @ = "running" THEN "sending" ELSE @]
  /\ UNCHANGED <<topicOf, taking, awaited, failed>>

\* Faulty variant: done is unbuffered.
Send_Unbuffered(s) ==
  /\ helper[s] = "sending" /\ s \in awaited
  /\ helper' = [helper EXCEPT ![s] = "ended"]
  /\ UNCHANGED <<smap, stopped, topicOf, taking, lost, awaited, failed>>

\* done <- err: done has room for one.
Send(s) ==
  /\ helper[s] = "sending" /\ helper' = [helper EXCEPT ![s] = "ended"]
  /\ UNCHANGED <<smap, stopped, topicOf, taking, lost, awaited, failed>>

\* The caller's select: the result, or the timeout.
Await(s) ==
  /\ s \in awaited /\ awaited' = awaited \ {s}
  /\ (helper[s] = "ended" /\ UNCHANGED failed) \/ failed' = failed \union {s}
  /\ UNCHANGED <<smap, stopped, topicOf, taking, lost, helper>>

Next ==
  \/ Clear \/ ClearWithTimeout \/ ForceClear
  \/ \E t \in Topics : Remove(t) \/ RemoveWithTimeout(t) \/ \E s \in Subs : Add(s, t)
  \/ \E s \in Subs : Unsubscribe(s) \/ Stopped(s) \/ Send(s) \/ Await(s)

\* Goroutines run and timers fire; an Unsubscribe may hang.
Fairness == \A s \in Subs : WF_smapVars(Send(s)) /\ WF_smapVars(Await(s))

Spec == Init /\ [][Next]_smapVars /\ Fairness

------------------------------------------------------------------------------
\* The type of the state.
TypeOK ==
  /\ smap \in [Topics -> Subs \union {NoSub}]
  /\ stopped \in [Subs -> {"no", "byCaller", "byHelper", "yes"}]
  /\ helper \in [Subs -> {"none", "running", "sending", "ended"}]
  /\ \A S \in {taking, lost, awaited, failed} : S \subseteq Subs

\* A subscriber is unsubscribed by one call only: what leaves the map to be stopped
\* is not in it any more, but for an Unsubscribe of the application.
StoppedOnce == \A s \in Held : stopped[s] \in {"byHelper", "yes"} => s \in lost

\* Calls with a timeout account for every subscriber: what they do not report has been
\* unsubscribed.
TimeoutAccounts ==
  \A s \in Subs : helper[s] # "none" /\ s \notin awaited \union failed =>
    stopped[s] = "yes"

\* Calls with a timeout return, and leave no goroutine behind once Unsubscribe returns.
HelpersEnd == \A s \in Subs : /\ s \in awaited ~> s \notin awaited
                              /\ helper[s] = "sending" ~> helper[s] = "ended"
=============================================================================
