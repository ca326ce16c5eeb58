-------------------------------- MODULE Nats --------------------------------
(***************************************************************************)
(* broker/nats, the core broker: Connect, Subscribe, Unsubscribe, Publish  *)
(* and Disconnect of one connection that the client may give up, with and  *)
(* without the drain option, whose callbacks and whose Disconnect send on  *)
(* closeCh.  Nothing in the package receives from it.                      *)
(*                                                                         *)
(* A connection is a number, 0 is nil; b's lock covers one action unless   *)
(* Disconnect is under way.                                                *)
(***************************************************************************)
EXTENDS Integers

CONSTANTS Subs, Topics, NoSub,
          MaxDials,         \* bound: connections
          MaxAsking         \* bound: calls that hold the read lock

VARIABLES drain,                    \* DrainConnection is set
          nconn, nopen, nup,        \* b.conn; is it open; connected
          ndials,
          natsSub,                  \* the subscribers: state, topic, connection
          entry,                    \* b.subscribers
          disc, stopping,           \* Disconnect; subscribers Clear still stops
          sender,                   \* the client's callback goroutine waits on closeCh
          asking                    \* publish and request calls that hold the read lock

natsVars == <<drain, nconn, nopen, nup, ndials, natsSub, entry, disc, stopping, sender, asking>>

\* NewBroker, Init and setOption.
Init ==
  /\ drain \in BOOLEAN
  /\ nconn = 0 /\ nopen = FALSE /\ nup = FALSE /\ ndials = 0
  /\ natsSub = [s \in Subs |-> [at |-> "none", topic |-> CHOOSE t \in Topics : TRUE, conn |-> 0]]
  /\ entry = [t \in Topics |-> NoSub]
  /\ disc = "no" /\ stopping = {} /\ sender = FALSE /\ asking = 0

\* Nobody holds b's lock or waits for it as a writer.
Unlocked == disc \in {"no", "done"}

\* Connect: a connection that is not closed is kept, otherwise a new one is made.
Connect(ok) ==
  /\ Unlocked /\ asking = 0 /\ ~nup /\ ndials < MaxDials
  /\ IF nopen THEN nup' = TRUE /\ UNCHANGED <<nconn, nopen, ndials>>
     ELSE IF ok THEN /\ ndials' = ndials + 1 /\ nconn' = ndials + 1
                     /\ nopen' = TRUE /\ nup' = TRUE
     ELSE UNCHANGED <<nconn, nopen, nup, ndials>>
  /\ disc' = "no"
  /\ UNCHANGED <<drain, natsSub, entry, stopping, sender, asking>>

\* The client loses the connection, for a while or for good; connected stays. With
\* drain onDisconnectedError and onClose wait on closeCh.
Lose ==
  /\ nopen /\ nopen' \in BOOLEAN
  /\ sender' = (sender \/ drain)
  /\ UNCHANGED <<drain, nconn, nup, ndials, natsSub, entry, disc, stopping, asking>>

\* Subscribe: the check of b.conn and the call of the client, which fails on a
\* connection that is closed;
Subscribe(s, t) ==
  /\ Unlocked /\ natsSub[s].at = "none" /\ nconn # 0 /\ nopen
  /\ natsSub' = [natsSub EXCEPT ![s] = [at |-> "made", topic |-> t, conn |-> nconn]]
  /\ UNCHANGED <<drain, nconn, nopen, nup, ndials, entry, disc, stopping, sender, asking>>

\* Faulty variant: the subscriber is not added.
Add_Forgets(s) ==
  /\ natsSub[s].at = "made"
  /\ natsSub' = [natsSub EXCEPT ![s].at = "on"]
  /\ UNCHANGED <<drain, nconn, nopen, nup, ndials, entry, disc, stopping, sender, asking>>

\* subscribers.Add, which is not under b's lock.
Add(s) ==
  /\ natsSub[s].at = "made"
  /\ natsSub' = [natsSub EXCEPT ![s].at = "on"]
  /\ entry' = [entry EXCEPT ![natsSub[s].topic] = s]
  /\ UNCHANGED <<drain, nconn, nopen, nup, ndials, disc, stopping, sender, asking>>

\* Unsubscribe(true): RemoveOnly goes by topic, every time.
Unsubscribe(s) ==
  /\ natsSub[s].at \in {"on", "off"}
  /\ natsSub' = [natsSub EXCEPT ![s].at = "off"]
  /\ entry' = [entry EXCEPT ![natsSub[s].topic] = NoSub]
  /\ UNCHANGED <<drain, nconn, nopen, nup, ndials, disc, stopping, sender, asking>>

\* publish and request keep the read lock until the client answers, which for a
\* request takes at most its timeout.
Request ==
  /\ Unlocked /\ nconn # 0 /\ asking < MaxAsking /\ asking' = asking + 1
  /\ UNCHANGED <<drain, nconn, nopen, nup, ndials, natsSub, entry, disc, stopping, sender>>

RequestEnd ==
  /\ asking > 0 /\ asking' = asking - 1
  /\ UNCHANGED <<drain, nconn, nopen, nup, ndials, natsSub, entry, disc, stopping, sender>>

\* Disconnect asks for the lock, which keeps new readers out,
DisconnectCall ==
  /\ Unlocked /\ disc' = "waiting"
  /\ UNCHANGED <<drain, nconn, nopen, nup, ndials, natsSub, entry, stopping, sender, asking>>

\* and takes it; with drain it drains and then sends on closeCh;
DisconnectStart ==
  /\ disc = "waiting" /\ asking = 0
  /\ IF drain THEN disc' = "sending" /\ UNCHANGED <<entry, stopping>>
     ELSE /\ disc' = "clearing"
          /\ stopping' = {entry[t] : t \in Topics} \ {NoSub}
          /\ entry' = [t \in Topics |-> NoSub]
  /\ UNCHANGED <<drain, nconn, nopen, nup, ndials, natsSub, sender, asking>>

\* a connection that is drained is closed by the client, whose callback also sends.
Drained ==
  /\ disc = "sending" /\ nopen /\ nopen' = FALSE
  /\ sender' = TRUE
  /\ UNCHANGED <<drain, nconn, nup, ndials, natsSub, entry, disc, stopping, asking>>

\* Disconnect: Clear calls Unsubscribe(false) on each,
ClearOne(s) ==
  /\ s \in stopping /\ stopping' = stopping \ {s}
  /\ natsSub' = [natsSub EXCEPT ![s].at = "off"]
  /\ UNCHANGED <<drain, nconn, nopen, nup, ndials, entry, disc, sender, asking>>

\* Faulty variant: the connection is left open.
DisconnectEnd_LeavesOpen ==
  /\ disc = "clearing" /\ stopping = {} /\ disc' = "done"
  /\ nup' = FALSE
  /\ UNCHANGED <<drain, nconn, nopen, ndials, natsSub, entry, stopping, sender, asking>>

\* and the connection is closed.
DisconnectEnd ==
  /\ disc = "clearing" /\ stopping = {} /\ disc' = "done"
  /\ nopen' = FALSE /\ nup' = FALSE
  /\ UNCHANGED <<drain, nconn, ndials, natsSub, entry, stopping, sender, asking>>

Disconnecting == DisconnectStart \/ DisconnectEnd \/ \E s \in Subs : ClearOne(s)

Next ==
  \/ \E ok \in BOOLEAN : Connect(ok)
  \/ Lose \/ Request \/ RequestEnd \/ DisconnectCall \/ Drained \/ Disconnecting
  \/ \E s \in Subs : Add(s) \/ Unsubscribe(s) \/ \E t \in Topics : Subscribe(s, t)

\* Calls of the client end; Disconnect is stopped by readers and by closeCh only.
Fairness == WF_natsVars(Disconnecting) /\ WF_natsVars(RequestEnd)

Spec == Init /\ [][Next]_natsVars /\ Fairness

------------------------------------------------------------------------------
\* A subscription that can deliver: its connection is the one that is open.
Delivering(s) == natsSub[s].at \in {"made", "on"} /\ natsSub[s].conn = nconn /\ nopen

\* A subscriber.
SubRec == [at : {"none", "made", "on", "off"}, topic : Topics, conn : 0 .. MaxDials]

\* The type of the state.
TypeOK ==
  /\ {drain, nopen, nup} \subseteq BOOLEAN /\ nconn \in 0 .. MaxDials
  /\ natsSub \in [Subs -> SubRec]
  /\ entry \in [Topics -> Subs \union {NoSub}]
  /\ disc \in {"no", "waiting", "sending", "clearing", "done"} /\ stopping \subseteq Subs
  /\ sender \in BOOLEAN /\ asking \in 0 .. MaxAsking

\* What delivers can be stopped: it is in the map, is being added or is being
\* cleared, unless another subscriber of its topic has taken or removed its entry.
OpenIsKnown ==
  \A s \in Subs : Delivering(s) /\ natsSub[s].at = "on" =>
    \/ entry[natsSub[s].topic] = s \/ s \in stopping
    \/ \E o \in Subs \ {s} : natsSub[o].at # "none" /\ natsSub[o].topic = natsSub[s].topic

\* Once Disconnect has returned nothing delivers, not even a subscription that was
\* made while it cleared the map: it closes the connection last.
SilentAfterDisconnect == disc = "done" => ~nopen

\* Without drain, Disconnect returns, whatever calls hold the read lock.
PlainDisconnectReturns == (disc \in {"waiting", "clearing"} /\ ~drain) ~> disc = "done"

\* "Disconnect disconnects from the broker" (broker/broker.go), with drain as well:
\* it comes to an end.
DisconnectReturns == disc \in {"waiting", "sending", "clearing"} ~> disc = "done"
=============================================================================
