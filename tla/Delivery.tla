------------------------------ MODULE Delivery ------------------------------
(***************************************************************************)
(* What the consuming side of a broker promises: a message is given out    *)
(* only while it is not settled (acknowledged, committed), handled only    *)
(* after it was given out, and settled only after it was handled: whatever *)
(* is lost in between is given out again, by whoever reads next.  With     *)
(* strict the handler must also have accepted it.                          *)
(***************************************************************************)
CONSTANTS Messages

VARIABLES strict, handed, tried, good, settled

deliveryVars == <<strict, handed, tried, good, settled>>

Init == strict \in BOOLEAN /\ handed = {} /\ tried = {} /\ good = {} /\ settled = {}

\* Messages leave the broker for a consumer.
Give(S) == /\ S \subseteq Messages \ settled
           /\ handed' = handed \union S
           /\ UNCHANGED <<strict, tried, good, settled>>

\* The handler returns, without or with an error.
Finish(m, ok) == /\ m \in handed
                 /\ tried' = tried \union {m}
                 /\ good' = IF ok THEN good \union {m} ELSE good
                 /\ UNCHANGED <<strict, handed, settled>>

\* The broker is told that it may forget messages.
Settle(S) == /\ S \subseteq IF strict THEN good ELSE tried
             /\ settled' = settled \union S
             /\ UNCHANGED <<strict, handed, tried, good>>

Next == \/ \E S \in SUBSET Messages : Give(S) \/ Settle(S)
        \/ \E m \in Messages, ok \in BOOLEAN : Finish(m, ok)

Spec == Init /\ [][Next]_deliveryVars
=============================================================================
