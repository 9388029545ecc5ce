---------------------------- MODULE SettleOutbox ----------------------------
(***************************************************************************)
(* What the durable settle outbox promises (settleoutbox/sweeper.go, the    *)
(* comments on the prefixes): a parked terminal stays owed until a copy of  *)
(* it is filed, a copy is filed under done/ only once the router has        *)
(* settled it, and nothing that was filed disappears.                       *)
(***************************************************************************)
EXTENDS Naturals

CONSTANTS Terminals, Prefixes

VARIABLES owed, settled, filed

vars == <<owed, settled, filed>>

Init ==
    /\ owed = {}
    /\ settled = {}
    /\ filed = [t \in Terminals |-> {}]

Known(t) == t \in owed \/ filed[t] # {}

Park(t) ==
    /\ owed' = owed \cup {t}
    /\ UNCHANGED <<settled, filed>>

Settle(t) ==
    /\ Known(t)
    /\ settled' = settled \cup {t}
    /\ UNCHANGED <<owed, filed>>

File(t, p) ==
    /\ Known(t)
    /\ p = "done" => t \in settled
    /\ filed' = [filed EXCEPT ![t] = @ \cup {p}]
    /\ UNCHANGED <<owed, settled>>

Discharge(t) ==
    /\ filed[t] # {}
    /\ owed' = owed \ {t}
    /\ UNCHANGED <<settled, filed>>

Next ==
    \E t \in Terminals :
        Park(t) \/ Settle(t) \/ Discharge(t) \/ \E p \in Prefixes : File(t, p)

Spec == Init /\ [][Next]_vars
=============================================================================
