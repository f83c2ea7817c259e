---------------------------- MODULE ViewContract ----------------------------
(***************************************************************************)
(* What the distribution side may expect of a cached view of the database, *)
(* however it is built.  A view that is not dirty shows the truth, but for *)
(* the keys it is behind on: those whose truth drifted without an          *)
(* announcement.  Only a write or a restart makes the view dirty, and only *)
(* they end its being behind; a refresh ends the dirt only by showing the  *)
(* truth.  While it is dirty it may show anything.                         *)
(***************************************************************************)
CONSTANTS Keys, Values

VARIABLES truth, shown, dirty, behind

vars == <<truth, shown, dirty, behind>>

Views == [Keys -> Values]

Init == truth \in Views /\ shown \in Views /\ dirty = TRUE /\ behind = {}

Write ==
    /\ truth' \in Views
    /\ dirty' = TRUE
    /\ behind' = {}
    /\ UNCHANGED shown

Drift ==
    /\ \E touched \in SUBSET Keys :
         /\ truth' \in Views
         /\ \A k \in Keys \ touched : truth'[k] = truth[k]
         /\ \/ behind' = behind \cup touched
            \/ dirty /\ behind' = behind
    /\ UNCHANGED <<shown, dirty>>

Refresh ==
    /\ dirty
    /\ shown' \in Views
    /\ dirty' \in BOOLEAN
    /\ ~dirty' => \A k \in Keys \ behind : shown'[k] = truth[k]
    /\ UNCHANGED <<truth, behind>>

Restart ==
    /\ shown' \in Views
    /\ dirty' = TRUE
    /\ behind' = {}
    /\ UNCHANGED truth

Next == Write \/ Drift \/ Refresh \/ Restart

Spec == Init /\ [][Next]_vars
=============================================================================
