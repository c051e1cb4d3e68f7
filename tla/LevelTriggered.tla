--------------------------- MODULE LevelTriggered ---------------------------
(***************************************************************************)
(* What a level-triggered reconciler promises: it may do anything while it *)
(* is awake, whatever makes the cluster differ from what is wanted wakes   *)
(* it, and it goes to sleep only when nothing is left to do.  A timer may  *)
(* wake it at any time.                                                    *)
(***************************************************************************)
VARIABLES
    debt,       \* something differs from what is wanted
    asleep      \* no request for the instance is queued or in progress

Init == debt \in BOOLEAN /\ asleep = FALSE

Disturb == debt' = TRUE /\ asleep' = FALSE

Work == ~asleep /\ debt' \in BOOLEAN /\ asleep' = FALSE

Sleep == ~asleep /\ ~debt /\ UNCHANGED debt /\ asleep' = TRUE

Wake == asleep /\ UNCHANGED debt /\ asleep' = FALSE

Next == Disturb \/ Work \/ Sleep \/ Wake

Spec == Init /\ [][Next]_<<debt, asleep>>
=============================================================================
