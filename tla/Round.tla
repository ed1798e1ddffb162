-------------------------------- MODULE Round -------------------------------
(***************************************************************************)
(* A round of the game as the main loop sees it (the cases of a round in   *)
(* nios/ECE385_src/main.c): it is prepared, left by Esc or lost, and wound *)
(* up.  GamePlay implements it; Screens is built on it.                    *)
(***************************************************************************)
VARIABLE state   \* game_state, or "MENU" for all states outside a round

Playing == {"IN_GAME", "IN_GAME_double"}
Ended == {"GAME_OVER", "GAME_OVER_double"}

Init == state = "MENU"

Begin == state = "MENU" /\ state' \in Playing

Quit ==
  \/ state = "IN_GAME" /\ state' = "GAME_OVER"
  \/ state = "IN_GAME_double" /\ state' = "GAME_OVER_double"

(* Whoever plays: the explosion of the first player ends either kind of    *)
(* round with GAME_OVER_double.                                            *)
Lost == state \in Playing /\ state' = "GAME_OVER_double"

WindUp == state \in Ended /\ state' = "MENU"

Next == Begin \/ Quit \/ Lost \/ WindUp

Spec == Init /\ [][Next]_state
=============================================================================
