------------------------- MODULE MCControllerClock -------------------------
(***************************************************************************)
(* Values for the constants of ControllerClock.  A tick is one second in   *)
(* the runs with the code's own times (10 s, 10 s, 30 s).                  *)
(***************************************************************************)
EXTENDS ControllerClock

\* GPIO_INT_EDGE_BOTH on every button.
BothEdges == [b \in Buttons |-> {0, 1}]

\* setup_button does not look at what gpio_pin_interrupt_configure_dt answers:
\* here the interrupt of stop could not be configured.
StopDead == [b \in Buttons |-> IF b = "stop" THEN {} ELSE {0, 1}]
=============================================================================
