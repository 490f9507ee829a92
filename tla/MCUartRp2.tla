------------------------------ MODULE MCUartRp2 ------------------------------
(* Instances of UartRp2 for TLC. *)
EXTENDS UartRp2
=============================================================================
