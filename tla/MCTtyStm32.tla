------------------------------ MODULE MCTtyStm32 ------------------------------
(* Instances of TtyStm32 for TLC. *)
EXTENDS TtyStm32
=============================================================================
