---------------------------- MODULE MCATCommand ----------------------------
(* The queue of AT commands with three jobs. *)
EXTENDS ATCommand
=============================================================================
