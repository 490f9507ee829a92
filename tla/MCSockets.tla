----------------------------- MODULE MCSockets -----------------------------
(* A Socket of the script and one of a server on a table of two. *)
EXTENDS Sockets
=============================================================================
