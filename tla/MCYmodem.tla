------------------------------ MODULE MCYmodem ------------------------------
(* Instances of Ymodem for TLC: two sectors of two pages of two bytes, blocks
   of two bytes and packet numbers modulo three, so that numbers repeat
   within a file. *)
EXTENDS Ymodem

(* Files that end inside a page, leave room for the end of string only, and
   leave none. *)
SingleFiles == {<<3>>, <<7>>, <<8>>}
Sessions    == SingleFiles \cup {<<0>>, <<2, 5>>}
TwoFiles    == {<<2, 5>>}
=============================================================================
