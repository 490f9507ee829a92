-------------------------------- MODULE MCRepl --------------------------------
(* Instances of Repl for TLC: a line is at most three characters, and of two
   kinds; ".a" turns the echo off and ".aa" on. *)
EXTENDS Repl

MCEchoOff == {<<".", "a">>}
MCEchoOn  == {<<".", "a", "a">>}
===============================================================================
