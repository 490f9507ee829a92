------------------------------ MODULE ByteQueue ------------------------------
(***************************************************************************)
(* What a byte channel between an interrupt handler and the main program   *)
(* promises: what goes in comes out, in order and once.                    *)
(***************************************************************************)
EXTENDS Integers, Sequences

CONSTANTS Byte, Capacity

VARIABLES
  in,      (* bytes that wait to be put in, together                       *)
  queue,   (* bytes that are in and not out                                *)
  out      (* the bytes that came out last                                 *)

Init == in = <<>> /\ queue = <<>> /\ out = <<>>

Offer ==
  /\ in = <<>>
  /\ \E n \in 1 .. Capacity - Len(queue) : in' \in [1 .. n -> Byte]
  /\ UNCHANGED <<queue, out>>

Enqueue ==
  /\ in # <<>>
  /\ queue' = queue \o in
  /\ in' = <<>>
  /\ UNCHANGED out

Dequeue ==
  /\ \E n \in 1 .. Len(queue) :
       /\ out' = SubSeq(queue, 1, n)
       /\ queue' = SubSeq(queue, n + 1, Len(queue))
  /\ UNCHANGED in

Next == Offer \/ Enqueue \/ Dequeue

Spec == Init /\ [][Next]_<<in, queue, out>>
=============================================================================
