------------------------------ MODULE UartRp2 ------------------------------
(***************************************************************************)
(* The receiving side of a UART of the RP2 boards, uart.c: the hardware's  *)
(* FIFO, which both the interrupt handler and km_uart_available empty into *)
(* the same ring, and the pass of the loop that reads the ring.            *)
(*                                                                         *)
(* The interrupt handler runs to its end; it may come between any two      *)
(* steps of the main program.  Bytes are numbered as they come.            *)
(***************************************************************************)
EXTENDS RingBuffer

CONSTANTS
  Depth,    (* of the FIFO (32)                                            *)
  LastByte, (* bound: the number of the last byte that comes               *)
  Paced     (* the other side never sends more than the ring can keep      *)

ASSUME UartAssumption ==
  /\ Depth \in Nat \ {0} /\ LastByte \in Nat /\ Paced \in BOOLEAN
  /\ Byte = 0 .. LastByte

VARIABLES
  came,     (* bytes that came over the wire                               *)
  fifo,     (* the hardware's                                              *)
  ring,     (* __uart_rx_ringbuffer[port]                                  *)
  pc,       (* where the main program is                                   *)
  ch,       (* its byte in __uart_fill_ringbuffer                          *)
  at,       (* its local w_ptr or r_ptr in ringbuffer.c                    *)
  len,      (* km_io_uart_run: len                                         *)
  n,        (* km_uart_read: n                                             *)
  buf,      (* km_io_uart_run: what is copied into buf                     *)
  out       (* all that the read callback was given, in order              *)

vars == <<came, fifo, ring, pc, ch, at, len, n, buf, out>>
main == <<pc, ch, at, len, n, buf, out>>

Unset == 0

Init ==
  /\ came = 0 /\ fifo = <<>>
  /\ ring = EmptyRing([p \in Position |-> Unset])
  /\ pc = "away" /\ ch = Unset /\ at = 0 /\ len = 0 /\ n = 0
  /\ buf = <<>> /\ out = <<>>

TypeOK ==
  /\ came \in Byte /\ fifo \in Seq(1 .. LastByte) /\ Len(fifo) <= Depth
  /\ ring \in Ring
  /\ pc \in {"away", "poll", "getc", "write", "store", "publish",
             "read", "copy"}
  /\ ch \in Byte /\ at \in Position
  /\ len \in 0 .. N - 1 /\ n \in 0 .. len
  /\ buf \in Seq(Byte) /\ Len(buf) <= n
  /\ out \in Seq(Byte)

(* The bytes that are in the FIFO, in the hands of the main program or
   unread. *)
Underway ==
  Len(fifo) + RingLength(ring) + (IF pc \in {"write", "store", "publish"} THEN 1 ELSE 0)

(* The hardware; a byte that comes to a full FIFO is lost. *)
ByteComes ==
  /\ came < LastByte
  /\ Paced => Underway < N - 1
  /\ came' = came + 1
  /\ fifo' = IF Len(fifo) < Depth THEN Append(fifo, came') ELSE fifo
  /\ UNCHANGED <<ring, main>>

(* __uart_irq_handler_0: takes all that is readable.  ringbuffer_write is not
   asked whether the byte fits. *)
Irq ==
  /\ fifo # <<>>
  /\ ring' = Put(ring, fifo)
  /\ fifo' = <<>>
  /\ UNCHANGED <<came, main>>

(* km_io_uart_run calls km_uart_available, and that __uart_fill_ringbuffer. *)
CallAvailable ==
  /\ pc = "away" /\ pc' = "poll"
  /\ UNCHANGED <<came, fifo, ring, ch, at, len, n, buf, out>>

(* while (uart_is_readable(uart)); ringbuffer_length when it is over. *)
IsReadable ==
  /\ pc = "poll"
  /\ IF fifo # <<>>
     THEN pc' = "getc" /\ len' = len
     ELSE /\ len' = RingLength(ring)
          /\ pc' = IF len' > 0 THEN "read" ELSE "away"
  /\ UNCHANGED <<came, fifo, ring, ch, at, n, buf, out>>

(* uart_getc: waits for a byte. *)
Getc ==
  /\ pc = "getc" /\ fifo # <<>>
  /\ ch' = Head(fifo) /\ fifo' = Tail(fifo) /\ pc' = "write"
  /\ UNCHANGED <<came, ring, at, len, n, buf, out>>

(* ringbuffer_write, in three steps *)
WriteBegin ==
  /\ pc = "write" /\ at' = ring.w_ptr /\ pc' = "store"
  /\ UNCHANGED <<came, fifo, ring, ch, len, n, buf, out>>

Store ==
  /\ pc = "store" /\ ring' = [ring EXCEPT !.buf[at] = ch] /\ pc' = "publish"
  /\ UNCHANGED <<came, fifo, ch, at, len, n, buf, out>>

(* A plausible bug: the position is not wrapped. *)
PublishStraight ==
  /\ pc = "publish" /\ ring' = [ring EXCEPT !.w_ptr = at + 1]
  /\ pc' = "poll" /\ ch' = Unset /\ at' = 0
  /\ UNCHANGED <<came, fifo, len, n, buf, out>>

Publish ==
  /\ pc = "publish" /\ ring' = [ring EXCEPT !.w_ptr = (at + 1) % N]
  /\ pc' = "poll" /\ ch' = Unset /\ at' = 0
  /\ UNCHANGED <<came, fifo, len, n, buf, out>>

(* km_uart_read *)
ReadBegin ==
  /\ pc = "read"
  /\ n' = IF RingLength(ring) > len THEN len ELSE RingLength(ring)
  /\ at' = ring.r_ptr /\ pc' = "copy"
  /\ UNCHANGED <<came, fifo, ring, ch, len, buf, out>>

Copy ==
  /\ pc = "copy" /\ Len(buf) < n
  /\ buf' = Append(buf, ring.buf[at]) /\ at' = (at + 1) % N
  /\ UNCHANGED <<came, fifo, ring, pc, ch, len, n, out>>

(* A plausible bug: ringbuffer_read does not set the position. *)
DeliverAgain ==
  /\ pc = "copy" /\ Len(buf) = n
  /\ out' = out \o buf \o [i \in 1 .. len - n |-> Unset]
  /\ pc' = "away" /\ at' = 0 /\ len' = 0 /\ n' = 0 /\ buf' = <<>>
  /\ UNCHANGED <<came, fifo, ring, ch>>

(* The callback is given len bytes, however many were read; the others are
   what the stack holds. *)
Deliver ==
  /\ pc = "copy" /\ Len(buf) = n
  /\ ring' = [ring EXCEPT !.r_ptr = at]
  /\ out' = out \o buf \o [i \in 1 .. len - n |-> Unset]
  /\ pc' = "away" /\ at' = 0 /\ len' = 0 /\ n' = 0 /\ buf' = <<>>
  /\ UNCHANGED <<came, fifo, ch>>

Main ==
  \/ CallAvailable \/ IsReadable \/ Getc \/ WriteBegin \/ Store \/ Publish
  \/ ReadBegin \/ Copy \/ Deliver

Next == ByteComes \/ Irq \/ Main

Spec == Init /\ [][Next]_vars

-----------------------------------------------------------------------------
(* Whatever the two writers do to the ring, as long as it does not overflow
   the callback is given bytes that came, none of them twice. *)
AtMostOnce ==
  \A i \in 1 .. Len(out) :
    out[i] # Unset /\ \A j \in 1 .. i - 1 : out[i] # out[j]

(* The callback is given the bytes in the order they came. *)
BytesInOrder == \A i \in 2 .. Len(out) : out[i - 1] < out[i]
=============================================================================
