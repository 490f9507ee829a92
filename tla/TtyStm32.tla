------------------------------ MODULE TtyStm32 ------------------------------
(***************************************************************************)
(* The terminal of the STM32 boards, tty.c: a ring filled by the USB       *)
(* interrupt and read by the loop, and a ring filled by the program and    *)
(* emptied by the pended interrupt.                                        *)
(*                                                                         *)
(* An interrupt handler runs to its end; it may come between any two steps *)
(* of the main program, which reads and writes a ring byte by byte and     *)
(* publishes its position at the end.                                      *)
(***************************************************************************)
EXTENDS RingBuffer

CONSTANTS
  MaxChunk,   (* bytes of one USB packet (64)                              *)
  MaxText,    (* bytes of one km_tty_printf                                *)
  Paced       (* the host sends no more than the ring has cells for unread
                 bytes, which is one less than its size                    *)

ASSUME TtyAssumption == MaxChunk \in Nat /\ MaxText \in Nat /\ Paced \in BOOLEAN

VARIABLES
  packet,     (* the packet of the USB driver that is not yet handled      *)
  rx,         (* tty_rx_ringbuffer                                         *)
  tx,         (* tty_tx_ringbuffer                                         *)
  reading,    (* main in ringbuffer_read: its local r_ptr and its buffer   *)
  wanted,     (* main in ringbuffer_read: len                              *)
  writing,    (* main in ringbuffer_write: its local w_ptr, what is left   *)
  lastRead,   (* what a read gave, as to the read callback of the loop    *)
  lastSent    (* what CDC_Transmit_FS got last                             *)

vars == <<packet, rx, tx, reading, wanted, writing, lastRead, lastSent>>

Bytes(n)  == [1 .. n -> Byte]
NotReading == [r_ptr |-> 0, buf |-> <<>>]
NotWriting == [w_ptr |-> 0, left |-> <<>>, text |-> <<>>]

TypeOK ==
  /\ packet \in Seq(Byte) /\ Len(packet) <= MaxChunk
  /\ rx \in Ring /\ tx \in Ring
  /\ reading \in [r_ptr : Position, buf : Seq(Byte)]
  /\ wanted \in 0 .. N - 1 /\ Len(reading.buf) <= wanted
  /\ writing \in [w_ptr : Position, left : Seq(Byte), text : Seq(Byte)]
  /\ Len(writing.left) <= Len(writing.text)
  /\ lastRead \in Seq(Byte) /\ Len(lastRead) < N
  /\ lastSent \in Seq(Byte) /\ Len(lastSent) < N

Init ==
  /\ packet = <<>>
  /\ rx = EmptyRing([p \in Position |-> CHOOSE b \in Byte : TRUE]) /\ tx = rx
  /\ reading = NotReading /\ wanted = 0 /\ writing = NotWriting
  /\ lastRead = <<>> /\ lastSent = <<>>

Idle == wanted = 0 /\ writing.text = <<>>

(* The driver takes a packet when the one before has been handled. *)
PacketComes(k) ==
  /\ packet = <<>>
  /\ Paced => k < FreeSpace(rx)
  /\ packet' \in Bytes(k)
  /\ UNCHANGED <<rx, tx, reading, wanted, writing, lastRead, lastSent>>

(* CDC_Receive_FS and tty_fill_rx_bytes: what does not fit is dropped. *)
UsbReceives ==
  /\ packet # <<>>
  /\ LET nToWrite == IF FreeSpace(rx) < Len(packet) THEN FreeSpace(rx) ELSE Len(packet)
     IN  rx' = Put(rx, SubSeq(packet, 1, nToWrite))
  /\ packet' = <<>>
  /\ UNCHANGED <<tx, reading, wanted, writing, lastRead, lastSent>>

(* No more is read than there is: km_io_tty_run reads all, km_tty_getc one
   byte, km_tty_read_sync what it waited for or nothing. *)
BeginRead ==
  /\ Idle
  /\ wanted' \in 1 .. RingLength(rx)
  /\ reading' = [r_ptr |-> rx.r_ptr, buf |-> <<>>]
  /\ UNCHANGED <<packet, rx, tx, writing, lastRead, lastSent>>

CopyByte ==
  /\ Len(reading.buf) < wanted
  /\ reading' = [r_ptr |-> (reading.r_ptr + 1) % N,
                 buf |-> Append(reading.buf, rx.buf[reading.r_ptr])]
  /\ UNCHANGED <<packet, rx, tx, wanted, writing, lastRead, lastSent>>

(* A plausible bug: the position is set to the end of the data as it is
   after the copying. *)
EndReadAtWrite ==
  /\ wanted > 0 /\ Len(reading.buf) = wanted
  /\ rx' = [rx EXCEPT !.r_ptr = rx.w_ptr]
  /\ lastRead' = reading.buf
  /\ wanted' = 0 /\ reading' = NotReading
  /\ UNCHANGED <<packet, tx, writing, lastSent>>

EndRead ==
  /\ wanted > 0 /\ Len(reading.buf) = wanted
  /\ rx' = [rx EXCEPT !.r_ptr = reading.r_ptr]
  /\ lastRead' = reading.buf
  /\ wanted' = 0 /\ reading' = NotReading
  /\ UNCHANGED <<packet, tx, writing, lastSent>>

(* A plausible bug: the last free cell is written too. *)
FitsToTheBrim(k) == FreeSpace(tx) >= k

(* km_tty_putc, km_tty_printf: text that does not fit is not put at all. *)
FitsIn(k) == FreeSpace(tx) > k

BeginWrite(k) ==
  /\ Idle /\ k > 0 /\ FitsIn(k)
  /\ \E text \in Bytes(k) :
       writing' = [w_ptr |-> tx.w_ptr, left |-> text, text |-> text]
  /\ UNCHANGED <<packet, rx, tx, reading, wanted, lastRead, lastSent>>

(* A plausible bug: the position is published before the byte is written. *)
WriteBytePublished ==
  /\ writing.left # <<>>
  /\ tx' = [tx EXCEPT !.w_ptr = (writing.w_ptr + 1) % N, !.buf[writing.w_ptr] = Head(writing.left)]
  /\ writing' = [writing EXCEPT !.w_ptr = (@ + 1) % N, !.left = Tail(@)]
  /\ UNCHANGED <<packet, rx, reading, wanted, lastRead, lastSent>>

WriteByte ==
  /\ writing.left # <<>>
  /\ tx' = [tx EXCEPT !.buf[writing.w_ptr] = Head(writing.left)]
  /\ writing' = [writing EXCEPT !.w_ptr = (@ + 1) % N, !.left = Tail(@)]
  /\ UNCHANGED <<packet, rx, reading, wanted, lastRead, lastSent>>

EndWrite ==
  /\ writing.text # <<>> /\ writing.left = <<>>
  /\ tx' = [tx EXCEPT !.w_ptr = writing.w_ptr]
  /\ writing' = NotWriting
  /\ UNCHANGED <<packet, rx, reading, wanted, lastRead, lastSent>>

(* The pended interrupt, when the USB transfer before is over:
   tty_transmit_data takes all there is. *)
Transmit ==
  /\ RingLength(tx) > 0
  /\ lastSent' = Unread(tx)
  /\ tx' = Skip(tx, RingLength(tx))
  /\ UNCHANGED <<packet, rx, reading, wanted, writing, lastRead>>

Next ==
  \/ (\E k \in 1 .. MaxChunk : PacketComes(k)) \/ UsbReceives
  \/ BeginRead \/ CopyByte \/ EndRead
  \/ \E k \in 1 .. MaxText : BeginWrite(k)
  \/ WriteByte \/ EndWrite
  \/ Transmit

Spec == Init /\ [][Next]_vars

-----------------------------------------------------------------------------
RxQueue == INSTANCE ByteQueue WITH Capacity <- N - 1, in <- packet, queue <- Unread(rx), out <- lastRead
TxQueue == INSTANCE ByteQueue WITH Capacity <- N - 1, in <- writing.text, queue <- Unread(tx), out <- lastSent

(* What the host sends comes to the read callback in order, nothing twice and
   nothing lost, whenever the USB interrupt comes. *)
ReceivesInOrder == RxQueue!Spec

(* What the program prints comes to the USB driver in order; half written
   text is never sent. *)
TransmitsInOrder == TxQueue!Spec
=============================================================================
