--------------------------- MODULE TtyStm32Proofs ---------------------------
(***************************************************************************)
(* Proofs about the terminal of the STM32 boards, for rings of any size,   *)
(* packets and texts of any length.                                        *)
(***************************************************************************)
EXTENDS TtyStm32

LEMMA BytesAreSeq ==
  ASSUME NEW k \in Nat, NEW text \in Bytes(k)
  PROVE  text \in Seq(Byte) /\ Len(text) = k
BY DEF Bytes

LEMMA TypeInit == Init => TypeOK
<1> SUFFICES ASSUME Init PROVE TypeOK
  OBVIOUS
<1>1. 0 \in Position /\ <<>> \in Seq(Byte) /\ Len(<<>>) = 0 /\ 0 < N /\ 0 \in 0 .. N - 1
  BY RingAssumption DEF Position
<1> DEFINE memory == [p \in Position |-> CHOOSE b \in Byte : TRUE]
<1>2. memory \in [Position -> Byte]
  <2>1. (CHOOSE b \in Byte : TRUE) \in Byte
    BY RingAssumption
  <2> QED
    BY <2>1
<1>3. rx = EmptyRing(memory) /\ tx = rx
  BY DEF Init
<1> HIDE DEF memory
<1>4. rx \in Ring /\ tx \in Ring
  BY <1>1, <1>2, <1>3 DEF EmptyRing, Ring
<1> QED
  BY <1>1, <1>4, TtyAssumption DEF TypeOK, Init, NotReading, NotWriting

LEMMA TypeStep == TypeOK /\ [Next]_vars => TypeOK'
<1> SUFFICES ASSUME TypeOK, [Next]_vars PROVE TypeOK'
  OBVIOUS
<1> USE DEF TypeOK
<1>1. ASSUME NEW k \in 1 .. MaxChunk, PacketComes(k) PROVE TypeOK'
  <2>1. packet' \in Seq(Byte) /\ Len(packet') = k
    BY <1>1, BytesAreSeq, TtyAssumption DEF PacketComes
  <2> QED
    BY <1>1, <2>1, TtyAssumption DEF PacketComes
<1>2. CASE UsbReceives
  <2> DEFINE n == IF FreeSpace(rx) < Len(packet) THEN FreeSpace(rx) ELSE Len(packet)
             bytes == SubSeq(packet, 1, n)
  <2>1. n \in 0 .. Len(packet)
    BY LengthIsDistance, RingAssumption DEF FreeSpace
  <2>2. bytes \in Seq(Byte)
    <3> HIDE DEF n
    <3> QED
      BY <2>1
  <2>3. rx' = Put(rx, bytes)
    BY <1>2 DEF UsbReceives
  <2> HIDE DEF bytes
  <2>4. rx' \in Ring
    BY <2>2, <2>3, PutFields
  <2>5. packet' = <<>> /\ Len(<<>>) = 0
    BY <1>2 DEF UsbReceives
  <2> QED
    BY <1>2, <2>4, <2>5, TtyAssumption DEF UsbReceives
<1>3. CASE BeginRead
  <2>1. RingLength(rx) \in 0 .. N - 1 /\ rx.r_ptr \in Position
    BY LengthIsDistance DEF Ring
  <2>2. wanted' \in 0 .. N - 1 /\ 0 <= wanted'
    BY <1>3, <2>1, RingAssumption DEF BeginRead
  <2>3. Len(reading'.buf) = 0 /\ reading' \in [r_ptr : Position, buf : Seq(Byte)]
    BY <1>3, <2>1 DEF BeginRead
  <2> QED
    BY <1>3, <2>2, <2>3 DEF BeginRead
<1>4. CASE CopyByte
  <2>1. rx.buf[reading.r_ptr] \in Byte
    BY DEF Ring
  <2>2. (reading.r_ptr + 1) % N \in Position
    <3>1. reading.r_ptr + 1 \in Int
      BY DEF Position
    <3> QED
      BY <3>1, PositionOf
  <2>3. Len(Append(reading.buf, rx.buf[reading.r_ptr])) <= wanted
    BY <1>4 DEF CopyByte
  <2> QED
    BY <1>4, <2>1, <2>2, <2>3 DEF CopyByte
<1>5. CASE EndRead
  <2>1. rx' \in Ring
    BY <1>5 DEF EndRead, Ring
  <2>2. Len(lastRead') < N
    BY <1>5, RingAssumption DEF EndRead
  <2>3. 0 \in Position /\ 0 \in 0 .. N - 1
    BY RingAssumption DEF Position
  <2> QED
    BY <1>5, <2>1, <2>2, <2>3 DEF EndRead, NotReading
<1>6. ASSUME NEW k \in 1 .. MaxText, BeginWrite(k) PROVE TypeOK'
  <2>1. PICK text \in Bytes(k) : writing' = [w_ptr |-> tx.w_ptr, left |-> text, text |-> text]
    BY <1>6 DEF BeginWrite
  <2>2. text \in Seq(Byte) /\ tx.w_ptr \in Position
    BY BytesAreSeq, TtyAssumption DEF Ring
  <2> QED
    BY <1>6, <2>1, <2>2 DEF BeginWrite
<1>7. CASE WriteByte
  <2>1. Head(writing.left) \in Byte /\ Tail(writing.left) \in Seq(Byte)
        /\ Len(Tail(writing.left)) <= Len(writing.text)
    BY <1>7 DEF WriteByte
  <2>2. (writing.w_ptr + 1) % N \in Position
    <3>1. writing.w_ptr + 1 \in Int
      BY DEF Position
    <3> QED
      BY <3>1, PositionOf
  <2>3. tx' \in Ring
    BY <1>7, <2>1 DEF WriteByte, Ring
  <2>4. writing' = [w_ptr |-> (writing.w_ptr + 1) % N, left |-> Tail(writing.left), text |-> writing.text]
    BY <1>7 DEF WriteByte
  <2> QED
    BY <1>7, <2>1, <2>2, <2>3, <2>4 DEF WriteByte
<1>8. CASE EndWrite
  <2>1. tx' \in Ring
    BY <1>8 DEF EndWrite, Ring
  <2>2. 0 \in Position
    BY RingAssumption DEF Position
  <2> QED
    BY <1>8, <2>1, <2>2 DEF EndWrite, NotWriting
<1>9. CASE Transmit
  <2>1. RingLength(tx) \in 0 .. RingLength(tx) /\ RingLength(tx) < N
    BY LengthIsDistance, RingAssumption
  <2>2. tx' \in Ring
    BY <1>9, <2>1, SkipDrops DEF Transmit
  <2>3. lastSent' \in Seq(Byte) /\ Len(lastSent') < N
    BY <1>9, <2>1, UnreadIsSeq DEF Transmit
  <2> QED
    BY <1>9, <2>2, <2>3 DEF Transmit
<1>10. CASE UNCHANGED vars
  BY <1>10 DEF vars
<1> QED
  BY <1>1, <1>2, <1>3, <1>4, <1>5, <1>6, <1>7, <1>8, <1>9, <1>10 DEF Next

(* The rings, the packet, the text and what was given to the callbacks keep
   their types, whatever the host sends. *)
THEOREM TtyTypeCorrect == Spec => []TypeOK
BY TypeInit, TypeStep, PTL DEF Spec

-----------------------------------------------------------------------------
(***************************************************************************)
(* Receiving.                                                              *)
(***************************************************************************)

(* The packet fits; a read has copied the first of the unread bytes, which
   were at least as many as it wants and which nobody else removes. *)
Received ==
  /\ RingLength(rx) + Len(packet) < N
  /\ wanted > 0 =>
       /\ wanted <= RingLength(rx)
       /\ reading.r_ptr = (rx.r_ptr + Len(reading.buf)) % N
       /\ \A i \in 1 .. Len(reading.buf) : reading.buf[i] = Unread(rx)[i]

LEMMA ReceivedInit == Init => Received
<1> SUFFICES ASSUME Init PROVE Received
  OBVIOUS
<1>1. RingLength(rx) = 0
  BY DEF Init, EmptyRing, RingLength
<1> QED
  BY <1>1, RingAssumption DEF Init, Received

RxNext == RxQueue!Next \/ UNCHANGED <<packet, Unread(rx), lastRead>>

LEMMA ReceivedStep ==
  ASSUME Paced, TypeOK, Received, [Next]_vars
  PROVE  Received' /\ RxNext
<1>0. /\ packet \in Seq(Byte) /\ rx \in Ring /\ reading.r_ptr \in Position /\ reading.buf \in Seq(Byte)
      /\ wanted \in 0 .. N - 1 /\ Len(reading.buf) <= wanted
      /\ RingLength(rx) \in 0 .. N - 1 /\ Unread(rx) \in Seq(Byte) /\ Len(Unread(rx)) = RingLength(rx)
  BY LengthIsDistance, UnreadIsSeq DEF TypeOK
<1>1. ASSUME NEW k \in 1 .. MaxChunk, PacketComes(k) PROVE Received' /\ RxNext
  <2>1. packet = <<>> /\ k < FreeSpace(rx) /\ packet' \in [1 .. k -> Byte] /\ Len(packet') = k
        /\ UNCHANGED <<rx, reading, wanted, lastRead>>
    BY <1>1, BytesAreSeq, TtyAssumption DEF PacketComes, Bytes
  <2>2. RingLength(rx) + k < N /\ k \in 1 .. (N - 1) - Len(Unread(rx))
    BY <1>0, <2>1, RingAssumption DEF FreeSpace
  <2>3. Received'
    BY <2>1, <2>2 DEF Received
  <2>4. RxQueue!Offer
    BY <2>1, <2>2 DEF RxQueue!Offer
  <2> QED
    BY <2>3, <2>4 DEF RxNext, RxQueue!Next
<1>2. ASSUME UsbReceives PROVE Received' /\ RxNext
  <2>1. packet # <<>> /\ packet' = <<>> /\ UNCHANGED <<reading, wanted, lastRead>>
    BY <1>2 DEF UsbReceives
  <2>2. rx' = Put(rx, packet)
    <3> DEFINE n == IF FreeSpace(rx) < Len(packet) THEN FreeSpace(rx) ELSE Len(packet)
    <3>1. n = Len(packet)
      BY <1>0, RingAssumption DEF FreeSpace, Received
    <3>2. SubSeq(packet, 1, Len(packet)) = packet
      BY <1>0
    <3>3. rx' = Put(rx, SubSeq(packet, 1, n))
      BY <1>2 DEF UsbReceives
    <3> HIDE DEF n
    <3> QED
      BY <3>1, <3>2, <3>3
  <2>3. rx' \in Ring /\ rx'.r_ptr = rx.r_ptr
    BY <1>0, <2>2, PutFields
  <2>4. RingLength(rx') = RingLength(rx) + Len(packet) /\ Unread(rx') = Unread(rx) \o packet
    BY <1>0, <2>2, PutAppends DEF Received
  <2>5. Received'
    <3>1. RingLength(rx') + Len(packet') < N
      BY <1>0, <2>1, <2>4 DEF Received
    <3>2. ASSUME wanted > 0 PROVE wanted <= RingLength(rx')
      BY <1>0, <2>4, <3>2 DEF Received
    <3>3. ASSUME wanted > 0, NEW i \in 1 .. Len(reading.buf)
          PROVE  reading.buf[i] = Unread(rx')[i]
      <4>1. reading.buf[i] = Unread(rx)[i] /\ i \in 1 .. Len(Unread(rx))
        BY <1>0, <3>3 DEF Received
      <4> QED
        BY <1>0, <2>4, <4>1
    <3> QED
      BY <2>1, <2>3, <3>1, <3>2, <3>3 DEF Received
  <2>6. RxQueue!Enqueue
    BY <2>1, <2>4 DEF RxQueue!Enqueue
  <2> QED
    BY <2>5, <2>6 DEF RxNext, RxQueue!Next
<1>3. ASSUME BeginRead PROVE Received' /\ RxNext
  <2>1. /\ wanted' \in 1 .. RingLength(rx) /\ reading' = [r_ptr |-> rx.r_ptr, buf |-> <<>>]
        /\ UNCHANGED <<packet, rx, lastRead>>
    BY <1>3 DEF BeginRead
  <2>2. (rx.r_ptr + 0) % N = rx.r_ptr
    <3> DEFINE x == rx.r_ptr
    <3>1. x \in Int /\ 0 <= x /\ x < N /\ x < 2 * N /\ x + 0 = x
      BY <1>0, RingAssumption DEF Ring, Position
    <3> HIDE DEF x
    <3>2. (x + 0) % N = x
      BY <3>1, Wrap
    <3> QED
      BY <3>2 DEF x
  <2>3. Received'
    BY <1>0, <2>1, <2>2 DEF Received
  <2> QED
    BY <2>1, <2>3 DEF RxNext
<1>4. ASSUME CopyByte PROVE Received' /\ RxNext
  <2> DEFINE n == Len(reading.buf)
             b == rx.buf[reading.r_ptr]
  <2>1. /\ n \in Nat /\ n < wanted /\ wanted > 0
        /\ reading' = [r_ptr |-> (reading.r_ptr + 1) % N, buf |-> Append(reading.buf, b)]
        /\ UNCHANGED <<packet, rx, wanted, lastRead>>
    BY <1>0, <1>4 DEF CopyByte
  <2>2. reading.r_ptr = (rx.r_ptr + n) % N /\ rx.r_ptr \in Position
    BY <1>0, <2>1 DEF Received, Ring
  <2>3. (reading.r_ptr + 1) % N = (rx.r_ptr + n + 1) % N
    <3>1. n \in 0 .. N /\ 1 \in 0 .. N /\ n + 1 <= N
      <4> HIDE DEF n
      <4> QED
        BY <1>0, <2>1, RingAssumption
    <3> HIDE DEF n
    <3> QED
      BY <2>2, <3>1, Advance
  <2>4. Unread(rx)[n + 1] = b
    <3>1. n + 1 \in 1 .. RingLength(rx) /\ rx.r_ptr + (n + 1) - 1 = rx.r_ptr + n
      BY <1>0, <2>1, <2>2 DEF Received, Position
    <3> QED
      BY <1>0, <2>2, <3>1, UnreadIsSeq
  <2>5. b \in Byte
    BY <1>0 DEF Ring
  <2> HIDE DEF b
  <2>6. /\ Len(reading'.buf) = n + 1 /\ reading'.buf[n + 1] = b
        /\ \A i \in 1 .. n : reading'.buf[i] = reading.buf[i]
    BY <1>0, <2>1, <2>5
  <2>7. \A i \in 1 .. n + 1 : reading'.buf[i] = Unread(rx)[i]
    BY <2>1, <2>4, <2>6 DEF Received
  <2>8. reading'.r_ptr = (rx.r_ptr + (n + 1)) % N
    <3>1. rx.r_ptr + n + 1 = rx.r_ptr + (n + 1)
      BY <2>1, <2>2 DEF Position
    <3> QED
      BY <2>1, <2>3, <3>1
  <2>9. Received'
    BY <2>1, <2>6, <2>7, <2>8 DEF Received
  <2> QED
    BY <2>1, <2>9 DEF RxNext
<1>5. ASSUME EndRead PROVE Received' /\ RxNext
  <2>1. /\ wanted > 0 /\ Len(reading.buf) = wanted /\ rx' = [rx EXCEPT !.r_ptr = reading.r_ptr]
        /\ lastRead' = reading.buf /\ wanted' = 0 /\ UNCHANGED packet
    BY <1>5 DEF EndRead
  <2>2. rx' = Skip(rx, wanted) /\ wanted \in 1 .. RingLength(rx)
    BY <1>0, <2>1 DEF Received, Skip
  <2>3. RingLength(rx') = RingLength(rx) - wanted
        /\ Unread(rx') = SubSeq(Unread(rx), wanted + 1, RingLength(rx))
    BY <1>0, <2>2, SkipDrops
  <2>4. Received'
    <3>1. RingLength(rx') + Len(packet') < N
      <4>1. Len(packet) \in Nat /\ RingLength(rx) + Len(packet) < N
        BY <1>0 DEF Received
      <4> QED
        BY <1>0, <2>1, <2>3, <4>1, RingAssumption
    <3> QED
      BY <2>1, <3>1 DEF Received
  <2>5. reading.buf = SubSeq(Unread(rx), 1, wanted)
    <3> DEFINE u == Unread(rx)
    <3>1. u \in Seq(Byte) /\ \A i \in 1 .. wanted : reading.buf[i] = u[i]
      BY <1>0, <2>1 DEF Received
    <3>2. wanted \in 1 .. Len(u)
      BY <1>0, <2>2
    <3> HIDE DEF u
    <3>3. SubSeq(u, 1, wanted) \in Seq(Byte) /\ Len(SubSeq(u, 1, wanted)) = wanted
          /\ \A i \in 1 .. wanted : SubSeq(u, 1, wanted)[i] = u[i]
      BY <3>1, <3>2
    <3>4. reading.buf = SubSeq(u, 1, wanted)
      BY <1>0, <2>1, <3>1, <3>3
    <3> QED
      BY <3>4 DEF u
  <2>6. RxQueue!Dequeue
    BY <1>0, <2>1, <2>2, <2>3, <2>5 DEF RxQueue!Dequeue
  <2> QED
    BY <2>4, <2>6 DEF RxNext, RxQueue!Next
<1>6. ASSUME UNCHANGED <<packet, rx, reading, wanted, lastRead>> PROVE Received' /\ RxNext
  BY <1>6 DEF Received, RxNext
<1>7. ASSUME NEW k \in 1 .. MaxText, BeginWrite(k) PROVE Received' /\ RxNext
  BY <1>6, <1>7 DEF BeginWrite
<1> QED
  BY <1>1, <1>2, <1>3, <1>4, <1>5, <1>6, <1>7
     DEF Next, WriteByte, EndWrite, Transmit, vars

(* What a paced host sends comes to the read callback in order, once and
   completely, at whichever step of the reader the interrupt comes. *)
THEOREM ReceivesInOrderAlways == ASSUME Paced PROVE Spec => ReceivesInOrder
<1>1. Init => RxQueue!Init
  <2> SUFFICES ASSUME Init PROVE RxQueue!Init
    OBVIOUS
  <2>1. RingLength(rx) = 0
    BY DEF Init, EmptyRing, RingLength
  <2>2. Unread(rx) = <<>>
    BY <2>1 DEF Unread, Peek
  <2> QED
    BY <2>2 DEF Init, RxQueue!Init
<1>2. TypeOK /\ Received /\ [Next]_vars => Received' /\ [RxQueue!Next]_<<packet, Unread(rx), lastRead>>
  BY ReceivedStep DEF RxNext
<1> QED
  BY <1>1, <1>2, TypeInit, TypeStep, ReceivedInit, PTL DEF Spec, ReceivesInOrder, RxQueue!Spec

-----------------------------------------------------------------------------
(***************************************************************************)
(* Transmitting.                                                           *)
(***************************************************************************)

PutSoFar == Len(writing.text) - Len(writing.left)

(* The text fits; its first bytes are in the cells from w_ptr on, which the
   pended interrupt does not move, and the others are left. *)
Written ==
  /\ RingLength(tx) + Len(writing.text) < N
  /\ writing.text = <<>> => writing.left = <<>>
  /\ writing.text # <<>> =>
       /\ writing.w_ptr = (tx.w_ptr + PutSoFar) % N
       /\ \A i \in 1 .. Len(writing.left) : writing.left[i] = writing.text[PutSoFar + i]
       /\ \A i \in 1 .. PutSoFar : tx.buf[(tx.w_ptr + i - 1) % N] = writing.text[i]

TxNext == TxQueue!Next \/ UNCHANGED <<writing.text, Unread(tx), lastSent>>

LEMMA WrittenInit == Init => Written
<1> SUFFICES ASSUME Init PROVE Written
  OBVIOUS
<1>1. RingLength(tx) = 0
  BY DEF Init, EmptyRing, RingLength
<1> QED
  BY <1>1, RingAssumption DEF Init, Written, NotWriting

(* The byte that is written goes to a cell that is not to be read and holds
   no byte of the text yet. *)
LEMMA WriteByteStep ==
  ASSUME TypeOK, Written, WriteByte
  PROVE  Written' /\ UNCHANGED <<writing.text, Unread(tx), lastSent>>
<1> DEFINE text == writing.text
           left == writing.left
           d == PutSoFar
           w == tx.w_ptr
           c == writing.w_ptr
<1>1. /\ text \in Seq(Byte) /\ left \in Seq(Byte) /\ left # <<>> /\ Len(left) <= Len(text)
      /\ text # <<>> /\ tx \in Ring /\ w \in Position /\ c \in Position
      /\ RingLength(tx) \in 0 .. N - 1 /\ RingLength(tx) + Len(text) < N
      /\ c = (w + d) % N /\ d = Len(text) - Len(left)
      /\ tx.buf \in [Position -> Byte]
  BY LengthIsDistance DEF TypeOK, WriteByte, Written, Ring, PutSoFar
<1>2. /\ d \in 0 .. N - 1 /\ d + 1 \in 1 .. Len(text) /\ Len(text) \in Nat /\ Len(text) <= N
      /\ d + 1 = Len(text) - (Len(left) - 1) /\ Len(left) \in Nat
  <2> DEFINE m == Len(text)
             l == Len(left)
             L == RingLength(tx)
  <2>1. m \in Nat /\ l \in Nat /\ l # 0 /\ l <= m /\ L \in 0 .. N - 1 /\ L + m < N /\ d = m - l
    BY <1>1
  <2> HIDE DEF d, m, l, L
  <2>2. d \in 0 .. N - 1 /\ d + 1 \in 1 .. m /\ m <= N /\ d + 1 = m - (l - 1)
    BY <2>1, RingAssumption
  <2> QED
    BY <2>1, <2>2 DEF m, l
<1>3. /\ tx' = [tx EXCEPT !.buf[c] = Head(left)]
      /\ writing' = [w_ptr |-> (c + 1) % N, left |-> Tail(left), text |-> text]
      /\ lastSent' = lastSent
  BY DEF WriteByte, TypeOK
<1>4. /\ tx'.r_ptr = tx.r_ptr /\ tx'.w_ptr = w
      /\ tx'.buf = [tx.buf EXCEPT ![c] = Head(left)]
      /\ writing'.text = text /\ writing'.left = Tail(left) /\ writing'.w_ptr = (c + 1) % N
  BY <1>1, <1>3 DEF Ring
<1>5. Head(left) = text[d + 1] /\ Head(left) \in Byte
      /\ Len(Tail(left)) = Len(left) - 1
      /\ \A i \in 1 .. Len(left) - 1 : Tail(left)[i] = left[i + 1]
  <2>1. \A i \in 1 .. Len(left) : left[i] = text[d + i]
    BY <1>1 DEF Written
  <2> HIDE DEF left, text, d
  <2>2. Head(left) = left[1] /\ 1 \in 1 .. Len(left) /\ Head(left) \in Byte
    BY <1>1
  <2>3. Len(Tail(left)) = Len(left) - 1
        /\ \A i \in 1 .. Len(left) - 1 : Tail(left)[i] = left[i + 1]
    BY <1>1
  <2> QED
    BY <2>1, <2>2, <2>3
<1>6. tx' \in Ring
  <2>1. tx'.buf \in [Position -> Byte]
    BY <1>1, <1>4, <1>5
  <2> QED
    BY <1>1, <1>3, <1>4, <2>1 DEF Ring
<1>7. PutSoFar' = d + 1
  <2>1. PutSoFar' = Len(text) - Len(Tail(left))
    BY <1>4 DEF PutSoFar
  <2> HIDE DEF text, left, d
  <2> QED
    BY <1>2, <1>5, <2>1
<1> HIDE DEF text, left, d, w, c
<1>8. RingLength(tx') = RingLength(tx) /\ Unread(tx') = Unread(tx)
  <2>1. ASSUME NEW k \in 1 .. RingLength(tx)
        PROVE  tx'.buf[(tx.r_ptr + k - 1) % N] = tx.buf[(tx.r_ptr + k - 1) % N]
    <3>1. (tx.r_ptr + k - 1) % N # (tx.w_ptr + (d + 1) - 1) % N
      BY <1>1, <1>2, FreeCells
    <3>2. tx.w_ptr + (d + 1) - 1 = w + d
      BY <1>1, <1>2 DEF w, Position
    <3> QED
      BY <1>1, <1>4, <3>1, <3>2
  <2> QED
    BY <1>1, <1>4, <1>6, <2>1, SameUnread DEF w
<1>9. (c + 1) % N = (w + (d + 1)) % N
  <2>1. 1 \in 0 .. N /\ d \in 0 .. N /\ d + 1 <= N
    BY <1>2, RingAssumption
  <2>2. w + d + 1 = w + (d + 1)
    <3>1. w \in Int /\ d \in Int
      BY <1>1, <1>2 DEF Position
    <3> QED
      BY <3>1
  <2> QED
    BY <1>1, <2>1, <2>2, Advance
<1>10. ASSUME NEW i \in 1 .. d + 1 PROVE tx'.buf[(w + i - 1) % N] = text[i]
  <2>1. w + i - 1 = w + (i - 1) /\ i - 1 \in 0 .. N - 1
    <3>1. w \in Int /\ d \in 0 .. N - 1
      BY <1>1, <1>2 DEF Position
    <3> QED
      BY <3>1, RingAssumption
  <2>2. ASSUME i = d + 1 PROVE tx'.buf[(w + i - 1) % N] = text[i]
    BY <1>1, <1>2, <1>4, <1>5, <2>1, <2>2
  <2>3. ASSUME i # d + 1 PROVE tx'.buf[(w + i - 1) % N] = text[i]
    <3>1. i - 1 # d /\ i \in 1 .. d
      BY <1>2, <2>3
    <3>2. (w + (i - 1)) % N # c
      BY <1>1, <1>2, <2>1, <3>1, Apart
    <3>3. tx'.buf[(w + i - 1) % N] = tx.buf[(w + i - 1) % N]
      BY <1>1, <1>4, <2>1, <3>2
    <3>4. tx.buf[(w + i - 1) % N] = text[i]
      BY <1>1, <3>1 DEF Written, text, d, w
    <3> QED
      BY <3>3, <3>4
  <2> QED
    BY <2>2, <2>3
<1>11. Written'
  <2>1. RingLength(tx') + Len(writing'.text) < N
    BY <1>1, <1>4, <1>8
  <2>2. ASSUME NEW i \in 1 .. Len(writing'.left)
        PROVE  writing'.left[i] = writing'.text[PutSoFar' + i]
    <3>1. i \in 1 .. Len(left) - 1 /\ i + 1 \in 1 .. Len(left) /\ d + (i + 1) = (d + 1) + i
      BY <1>1, <1>2, <1>4, <1>5, <2>2
    <3>2. left[i + 1] = text[d + (i + 1)]
      BY <1>1, <3>1 DEF Written, text, left, d
    <3> QED
      BY <1>4, <1>5, <1>7, <3>1, <3>2
  <2>3. \A i \in 1 .. PutSoFar' : tx'.buf[(tx'.w_ptr + i - 1) % N] = writing'.text[i]
    BY <1>4, <1>7, <1>10
  <2>4. writing'.w_ptr = (tx'.w_ptr + PutSoFar') % N
    BY <1>4, <1>7, <1>9
  <2> QED
    BY <1>1, <1>4, <2>1, <2>2, <2>3, <2>4 DEF Written
<1> QED
  BY <1>3, <1>4, <1>8, <1>11 DEF text

LEMMA WrittenStep ==
  ASSUME TypeOK, Written, [Next]_vars
  PROVE  Written' /\ TxNext
<1>0. /\ writing.text \in Seq(Byte) /\ writing.left \in Seq(Byte) /\ tx \in Ring
      /\ tx.w_ptr \in Position /\ tx.buf \in [Position -> Byte]
      /\ RingLength(tx) \in 0 .. N - 1 /\ Unread(tx) \in Seq(Byte) /\ Len(Unread(tx)) = RingLength(tx)
  BY LengthIsDistance, UnreadIsSeq DEF TypeOK, Ring
<1>1. ASSUME UNCHANGED <<tx, writing, lastSent>> PROVE Written' /\ TxNext
  BY <1>1 DEF Written, TxNext, PutSoFar
<1>2. ASSUME NEW k \in 1 .. MaxText, BeginWrite(k) PROVE Written' /\ TxNext
  <2>1. writing.text = <<>> /\ FreeSpace(tx) > k /\ UNCHANGED <<tx, lastSent>>
    BY <1>2 DEF BeginWrite, Idle, FitsIn
  <2>2. PICK text \in Bytes(k) : writing' = [w_ptr |-> tx.w_ptr, left |-> text, text |-> text]
    BY <1>2 DEF BeginWrite
  <2>3. text \in Seq(Byte) /\ Len(text) = k /\ text \in [1 .. k -> Byte] /\ k \in Nat
    BY BytesAreSeq, TtyAssumption DEF Bytes
  <2>4. RingLength(tx) + k < N /\ k \in 1 .. (N - 1) - Len(Unread(tx))
    BY <1>0, <2>1, RingAssumption DEF FreeSpace
  <2>5. PutSoFar' = 0
    BY <2>2, <2>3 DEF PutSoFar
  <2>6. (tx.w_ptr + 0) % N = tx.w_ptr
    <3> DEFINE x == tx.w_ptr
    <3>1. x \in Int /\ 0 <= x /\ x < N /\ x < 2 * N /\ x + 0 = x
      BY <1>0, RingAssumption DEF Position
    <3> HIDE DEF x
    <3>2. (x + 0) % N = x
      BY <3>1, Wrap
    <3> QED
      BY <3>2 DEF x
  <2>7. Written'
    BY <2>1, <2>2, <2>3, <2>4, <2>5, <2>6 DEF Written
  <2>8. TxQueue!Offer
    BY <2>1, <2>2, <2>3, <2>4 DEF TxQueue!Offer
  <2> QED
    BY <2>7, <2>8 DEF TxNext, TxQueue!Next
<1>3. ASSUME WriteByte PROVE Written' /\ TxNext
  BY <1>3, WriteByteStep DEF TxNext
<1>4. ASSUME EndWrite PROVE Written' /\ TxNext
  <2>1. /\ writing.text # <<>> /\ writing.left = <<>> /\ tx' = [tx EXCEPT !.w_ptr = writing.w_ptr]
        /\ writing' = NotWriting /\ lastSent' = lastSent
    BY <1>4 DEF EndWrite
  <2>2. PutSoFar = Len(writing.text)
    BY <1>0, <2>1 DEF PutSoFar
  <2>3. /\ tx'.r_ptr = tx.r_ptr /\ tx'.buf = tx.buf
        /\ tx'.w_ptr = (tx.w_ptr + Len(writing.text)) % N
    BY <1>0, <2>1, <2>2 DEF Written, Ring
  <2>4. tx' \in Ring
    BY <2>1 DEF Ring, TypeOK
  <2>5. \A i \in 1 .. Len(writing.text) : tx'.buf[(tx.w_ptr + i - 1) % N] = writing.text[i]
    BY <2>1, <2>2, <2>3 DEF Written
  <2>6. RingLength(tx') = RingLength(tx) + Len(writing.text)
        /\ Unread(tx') = Unread(tx) \o writing.text
    BY <1>0, <2>3, <2>4, <2>5, Publishing DEF Written
  <2>7. Written'
    BY <1>0, <2>1, <2>6 DEF Written, NotWriting
  <2>8. TxQueue!Enqueue
    BY <2>1, <2>6 DEF TxQueue!Enqueue, NotWriting
  <2> QED
    BY <2>7, <2>8 DEF TxNext, TxQueue!Next
<1>5. ASSUME Transmit PROVE Written' /\ TxNext
  <2> DEFINE n == RingLength(tx)
             u == Unread(tx)
  <2>1. n \in 1 .. n /\ n \in 0 .. n /\ n \in 0 .. N - 1
    BY <1>0, <1>5 DEF Transmit
  <2>2. tx' = Skip(tx, n) /\ lastSent' = u /\ writing' = writing
    BY <1>5 DEF Transmit
  <2>3. RingLength(tx') = 0 /\ Unread(tx') = SubSeq(u, n + 1, n)
    <3>1. RingLength(tx') = n - n /\ Unread(tx') = SubSeq(u, n + 1, n)
      BY <1>0, <2>1, <2>2, SkipDrops
    <3> QED
      BY <2>1, <3>1
  <2>4. tx'.w_ptr = tx.w_ptr /\ tx'.buf = tx.buf
    BY <1>0, <2>2 DEF Skip, Ring
  <2>5. RingLength(tx') + Len(writing'.text) < N
    <3>1. Len(writing.text) \in Nat /\ n + Len(writing.text) < N
      BY <1>0 DEF Written
    <3> QED
      BY <2>1, <2>2, <2>3, <3>1, RingAssumption
  <2>6. Written'
    BY <2>2, <2>4, <2>5 DEF Written, PutSoFar
  <2>7. u = SubSeq(u, 1, n) /\ n \in 1 .. Len(u) /\ Len(u) = n
    BY <1>0, <2>1
  <2>8. TxQueue!Dequeue
    BY <2>2, <2>3, <2>7 DEF TxQueue!Dequeue
  <2> QED
    BY <2>6, <2>8 DEF TxNext, TxQueue!Next
<1> QED
  BY <1>1, <1>2, <1>3, <1>4, <1>5
     DEF Next, PacketComes, UsbReceives, BeginRead, CopyByte, EndRead, vars

(* What the program prints comes to the USB driver in order, once and
   completely, and half written text is never sent, whenever the pended
   interrupt comes. *)
THEOREM TransmitsInOrderAlways == Spec => TransmitsInOrder
<1>1. Init => TxQueue!Init
  <2> SUFFICES ASSUME Init PROVE TxQueue!Init
    OBVIOUS
  <2>1. RingLength(tx) = 0
    BY DEF Init, EmptyRing, RingLength
  <2>2. Unread(tx) = <<>>
    BY <2>1 DEF Unread, Peek
  <2> QED
    BY <2>2 DEF Init, NotWriting, TxQueue!Init
<1>2. TypeOK /\ Written /\ [Next]_vars => Written' /\ [TxQueue!Next]_<<writing.text, Unread(tx), lastSent>>
  BY WrittenStep DEF TxNext
<1> QED
  BY <1>1, <1>2, TypeInit, TypeStep, WrittenInit, PTL DEF Spec, TransmitsInOrder, TxQueue!Spec
=============================================================================
