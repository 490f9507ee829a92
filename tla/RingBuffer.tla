----------------------------- MODULE RingBuffer -----------------------------
(***************************************************************************)
(* ringbuffer.c: the byte queue between an interrupt handler and the main  *)
(* program.  A ring is a record of its two positions and its bytes; the    *)
(* functions of ringbuffer.c are operators on it.                          *)
(***************************************************************************)
EXTENDS Integers, Sequences, TLAPS

CONSTANTS
  N,       (* length: the size of the memory                               *)
  Byte     (* what a cell holds                                            *)

ASSUME RingAssumption == N \in Nat \ {0} /\ Byte # {}

Position == 0 .. N - 1
Ring     == [r_ptr : Position, w_ptr : Position, buf : [Position -> Byte]]

(* ringbuffer_init; the memory is the caller's. *)
EmptyRing(memory) == [r_ptr |-> 0, w_ptr |-> 0, buf |-> memory]

(* ringbuffer_length *)
RingLength(q) ==
  IF q.r_ptr <= q.w_ptr THEN q.w_ptr - q.r_ptr ELSE q.w_ptr - q.r_ptr + N

(* ringbuffer_freespace: one more than can be written, as a ring of N unread
   bytes is not different from an empty one. *)
FreeSpace(q) == N - RingLength(q)

(* The bytes ringbuffer_read copies, and where it leaves the ring; one of no
   more bytes than the ring has. *)
Peek(q, n) == [i \in 1 .. n |-> q.buf[(q.r_ptr + i - 1) % N]]

(* A plausible bug: the position is not wrapped. *)
SkipStraight(q, n) == [q EXCEPT !.r_ptr = @ + n]

Skip(q, n) == [q EXCEPT !.r_ptr = (@ + n) % N]

(* A plausible bug: the place of a byte is not wrapped. *)
PutStraight(q, bytes) ==
  [q EXCEPT !.w_ptr = (@ + Len(bytes)) % N,
            !.buf = [p \in Position |->
                       LET i == p - q.w_ptr
                       IN  IF i \in 0 .. Len(bytes) - 1 THEN bytes[i + 1] ELSE @[p]]]

(* ringbuffer_write; it does not look at r_ptr.  A cell that is written more
   than once keeps its last byte. *)
Put(q, bytes) ==
  [q EXCEPT !.w_ptr = (@ + Len(bytes)) % N,
            !.buf = [p \in Position |->
                       LET back == (q.w_ptr + Len(bytes) - 1 - p) % N
                       IN  IF back < Len(bytes) THEN bytes[Len(bytes) - back] ELSE @[p]]]

(* What can be read. *)
Unread(q) == Peek(q, RingLength(q))

-----------------------------------------------------------------------------
(***************************************************************************)
(* Facts about positions.                                                  *)
(***************************************************************************)

(* The remainder of what is no more than one round too large. *)
LEMMA Wrap ==
  ASSUME NEW x \in Int, 0 <= x, x < 2 * N
  PROVE  x % N = IF x < N THEN x ELSE x - N
BY RingAssumption

LEMMA WrapTwice ==
  ASSUME NEW x \in Int, 2 * N <= x, x < 3 * N
  PROVE  x % N = x - 2 * N
BY RingAssumption

LEMMA WrapBelow ==
  ASSUME NEW x \in Int, -N <= x, x < 0
  PROVE  x % N = x + N
BY RingAssumption

LEMMA PositionOf == ASSUME NEW x \in Int PROVE x % N \in Position
BY RingAssumption DEF Position

(* Taking the remainder on the way makes no difference. *)
LEMMA Advance ==
  ASSUME NEW p \in Position, NEW i \in 0 .. N, NEW j \in 0 .. N, i + j <= N
  PROVE  (((p + i) % N) + j) % N = (p + i + j) % N
<1> DEFINE q == (p + i) % N
<1>1. q = IF p + i < N THEN p + i ELSE p + i - N
  BY Wrap, RingAssumption DEF Position
<1>2. q \in Position
  BY PositionOf DEF Position
<1>3. (q + j) % N = IF q + j < N THEN q + j ELSE q + j - N
  <2> HIDE DEF q
  <2> QED
    BY <1>2, Wrap, RingAssumption DEF Position
<1>4. (p + i + j) % N = IF p + i + j < N THEN p + i + j ELSE
                        IF p + i + j < 2 * N THEN p + i + j - N ELSE p + i + j - 2 * N
  BY Wrap, WrapTwice, RingAssumption DEF Position
<1> HIDE DEF q
<1>5. (q + j) % N = (p + i + j) % N
  BY <1>1, <1>2, <1>3, <1>4, RingAssumption DEF Position
<1> QED
  BY <1>5 DEF q

(* Fewer than N steps from one position lead to different ones. *)
LEMMA Apart ==
  ASSUME NEW p \in Position, NEW i \in 0 .. N - 1, NEW j \in 0 .. N - 1,
         (p + i) % N = (p + j) % N
  PROVE  i = j
<1>1. (p + i) % N = IF p + i < N THEN p + i ELSE p + i - N
  BY Wrap, RingAssumption DEF Position
<1>2. (p + j) % N = IF p + j < N THEN p + j ELSE p + j - N
  BY Wrap, RingAssumption DEF Position
<1> QED
  BY <1>1, <1>2, RingAssumption DEF Position

-----------------------------------------------------------------------------
(***************************************************************************)
(* Facts about the ring.                                                   *)
(***************************************************************************)
LEMMA LengthIsDistance ==
  ASSUME NEW q \in Ring
  PROVE  /\ RingLength(q) \in 0 .. N - 1
         /\ q.w_ptr = (q.r_ptr + RingLength(q)) % N
<1>1. q.r_ptr \in Position /\ q.w_ptr \in Position
  BY DEF Ring
<1>2. RingLength(q) \in 0 .. N - 1
  BY <1>1, RingAssumption DEF RingLength, Position
<1>3. (q.r_ptr + RingLength(q)) % N = IF q.r_ptr + RingLength(q) < N THEN q.r_ptr + RingLength(q)
                                      ELSE q.r_ptr + RingLength(q) - N
  BY <1>1, <1>2, Wrap, RingAssumption DEF Position
<1> QED
  BY <1>1, <1>2, <1>3, RingAssumption DEF RingLength, Position

LEMMA DistanceIsLength ==
  ASSUME NEW q \in Ring, NEW n \in 0 .. N - 1, q.w_ptr = (q.r_ptr + n) % N
  PROVE  RingLength(q) = n
<1>1. q.r_ptr \in Position /\ q.w_ptr \in Position
  BY DEF Ring
<1> DEFINE m == (q.r_ptr + n) % N
<1>2. m = IF q.r_ptr + n < N THEN q.r_ptr + n ELSE q.r_ptr + n - N
  BY <1>1, Wrap, RingAssumption DEF Position
<1>3. q.w_ptr = m
  OBVIOUS
<1> HIDE DEF m
<1> QED
  BY <1>1, <1>2, <1>3, RingAssumption DEF RingLength, Position

LEMMA PutFields ==
  ASSUME NEW q \in Ring, NEW bytes \in Seq(Byte)
  PROVE  /\ Put(q, bytes) \in Ring
         /\ Put(q, bytes).r_ptr = q.r_ptr
         /\ Put(q, bytes).w_ptr = (q.w_ptr + Len(bytes)) % N
         /\ \A p \in Position : Put(q, bytes).buf[p] =
              IF (q.w_ptr + Len(bytes) - 1 - p) % N < Len(bytes)
                THEN bytes[Len(bytes) - ((q.w_ptr + Len(bytes) - 1 - p) % N)] ELSE q.buf[p]
<1> DEFINE back(p) == (q.w_ptr + Len(bytes) - 1 - p) % N
           cells == [p \in Position |->
                       LET bk == (q.w_ptr + Len(bytes) - 1 - p) % N
                       IN  IF bk < Len(bytes) THEN bytes[Len(bytes) - bk] ELSE q.buf[p]]
           w     == (q.w_ptr + Len(bytes)) % N
<1>1. q = [r_ptr |-> q.r_ptr, w_ptr |-> q.w_ptr, buf |-> q.buf]
      /\ q.w_ptr \in Position /\ q.r_ptr \in Position /\ q.buf \in [Position -> Byte]
  BY DEF Ring
<1>2. Put(q, bytes) = [r_ptr |-> q.r_ptr, w_ptr |-> w, buf |-> cells]
  <2>1. Put(q, bytes) = [q EXCEPT !.w_ptr = w, !.buf = cells]
    BY DEF Put
  <2> HIDE DEF w, cells
  <2> QED
    BY <1>1, <2>1
<1>3. ASSUME NEW p \in Position PROVE back(p) \in 0 .. N - 1
  BY <1>1, RingAssumption DEF Position
<1>4. ASSUME NEW p \in Position, back(p) < Len(bytes) PROVE bytes[Len(bytes) - back(p)] \in Byte
  <2>1. Len(bytes) - back(p) \in 1 .. Len(bytes)
    <3>1. back(p) \in Nat
      BY <1>3, RingAssumption
    <3> HIDE DEF back
    <3> QED
      BY <3>1, <1>4
  <2> HIDE DEF back
  <2> QED
    BY <2>1
<1>5. cells = [p \in Position |-> IF back(p) < Len(bytes)
                                   THEN bytes[Len(bytes) - back(p)] ELSE q.buf[p]]
  OBVIOUS
<1> HIDE DEF back, cells
<1>6. cells \in [Position -> Byte]
  BY <1>1, <1>4, <1>5
<1>7. w \in Position
  BY <1>1, PositionOf DEF Position
<1>8. \A p \in Position :
        cells[p] = IF back(p) < Len(bytes) THEN bytes[Len(bytes) - back(p)] ELSE q.buf[p]
  BY <1>5
<1> HIDE DEF w
<1>9. /\ Put(q, bytes) \in Ring
      /\ Put(q, bytes).r_ptr = q.r_ptr
      /\ Put(q, bytes).w_ptr = w
      /\ Put(q, bytes).buf = cells
  BY <1>1, <1>2, <1>6, <1>7 DEF Ring
<1>10. \A p \in Position : Put(q, bytes).buf[p] =
         IF back(p) < Len(bytes) THEN bytes[Len(bytes) - back(p)] ELSE q.buf[p]
  BY <1>8, <1>9
<1>11. ASSUME NEW p \in Position
       PROVE  Put(q, bytes).buf[p] =
         IF (q.w_ptr + Len(bytes) - 1 - p) % N < Len(bytes)
           THEN bytes[Len(bytes) - ((q.w_ptr + Len(bytes) - 1 - p) % N)] ELSE q.buf[p]
  BY <1>10 DEF back
<1>12. Put(q, bytes).w_ptr = (q.w_ptr + Len(bytes)) % N
  BY <1>9 DEF w
<1> QED
  BY <1>9, <1>11, <1>12

(* What was written is in the cells from w_ptr on. *)
LEMMA PutWrites ==
  ASSUME NEW q \in Ring, NEW bytes \in Seq(Byte), Len(bytes) <= N, NEW i \in 1 .. Len(bytes)
  PROVE  Put(q, bytes).buf[(q.w_ptr + i - 1) % N] = bytes[i]
<1> DEFINE p == (q.w_ptr + i - 1) % N
           n == Len(bytes)
<1>1. q.w_ptr \in Position /\ n \in Nat
  BY DEF Ring
<1> DEFINE y == q.w_ptr + i - 1
<1>0. y \in Int /\ 0 <= y /\ y < 2 * N /\ i \in 1 .. n
  BY <1>1, RingAssumption DEF Position
<1>2. p \in Position
  BY <1>0, PositionOf
<1>3. p = IF y < N THEN y ELSE y - N
  BY <1>0, Wrap
<1>4. (q.w_ptr + n - 1 - p) % N = n - i
  <2> DEFINE x == q.w_ptr + n - 1 - p
  <2>1. x = n - i \/ x = n - i + N
    <3> DEFINE v == q.w_ptr
    <3>1. v \in Int /\ n \in Int /\ i \in Int /\ N \in Int /\ y = v + i - 1 /\ (p = y \/ p = y - N)
      BY <1>0, <1>1, <1>3, RingAssumption DEF Position
    <3>2. x = v + n - 1 - p
      OBVIOUS
    <3> HIDE DEF p, n, y, v, x
    <3> QED
      BY <3>1, <3>2
  <2>2. x \in Int /\ 0 <= x /\ x < 2 * N /\ n - i < N /\ 0 <= n - i /\ n - i \in Int
    <3> HIDE DEF p
    <3> QED
      BY <1>1, <2>1, RingAssumption
  <2> HIDE DEF x, n
  <2>3. x % N = IF x < N THEN x ELSE x - N
    BY <2>2, Wrap
  <2>4. x % N = n - i
    BY <2>1, <2>2, <2>3, RingAssumption
  <2> QED
    BY <2>4 DEF x
<1> HIDE DEF p
<1>5. Put(q, bytes).buf[p] = IF (q.w_ptr + n - 1 - p) % N < n
                              THEN bytes[n - ((q.w_ptr + n - 1 - p) % N)] ELSE q.buf[p]
  BY <1>2, PutFields
<1>6. n - i < n /\ n - (n - i) = i
  <2> HIDE DEF n
  <2> QED
    BY <1>0, <1>1
<1>7. Put(q, bytes).buf[p] = bytes[i]
  <2> DEFINE b == (q.w_ptr + n - 1 - p) % N
  <2>1. b = n - i
    BY <1>4
  <2>2. Put(q, bytes).buf[p] = IF b < n THEN bytes[n - b] ELSE q.buf[p]
    BY <1>5
  <2> HIDE DEF b, n
  <2> QED
    BY <1>6, <2>1, <2>2
<1> QED
  BY <1>7 DEF p

(* The other cells are as they were. *)
LEMMA PutKeeps ==
  ASSUME NEW q \in Ring, NEW bytes \in Seq(Byte), Len(bytes) <= N, NEW p \in Position,
         \A i \in 1 .. Len(bytes) : p # (q.w_ptr + i - 1) % N
  PROVE  Put(q, bytes).buf[p] = q.buf[p]
<1> DEFINE n == Len(bytes)
           b == (q.w_ptr + n - 1 - p) % N
<1>1. q.w_ptr \in Position /\ n \in Nat
  BY DEF Ring
<1>2. b \in 0 .. N - 1
  BY <1>1, RingAssumption DEF Position
<1>3. ~(b < n)
  <2> SUFFICES ASSUME b < n PROVE FALSE
    OBVIOUS
  <2> DEFINE i == n - b
  <2>1. i \in 1 .. n
    <3> HIDE DEF b
    <3> QED
      BY <1>1, <1>2, RingAssumption
  <2>2. (q.w_ptr + i - 1) % N = p
    <3> DEFINE x == q.w_ptr + n - 1 - p
    <3>1. x \in Int /\ x = q.w_ptr + n - 1 - p
      BY <1>1 DEF Position
    <3>2. b = x % N
      OBVIOUS
    <3> HIDE DEF x, b, n
    <3>3. x < 2 * N /\ -N <= x /\ n <= N
      BY <1>1, <3>1, RingAssumption DEF Position, n
    <3>4. b = IF x < 0 THEN x + N ELSE IF x < N THEN x ELSE x - N
      BY <3>1, <3>2, <3>3, Wrap, WrapBelow
    <3> DEFINE y == q.w_ptr + i - 1
    <3>5. y \in Int /\ 0 <= y /\ y = p + (x - b) /\ p \in Int /\ p < N /\ 0 <= p
      BY <1>1, <1>2, <2>1, <3>1, RingAssumption DEF Position
    <3> HIDE DEF y
    <3>6. y = p \/ y = p + N
      BY <1>2, <3>1, <3>4, <3>5, RingAssumption
    <3>7. y % N = p
      BY <3>5, <3>6, Wrap, RingAssumption
    <3> QED
      BY <3>7 DEF y
  <2> QED
    BY <2>1, <2>2
<1> QED
  BY <1>3, PutFields

LEMMA UnreadIsSeq ==
  ASSUME NEW q \in Ring
  PROVE  /\ Unread(q) \in Seq(Byte)
         /\ Len(Unread(q)) = RingLength(q)
         /\ \A i \in 1 .. RingLength(q) : Unread(q)[i] = q.buf[(q.r_ptr + i - 1) % N]
<1>1. RingLength(q) \in Nat /\ RingLength(q) < N /\ q.r_ptr \in Position /\ q.buf \in [Position -> Byte]
  BY LengthIsDistance, RingAssumption DEF Ring
<1>2. \A i \in 1 .. RingLength(q) : (q.r_ptr + i - 1) % N \in Position
  <2> SUFFICES ASSUME NEW i \in 1 .. RingLength(q) PROVE (q.r_ptr + i - 1) % N \in Position
    OBVIOUS
  <2>1. q.r_ptr + i - 1 \in Int
    BY <1>1 DEF Position
  <2> QED
    BY <2>1, PositionOf
<1>3. \A i \in 1 .. RingLength(q) : q.buf[(q.r_ptr + i - 1) % N] \in Byte
  BY <1>1, <1>2
<1>4. Unread(q) = [i \in 1 .. RingLength(q) |-> q.buf[(q.r_ptr + i - 1) % N]]
  BY DEF Unread, Peek
<1> QED
  BY <1>1, <1>3, <1>4

(* As long as one cell stays free, the cells to be written are not those to be
   read. *)
LEMMA FreeCells ==
  ASSUME NEW q \in Ring, NEW n \in Nat, RingLength(q) + n < N,
         NEW i \in 1 .. n, NEW k \in 1 .. RingLength(q)
  PROVE  (q.r_ptr + k - 1) % N # (q.w_ptr + i - 1) % N
<1> DEFINE L == RingLength(q)
           r == q.r_ptr
<1>1. L \in 0 .. N - 1 /\ L + n < N /\ k \in 1 .. L
      /\ r \in Position /\ q.w_ptr = (r + L) % N /\ q.w_ptr \in Position
  BY LengthIsDistance, RingAssumption DEF Ring
<1> HIDE DEF L, r
<1>2. /\ q.w_ptr + i - 1 = q.w_ptr + (i - 1) /\ i - 1 \in 0 .. N
      /\ r + k - 1 = r + (k - 1) /\ r + L + (i - 1) = r + (L + i - 1)
      /\ k - 1 \in 0 .. N - 1 /\ L + i - 1 \in 0 .. N - 1 /\ k - 1 # L + i - 1
      /\ L + (i - 1) <= N /\ L \in 0 .. N
  BY <1>1, RingAssumption DEF Position
<1>3. (q.w_ptr + i - 1) % N = (r + (L + i - 1)) % N
  BY <1>1, <1>2, Advance
<1>4. (r + (k - 1)) % N # (r + (L + i - 1)) % N
  BY <1>1, <1>2, Apart
<1>5. (r + k - 1) % N # (q.w_ptr + i - 1) % N
  BY <1>2, <1>3, <1>4
<1> QED
  BY <1>5 DEF r

(* A ring with the same positions and the same unread bytes. *)
LEMMA SameUnread ==
  ASSUME NEW q \in Ring, NEW new \in Ring,
         new.r_ptr = q.r_ptr, new.w_ptr = q.w_ptr,
         \A k \in 1 .. RingLength(q) :
           new.buf[(q.r_ptr + k - 1) % N] = q.buf[(q.r_ptr + k - 1) % N]
  PROVE  RingLength(new) = RingLength(q) /\ Unread(new) = Unread(q)
<1>1. RingLength(new) = RingLength(q)
  BY DEF RingLength
<1> DEFINE L == RingLength(q)
           u == Unread(q)
           v == Unread(new)
<1>2. /\ L \in Nat /\ u \in Seq(Byte) /\ v \in Seq(Byte) /\ Len(u) = L /\ Len(v) = L
      /\ \A i \in 1 .. L : u[i] = v[i]
  BY <1>1, UnreadIsSeq, LengthIsDistance, RingAssumption
<1> HIDE DEF L, u, v
<1>3. u = v
  BY <1>2
<1> QED
  BY <1>1, <1>3 DEF u, v

(* A ring whose w_ptr has passed the bytes written from there on. *)
LEMMA Publishing ==
  ASSUME NEW q \in Ring, NEW new \in Ring, NEW bytes \in Seq(Byte),
         RingLength(q) + Len(bytes) < N,
         new.r_ptr = q.r_ptr, new.w_ptr = (q.w_ptr + Len(bytes)) % N,
         \A i \in 1 .. Len(bytes) : new.buf[(q.w_ptr + i - 1) % N] = bytes[i],
         \A k \in 1 .. RingLength(q) :
           new.buf[(q.r_ptr + k - 1) % N] = q.buf[(q.r_ptr + k - 1) % N]
  PROVE  /\ RingLength(new) = RingLength(q) + Len(bytes)
         /\ Unread(new) = Unread(q) \o bytes
<1> DEFINE n == Len(bytes)
           L == RingLength(q)
           r == q.r_ptr
<1>1. /\ n \in Nat /\ L \in 0 .. N - 1 /\ L + n < N /\ n <= N
      /\ r \in Position /\ q.w_ptr = (r + L) % N /\ q.w_ptr \in Position
  BY LengthIsDistance, RingAssumption DEF Ring
<1>2. new \in Ring /\ new.r_ptr = r /\ new.w_ptr = (q.w_ptr + n) % N
  OBVIOUS
<1>3. \A i \in 0 .. n : (q.w_ptr + i) % N = (r + L + i) % N
  <2> HIDE DEF n, L, r
  <2> QED
    BY <1>1, Advance, RingAssumption
<1>4. \A i \in 1 .. n : new.buf[(r + L + i - 1) % N] = bytes[i]
  <2>1. SUFFICES ASSUME NEW i \in 1 .. n PROVE new.buf[(r + L + i - 1) % N] = bytes[i]
    OBVIOUS
  <2>2. new.buf[(q.w_ptr + i - 1) % N] = bytes[i]
    OBVIOUS
  <2>3. q.w_ptr + i - 1 = q.w_ptr + (i - 1) /\ r + L + i - 1 = r + L + (i - 1) /\ i - 1 \in 0 .. n
    <3> HIDE DEF n, L, r
    <3> QED
      BY <1>1 DEF Position
  <2> QED
    BY <1>3, <2>2, <2>3
<1>5. \A k \in 1 .. L : new.buf[(r + k - 1) % N] = q.buf[(r + k - 1) % N]
  OBVIOUS
<1>6. RingLength(new) = L + n
  <2>1. new.w_ptr = (r + L + n) % N /\ L + n \in 0 .. N - 1 /\ r + L + n = r + (L + n)
    <3> HIDE DEF n, L, r
    <3>1. (q.w_ptr + n) % N = (r + L + n) % N
      BY <1>1, <1>3
    <3> QED
      BY <1>1, <1>2, <3>1, RingAssumption DEF Position
  <2> HIDE DEF n, L, r
  <2> QED
    BY <1>2, <2>1, DistanceIsLength
<1>7. /\ Unread(q) \in Seq(Byte) /\ Len(Unread(q)) = L
      /\ Unread(new) \in Seq(Byte) /\ Len(Unread(new)) = L + n
      /\ \A i \in 1 .. L : Unread(q)[i] = q.buf[(r + i - 1) % N]
      /\ \A i \in 1 .. L + n : Unread(new)[i] = new.buf[(r + i - 1) % N]
  BY <1>2, <1>6, UnreadIsSeq
<1>8. \A i \in 1 .. L + n : Unread(new)[i] = (Unread(q) \o bytes)[i]
  <2>1. SUFFICES ASSUME NEW i \in 1 .. L + n PROVE Unread(new)[i] = (Unread(q) \o bytes)[i]
    OBVIOUS
  <2> DEFINE u == Unread(q)
             v == Unread(new)
  <2>2. u \in Seq(Byte) /\ Len(u) = L /\ bytes \in Seq(Byte) /\ Len(bytes) = n
    BY <1>7
  <2>3. v[i] = new.buf[(r + i - 1) % N] /\ (i <= L => u[i] = q.buf[(r + i - 1) % N])
    BY <1>1, <1>7
  <2> HIDE DEF n, L, r, u, v
  <2>4. CASE i <= L
    <3>1. i \in 1 .. L
      BY <1>1, <2>4
    <3>2. v[i] = u[i]
      BY <1>5, <2>3, <3>1
    <3>3. (u \o bytes)[i] = u[i]
      BY <1>1, <2>2, <3>1
    <3> QED
      BY <3>2, <3>3 DEF u, v
  <2>5. CASE i > L
    <3> DEFINE j == i - L
    <3>1. j \in 1 .. n /\ r + L + j - 1 = r + i - 1
      BY <1>1, <2>5 DEF Position
    <3>2. v[i] = bytes[j]
      BY <1>4, <2>3, <3>1
    <3>3. (u \o bytes)[i] = bytes[j]
      BY <1>1, <2>2, <2>5
    <3> QED
      BY <3>2, <3>3 DEF u, v
  <2>6. i <= L \/ i > L
    BY <1>1, RingAssumption
  <2> QED
    BY <2>4, <2>5, <2>6, Zenon
<1> HIDE DEF n, L, r
<1>9. Unread(q) \o bytes \in Seq(Byte) /\ Len(Unread(q) \o bytes) = L + n
  BY <1>7 DEF n
<1>10. Unread(new) = Unread(q) \o bytes
  <2> DEFINE u == Unread(q) \o bytes
             v == Unread(new)
  <2>1. u \in Seq(Byte) /\ v \in Seq(Byte) /\ Len(u) = Len(v) /\ \A i \in 1 .. Len(u) : u[i] = v[i]
    BY <1>7, <1>8, <1>9
  <2> HIDE DEF u, v
  <2>2. u = v
    BY <2>1
  <2> QED
    BY <2>2 DEF u, v
<1> QED
  BY <1>6, <1>10 DEF n, L

(* Putting is appending, as long as one cell stays free. *)
LEMMA PutAppends ==
  ASSUME NEW q \in Ring, NEW bytes \in Seq(Byte), RingLength(q) + Len(bytes) < N
  PROVE  /\ RingLength(Put(q, bytes)) = RingLength(q) + Len(bytes)
         /\ Unread(Put(q, bytes)) = Unread(q) \o bytes
<1> DEFINE n == Len(bytes)
           L == RingLength(q)
           new == Put(q, bytes)
<1>1. n \in Nat /\ L \in 0 .. N - 1 /\ L + n < N /\ n <= N /\ q.r_ptr \in Position
  BY LengthIsDistance, RingAssumption DEF Ring
<1>2. new \in Ring /\ new.r_ptr = q.r_ptr /\ new.w_ptr = (q.w_ptr + n) % N
  BY PutFields
<1>3. \A i \in 1 .. n : new.buf[(q.w_ptr + i - 1) % N] = bytes[i]
  BY <1>1, PutWrites
<1>4. \A k \in 1 .. L : new.buf[(q.r_ptr + k - 1) % N] = q.buf[(q.r_ptr + k - 1) % N]
  <2>1. SUFFICES ASSUME NEW k \in 1 .. L
        PROVE  new.buf[(q.r_ptr + k - 1) % N] = q.buf[(q.r_ptr + k - 1) % N]
    OBVIOUS
  <2>2. (q.r_ptr + k - 1) % N \in Position
    <3>1. q.r_ptr + k - 1 \in Int
      BY <1>1 DEF Position
    <3> QED
      BY <3>1, PositionOf
  <2>3. ASSUME NEW i \in 1 .. n PROVE (q.r_ptr + k - 1) % N # (q.w_ptr + i - 1) % N
    BY <1>1, FreeCells
  <2> QED
    BY <1>1, <2>2, <2>3, PutKeeps
<1> QED
  BY <1>1, <1>2, <1>3, <1>4, Publishing

(* Setting r_ptr past n bytes drops them. *)
LEMMA SkipDrops ==
  ASSUME NEW q \in Ring, NEW n \in 0 .. RingLength(q)
  PROVE  /\ Skip(q, n) \in Ring
         /\ RingLength(Skip(q, n)) = RingLength(q) - n
         /\ Unread(Skip(q, n)) = SubSeq(Unread(q), n + 1, RingLength(q))
<1> DEFINE L == RingLength(q)
           r == q.r_ptr
           p == (r + n) % N
           new == Skip(q, n)
<1>1. /\ L \in 0 .. N - 1 /\ r \in Position /\ q.w_ptr = (r + L) % N
      /\ q.w_ptr \in Position /\ q.buf \in [Position -> Byte]
      /\ q = [r_ptr |-> r, w_ptr |-> q.w_ptr, buf |-> q.buf] /\ n \in 0 .. L
  BY LengthIsDistance DEF Ring
<1>2. p \in Position
  <2> HIDE DEF L, r
  <2> QED
    BY <1>1, PositionOf DEF Position
<1>3. new = [r_ptr |-> p, w_ptr |-> q.w_ptr, buf |-> q.buf]
  <2>1. new = [q EXCEPT !.r_ptr = p]
    BY DEF Skip
  <2> HIDE DEF p, new, r
  <2> QED
    BY <1>1, <2>1
<1>4. new \in Ring /\ new.r_ptr = p /\ new.w_ptr = q.w_ptr /\ new.buf = q.buf
  <2> HIDE DEF p, new
  <2> QED
    BY <1>1, <1>2, <1>3 DEF Ring
<1>5. \A i \in 0 .. L - n : (p + i) % N = (r + n + i) % N
  <2>1. SUFFICES ASSUME NEW i \in 0 .. L - n PROVE (p + i) % N = (r + n + i) % N
    OBVIOUS
  <2> HIDE DEF L, r
  <2>2. n \in 0 .. N /\ i \in 0 .. N /\ n + i <= N
    BY <1>1, RingAssumption
  <2> QED
    BY <1>1, <2>2, Advance
<1>6. RingLength(new) = L - n
  <2>1. (p + (L - n)) % N = (r + n + (L - n)) % N /\ r + n + (L - n) = r + L
    <3> HIDE DEF L, r, p
    <3> QED
      BY <1>1, <1>5 DEF Position
  <2>2. new.w_ptr = (new.r_ptr + (L - n)) % N /\ L - n \in 0 .. N - 1
    <3> HIDE DEF L, r, p, new
    <3> QED
      BY <1>1, <1>4, <2>1, RingAssumption
  <2> HIDE DEF L, new
  <2> QED
    BY <1>4, <2>2, DistanceIsLength
<1>7. /\ Unread(q) \in Seq(Byte) /\ Len(Unread(q)) = L
      /\ Unread(new) \in Seq(Byte) /\ Len(Unread(new)) = L - n
      /\ \A i \in 1 .. L : Unread(q)[i] = q.buf[(r + i - 1) % N]
      /\ \A i \in 1 .. L - n : Unread(new)[i] = q.buf[(p + i - 1) % N]
  BY <1>4, <1>6, UnreadIsSeq
<1>8. \A i \in 1 .. L - n : Unread(new)[i] = Unread(q)[n + i]
  <2>1. SUFFICES ASSUME NEW i \in 1 .. L - n PROVE Unread(new)[i] = Unread(q)[n + i]
    OBVIOUS
  <2> HIDE DEF L, r, p, new
  <2>2. /\ p + i - 1 = p + (i - 1) /\ r + n + (i - 1) = r + (n + i) - 1
        /\ i - 1 \in 0 .. L - n /\ n + i \in 1 .. L
    BY <1>1, <1>2 DEF Position
  <2> QED
    BY <1>5, <1>7, <2>2
<1> HIDE DEF L, r, p, new
<1>9. Unread(new) = SubSeq(Unread(q), n + 1, L)
  <2> DEFINE u == Unread(q)
             v == Unread(new)
             s == SubSeq(u, n + 1, L)
  <2>1. u \in Seq(Byte) /\ Len(u) = L /\ v \in Seq(Byte) /\ Len(v) = L - n
        /\ \A i \in 1 .. L - n : v[i] = u[n + i]
    BY <1>7, <1>8
  <2> HIDE DEF u, v
  <2>2. s \in Seq(Byte) /\ Len(s) = L - n /\ \A i \in 1 .. L - n : s[i] = u[n + i]
    BY <1>1, <2>1
  <2> HIDE DEF s
  <2>3. s = v
    BY <2>1, <2>2
  <2> QED
    BY <2>3 DEF s, u, v
<1> QED
  BY <1>4, <1>6, <1>9 DEF L, new
=============================================================================
