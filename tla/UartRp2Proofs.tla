---------------------------- MODULE UartRp2Proofs ----------------------------
(***************************************************************************)
(* Proofs about the receiving side of a UART of the RP2 boards, for a ring *)
(* and a FIFO of any size and any number of bytes.                         *)
(***************************************************************************)
EXTENDS UartRp2

(* km_uart_read has begun only where it says so. *)
Typed == TypeOK /\ (pc # "copy" => n = 0 /\ buf = <<>>)

LEMMA TypedInit == Init => Typed
<1> SUFFICES ASSUME Init PROVE Typed
  OBVIOUS
<1> DEFINE memory == [p \in Position |-> Unset]
<1>1. /\ 0 \in Position /\ 0 \in 0 .. N - 1 /\ 0 \in Byte /\ 0 <= Depth
      /\ memory \in [Position -> Byte]
  BY RingAssumption, UartAssumption DEF Position, Unset
<1>2. ring = EmptyRing(memory)
  BY DEF Init
<1> HIDE DEF memory
<1>3. ring \in Ring
  BY <1>1, <1>2 DEF EmptyRing, Ring
<1> QED
  BY <1>1, <1>3 DEF Typed, TypeOK, Init, Unset

LEMMA TypedStep == Typed /\ [Next]_vars => Typed'
<1> SUFFICES ASSUME Typed, [Next]_vars PROVE Typed'
  OBVIOUS
<1>0. /\ ring.r_ptr \in Position /\ ring.w_ptr \in Position /\ ring.buf \in [Position -> Byte]
      /\ RingLength(ring) \in 0 .. N - 1
      /\ 0 \in Position /\ 0 \in 0 .. N - 1 /\ 0 \in Byte /\ N \in Nat \ {0}
      /\ Byte = 0 .. LastByte /\ LastByte \in Nat /\ Depth \in Nat
  <2>1. ring \in Ring
    BY DEF Typed, TypeOK
  <2>2. RingLength(ring) \in 0 .. N - 1
    BY <2>1, LengthIsDistance
  <2>3. ring.r_ptr \in Position /\ ring.w_ptr \in Position /\ ring.buf \in [Position -> Byte]
    BY <2>1 DEF Ring
  <2> QED
    BY <2>2, <2>3, RingAssumption, UartAssumption DEF Position
<1>1. (at + 1) % N \in Position
  <2>1. at + 1 \in Int
    BY DEF Typed, TypeOK, Position
  <2> QED
    BY <2>1, PositionOf
<1> USE DEF Typed, TypeOK
<1>2. CASE ByteComes
  <2>1. came' \in Byte /\ came' \in 1 .. LastByte
    BY <1>0, <1>2 DEF ByteComes
  <2>2. fifo' \in Seq(1 .. LastByte) /\ Len(fifo') <= Depth
    <3> DEFINE longer == Append(fifo, came')
    <3>1. longer \in Seq(1 .. LastByte) /\ Len(longer) = Len(fifo) + 1
      BY <2>1
    <3>2. (Len(fifo) < Depth /\ fifo' = longer) \/ fifo' = fifo
      BY <1>2 DEF ByteComes
    <3>3. Len(fifo) \in Nat
      OBVIOUS
    <3> HIDE DEF longer
    <3>4. ASSUME Len(fifo) < Depth, fifo' = longer
          PROVE  fifo' \in Seq(1 .. LastByte) /\ Len(fifo') <= Depth
      BY <1>0, <3>1, <3>3, <3>4
    <3> QED
      BY <3>2, <3>4
  <2> QED
    BY <1>2, <2>1, <2>2 DEF ByteComes, main
<1>3. CASE Irq
  <2>1. fifo \in Seq(Byte)
    BY <1>0
  <2>2. ring' \in Ring
    BY <1>3, <2>1, PutFields DEF Irq
  <2> QED
    BY <1>0, <1>3, <2>2 DEF Irq, main
<1>4. CASE CallAvailable
  BY <1>4 DEF CallAvailable
<1>5. CASE IsReadable
  BY <1>0, <1>5 DEF IsReadable
<1>6. CASE Getc
  <2>1. Head(fifo) \in 1 .. LastByte /\ Tail(fifo) \in Seq(1 .. LastByte) /\ Len(Tail(fifo)) <= Depth
    BY <1>0, <1>6 DEF Getc
  <2> QED
    BY <1>0, <1>6, <2>1 DEF Getc
<1>7. CASE WriteBegin
  BY <1>0, <1>7 DEF WriteBegin
<1>8. CASE Store
  <2>1. ring' \in Ring
    BY <1>8 DEF Store, Ring
  <2> QED
    BY <1>8, <2>1 DEF Store
<1>9. CASE Publish
  <2>1. ring' \in Ring
    BY <1>1, <1>9 DEF Publish, Ring
  <2> QED
    BY <1>0, <1>9, <2>1 DEF Publish, Unset
<1>10. CASE ReadBegin
  <2>1. n' \in 0 .. len
    BY <1>0, <1>10 DEF ReadBegin
  <2> QED
    BY <1>0, <1>10, <2>1 DEF ReadBegin
<1>11. CASE Copy
  <2>1. ring.buf[at] \in Byte
    BY <1>0
  <2> DEFINE b == ring.buf[at]
  <2>2. Append(buf, b) \in Seq(Byte) /\ Len(Append(buf, b)) <= n
    <3> HIDE DEF b
    <3> QED
      BY <1>11, <2>1 DEF Copy, b
  <2> QED
    BY <1>1, <1>11, <2>2 DEF Copy
<1>12. CASE Deliver
  <2>1. ring' \in Ring
    BY <1>12 DEF Deliver, Ring
  <2>2. [i \in 1 .. len - n |-> Unset] \in Seq(Byte)
    <3>1. len - n \in Nat
      BY <1>0
    <3> QED
      BY <1>0, <3>1 DEF Unset
  <2>3. out' \in Seq(Byte)
    <3> DEFINE pad == [i \in 1 .. len - n |-> Unset]
    <3>1. out' = out \o buf \o pad /\ pad \in Seq(Byte)
      BY <1>12, <2>2 DEF Deliver
    <3> HIDE DEF pad
    <3> QED
      BY <3>1
  <2> QED
    BY <1>0, <1>12, <2>1, <2>3 DEF Deliver
<1>13. CASE UNCHANGED vars
  BY <1>13 DEF vars, main
<1> QED
  BY <1>2, <1>3, <1>4, <1>5, <1>6, <1>7, <1>8, <1>9, <1>10, <1>11, <1>12, <1>13 DEF Next, Main

(* The FIFO, the ring and what the main program holds keep their types, though
   the interrupt handler and the main program both write the ring, and
   whether or not it overflows. *)
THEOREM UartTypeCorrect == Spec => []TypeOK
<1>1. Typed => TypeOK
  BY DEF Typed
<1> QED
  BY <1>1, TypedInit, TypedStep, PTL DEF Spec

-----------------------------------------------------------------------------
(***************************************************************************)
(* Sequences without repetitions.                                          *)
(***************************************************************************)
Within(s, m)   == \A i \in DOMAIN s : s[i] \in 1 .. m
Once(s)        == \A i, j \in DOMAIN s : s[i] = s[j] => i = j
Disjoint(s, t) == \A i \in DOMAIN s, j \in DOMAIN t : s[i] # t[j]

(* What was given, the cells, the FIFO and the hand hold different bytes, of
   the first m that came. *)
NoRepeats(o, c, f, h, m) ==
  /\ Within(o, m) /\ Within(c, m) /\ Within(f, m) /\ Within(h, m)
  /\ Once(o) /\ Once(c) /\ Once(f)
  /\ Disjoint(o, c) /\ Disjoint(o, f) /\ Disjoint(o, h)
  /\ Disjoint(c, f) /\ Disjoint(c, h) /\ Disjoint(f, h)

(* Another byte comes; there may be room for it or not. *)
LEMMA ComesAnother ==
  ASSUME NEW o \in Seq(Int), NEW c \in Seq(Int), NEW f \in Seq(Int), NEW h \in Seq(Int), NEW m \in Nat,
         NoRepeats(o, c, f, h, m)
  PROVE  /\ NoRepeats(o, c, f, h, m + 1)
         /\ NoRepeats(o, c, Append(f, m + 1), h, m + 1)
<1> DEFINE g == Append(f, m + 1)
<1>1. ASSUME NEW s, Within(s, m) PROVE Within(s, m + 1)
  BY <1>1 DEF Within
<1>2. NoRepeats(o, c, f, h, m + 1)
  BY <1>1 DEF NoRepeats
<1> DEFINE e == Len(f) + 1
           x == m + 1
<1>3. /\ \A i \in DOMAIN g : \/ i \in DOMAIN f /\ g[i] = f[i]
                             \/ i = e /\ g[i] = x
      /\ e \notin DOMAIN f
  OBVIOUS
<1>9. x \in 1 .. x /\ x \notin 1 .. m
  OBVIOUS
<1> HIDE DEF g, e, x
<1>4. Within(g, x)
  <2>1. Within(f, x)
    BY <1>2 DEF NoRepeats, x
  <2> QED
    BY <1>3, <1>9, <2>1, Zenon DEF Within
<1>5. Once(g)
  <2> SUFFICES ASSUME NEW i \in DOMAIN g, NEW j \in DOMAIN g, g[i] = g[j] PROVE i = j
    BY DEF Once
  <2>1. (i \in DOMAIN f /\ g[i] = f[i]) \/ (i = e /\ g[i] = x)
    BY <1>3, Zenon
  <2>2. (j \in DOMAIN f /\ g[j] = f[j]) \/ (j = e /\ g[j] = x)
    BY <1>3, Zenon
  <2> QED
    BY <1>9, <2>1, <2>2, Zenon DEF NoRepeats, Within, Once
<1>6. ASSUME NEW s, Within(s, m), Disjoint(s, f) PROVE Disjoint(s, g)
  BY <1>3, <1>6, <1>9, Zenon DEF Within, Disjoint
<1>7. ASSUME NEW s, Within(s, m), Disjoint(f, s) PROVE Disjoint(g, s)
  BY <1>3, <1>7, <1>9, Zenon DEF Within, Disjoint
<1>8. NoRepeats(o, c, g, h, m + 1)
  BY <1>2, <1>4, <1>5, <1>6, <1>7 DEF NoRepeats, x
<1> QED
  BY <1>2, <1>8 DEF g, x

(* Fewer cells, the first of them. *)
LEMMA FirstCells ==
  ASSUME NEW o, NEW c \in Seq(Int), NEW f, NEW h, NEW m,
         NoRepeats(o, c, f, h, m),
         NEW u \in Seq(Int), Len(u) <= Len(c), \A i \in 1 .. Len(u) : u[i] = c[i]
  PROVE  NoRepeats(o, u, f, h, m)
<1> DEFINE y == Len(u)
           z == Len(c)
<1>1. DOMAIN u = 1 .. y /\ DOMAIN c = 1 .. z /\ y \in Nat /\ z \in Nat
  OBVIOUS
<1>2. y <= z /\ \A i \in 1 .. y : u[i] = c[i]
  OBVIOUS
<1> HIDE DEF y, z
<1>3. \A i \in 1 .. y : i \in 1 .. z
  BY ONLY <1>1, <1>2
<1>4. \A i \in DOMAIN u : i \in DOMAIN c /\ u[i] = c[i]
  BY <1>1, <1>2, <1>3, Zenon
<1>5. Within(u, m) /\ Once(u)
  BY <1>4, Zenon DEF NoRepeats, Within, Once
<1>6. Disjoint(o, u) /\ Disjoint(u, f) /\ Disjoint(u, h)
  BY <1>4, Zenon DEF NoRepeats, Disjoint
<1> QED
  BY <1>5, <1>6 DEF NoRepeats

(* Where the elements of a joined sequence come from. *)
LEMMA Joined ==
  ASSUME NEW s \in Seq(Int), NEW t \in Seq(Int)
  PROVE  /\ \A i \in DOMAIN (s \o t) :
              \/ i \in DOMAIN s /\ (s \o t)[i] = s[i]
              \/ i - Len(s) \in DOMAIN t /\ (s \o t)[i] = t[i - Len(s)]
         /\ \A i, j \in DOMAIN (s \o t) : i - Len(s) = j - Len(s) => i = j
OBVIOUS

(* The places of the first elements and of the others. *)
LEMMA Places ==
  ASSUME NEW c \in Seq(Int), NEW b \in Seq(Int), NEW d \in Seq(Int), Len(c) = Len(b) + Len(d)
  PROVE  /\ \A i \in DOMAIN b : i \in DOMAIN c /\ i \in 1 .. Len(b)
         /\ \A i \in DOMAIN d : Len(b) + i \in DOMAIN c /\ Len(b) + i \notin DOMAIN b /\ i \in 1 .. Len(d)
         /\ \A i, j \in DOMAIN d : Len(b) + i = Len(b) + j => i = j
<1> DEFINE y == Len(b)
           z == Len(d)
<1>1. /\ y \in Nat /\ z \in Nat
      /\ DOMAIN b = 1 .. y /\ DOMAIN d = 1 .. z /\ DOMAIN c = 1 .. y + z
  OBVIOUS
<1> HIDE DEF y, z
<1>0. y \in Nat /\ z \in Nat
  BY <1>1
<1>5. /\ \A i \in 1 .. y : i \in 1 .. y + z
      /\ \A i \in 1 .. z : y + i \in 1 .. y + z /\ y + i \notin 1 .. y
      /\ \A i, j \in 1 .. z : y + i = y + j => i = j
  BY ONLY <1>0
<1>2. \A i \in DOMAIN b : i \in DOMAIN c /\ i \in 1 .. y
  BY <1>1, <1>5, Zenon
<1>3. \A i \in DOMAIN d : y + i \in DOMAIN c /\ y + i \notin DOMAIN b /\ i \in 1 .. z
  BY <1>1, <1>5, Zenon
<1>4. \A i, j \in DOMAIN d : y + i = y + j => i = j
  BY <1>1, <1>5, Zenon
<1> QED
  BY <1>2, <1>3, <1>4, Zenon DEF y, z

(* All the FIFO is taken over into the cells. *)
LEMMA TakesOver ==
  ASSUME NEW o, NEW c \in Seq(Int), NEW f \in Seq(Int), NEW h, NEW m,
         NoRepeats(o, c, f, h, m)
  PROVE  NoRepeats(o, c \o f, <<>>, h, m)
<1> DEFINE d == c \o f
           w == Len(c)
<1>1. /\ \A i \in DOMAIN d : \/ i \in DOMAIN c /\ d[i] = c[i]
                             \/ i - w \in DOMAIN f /\ d[i] = f[i - w]
      /\ \A i, j \in DOMAIN d : i - w = j - w => i = j
  BY Joined
<1> HIDE DEF d, w
<1>2. Once(d)
  <2> SUFFICES ASSUME NEW i \in DOMAIN d, NEW j \in DOMAIN d, d[i] = d[j] PROVE i = j
    BY DEF Once
  <2>1. (i \in DOMAIN c /\ d[i] = c[i]) \/ (i - w \in DOMAIN f /\ d[i] = f[i - w])
    BY <1>1, Zenon
  <2>2. (j \in DOMAIN c /\ d[j] = c[j]) \/ (j - w \in DOMAIN f /\ d[j] = f[j - w])
    BY <1>1, Zenon
  <2> QED
    BY <1>1, <2>1, <2>2, Zenon DEF NoRepeats, Once, Disjoint
<1>3. Within(d, m) /\ Disjoint(o, d) /\ Disjoint(d, h)
  <2>1. /\ Within(c, m) /\ Within(f, m) /\ Disjoint(o, c) /\ Disjoint(o, f)
        /\ Disjoint(c, h) /\ Disjoint(f, h)
    BY DEF NoRepeats
  <2>2. \A i \in DOMAIN d : \/ i \in DOMAIN c /\ d[i] = c[i]
                            \/ i - w \in DOMAIN f /\ d[i] = f[i - w]
    BY <1>1
  <2>3. Within(d, m)
    BY <2>1, <2>2, Zenon DEF Within
  <2>4. Disjoint(o, d)
    BY <2>1, <2>2, Zenon DEF Disjoint
  <2>5. Disjoint(d, h)
    BY <2>1, <2>2, Zenon DEF Disjoint
  <2> QED
    BY <2>3, <2>4, <2>5
<1>4. NoRepeats(o, d, <<>>, h, m)
  BY <1>2, <1>3 DEF NoRepeats, Within, Once, Disjoint
<1> QED
  BY <1>4 DEF d

(* A byte goes from the FIFO into the hand. *)
LEMMA TakesOne ==
  ASSUME NEW o, NEW c, NEW f \in Seq(Int), f # <<>>, NEW m,
         NoRepeats(o, c, f, <<>>, m)
  PROVE  NoRepeats(o, c, Tail(f), <<Head(f)>>, m)
<1> DEFINE t == Tail(f)
           h == <<Head(f)>>
<1>1. /\ \A i \in DOMAIN t : i + 1 \in DOMAIN f /\ t[i] = f[i + 1] /\ i \in Nat /\ i # 0
      /\ \A i \in DOMAIN h : h[i] = f[1] /\ i = 1
      /\ 1 \in DOMAIN f
  OBVIOUS
<1> HIDE DEF t, h
<1>2. Within(t, m) /\ Within(h, m) /\ Disjoint(o, t) /\ Disjoint(c, t) /\ Disjoint(o, h) /\ Disjoint(c, h)
  BY <1>1 DEF NoRepeats, Within, Disjoint
<1>3. Once(t)
  BY <1>1 DEF NoRepeats, Once
<1>4. Disjoint(t, h)
  BY <1>1 DEF NoRepeats, Once, Disjoint
<1>5. NoRepeats(o, c, t, h, m)
  BY <1>2, <1>3, <1>4 DEF NoRepeats
<1> QED
  BY <1>5 DEF t, h

(* The byte in the hand is put behind the cells, *)
LEMMA PutsBehind ==
  ASSUME NEW o, NEW c \in Seq(Int), NEW f, NEW x \in Int, NEW m,
         NoRepeats(o, c, f, <<x>>, m)
  PROVE  NoRepeats(o, Append(c, x), f, <<>>, m)
<1> DEFINE d == Append(c, x)
<1>1. \A i \in DOMAIN d : \/ i \in DOMAIN c /\ d[i] = c[i] /\ i \in 1 .. Len(c)
                          \/ i = Len(c) + 1 /\ d[i] = x
  OBVIOUS
<1> HIDE DEF d
<1>2. 1 \in DOMAIN <<x>> /\ <<x>>[1] = x /\ DOMAIN <<>> = {}
  OBVIOUS
<1>3. Within(d, m) /\ Disjoint(o, d) /\ Disjoint(d, f)
  BY <1>1, <1>2 DEF NoRepeats, Within, Disjoint
<1>4. Once(d)
  BY <1>1, <1>2 DEF NoRepeats, Once, Disjoint
<1>5. NoRepeats(o, d, f, <<>>, m)
  BY <1>3, <1>4 DEF NoRepeats, Within, Disjoint
<1> QED
  BY <1>5 DEF d

(* or in the place of one of them. *)
LEMMA PutsOver ==
  ASSUME NEW o, NEW c \in Seq(Int), NEW f, NEW x \in Int, NEW m, NEW k,
         NEW d \in Seq(Int), Len(d) = Len(c),
         \A i \in 1 .. Len(c) : d[i] = IF i = k THEN x ELSE c[i],
         NoRepeats(o, c, f, <<x>>, m)
  PROVE  NoRepeats(o, d, f, <<>>, m)
<1>5. DOMAIN d = 1 .. Len(c) /\ DOMAIN c = 1 .. Len(c)
  OBVIOUS
<1>1. \A i \in DOMAIN d : i \in DOMAIN c /\ d[i] = IF i = k THEN x ELSE c[i]
  BY <1>5, Zenon
<1>2. 1 \in DOMAIN <<x>> /\ <<x>>[1] = x /\ DOMAIN <<>> = {}
  OBVIOUS
<1>3. Within(d, m) /\ Disjoint(o, d) /\ Disjoint(d, f)
  BY <1>1, <1>2 DEF NoRepeats, Within, Disjoint
<1>4. Once(d)
  BY <1>1, <1>2 DEF NoRepeats, Once, Disjoint
<1> QED
  BY <1>3, <1>4 DEF NoRepeats, Within, Disjoint

(* The first cells are given out. *)
LEMMA GivesOut ==
  ASSUME NEW o \in Seq(Int), NEW c \in Seq(Int), NEW f, NEW m, NEW b \in Seq(Int), NEW d \in Seq(Int),
         Len(c) = Len(b) + Len(d),
         \A i \in 1 .. Len(b) : b[i] = c[i],
         \A i \in 1 .. Len(d) : d[i] = c[Len(b) + i],
         NoRepeats(o, c, f, <<>>, m)
  PROVE  NoRepeats(o \o b, d, f, <<>>, m)
<1> DEFINE p == o \o b
           w == Len(o)
           z == Len(b)
<1>1. /\ \A i \in DOMAIN p : \/ i \in DOMAIN o /\ p[i] = o[i]
                             \/ i - w \in DOMAIN b /\ p[i] = b[i - w]
      /\ \A i, j \in DOMAIN p : i - w = j - w => i = j
  BY Joined
<1>2. /\ \A i \in DOMAIN b : i \in DOMAIN c /\ i \in 1 .. z
      /\ \A i \in DOMAIN d : z + i \in DOMAIN c /\ z + i \notin DOMAIN b /\ i \in 1 .. Len(d)
      /\ \A i, j \in DOMAIN d : z + i = z + j => i = j
  BY Places
<1>9. /\ \A i \in 1 .. z : b[i] = c[i]
      /\ \A i \in 1 .. Len(d) : d[i] = c[z + i]
  OBVIOUS
<1> HIDE DEF p, w, z
<1>3. /\ \A i \in DOMAIN p : \/ i \in DOMAIN o /\ p[i] = o[i]
                             \/ i - w \in DOMAIN b /\ i - w \in DOMAIN c /\ p[i] = c[i - w]
      /\ \A i \in DOMAIN d : d[i] = c[z + i]
  BY <1>1, <1>2, <1>9, Zenon
<1>0. /\ Within(o, m) /\ Within(c, m) /\ Once(o) /\ Once(c)
      /\ Disjoint(o, c) /\ Disjoint(o, f) /\ Disjoint(c, f)
  BY DEF NoRepeats
<1>4. Within(p, m) /\ Disjoint(p, f)
  <2> SUFFICES ASSUME NEW i \in DOMAIN p
               PROVE  p[i] \in 1 .. m /\ \A j \in DOMAIN f : p[i] # f[j]
    BY DEF Within, Disjoint
  <2>1. (i \in DOMAIN o /\ p[i] = o[i]) \/ (i - w \in DOMAIN c /\ p[i] = c[i - w])
    BY <1>3, Zenon
  <2>2. ASSUME i \in DOMAIN o, p[i] = o[i]
        PROVE  p[i] \in 1 .. m /\ \A j \in DOMAIN f : p[i] # f[j]
    BY <1>0, <2>2, Zenon DEF Within, Disjoint
  <2>3. ASSUME i - w \in DOMAIN c, p[i] = c[i - w]
        PROVE  p[i] \in 1 .. m /\ \A j \in DOMAIN f : p[i] # f[j]
    BY <1>0, <2>3, Zenon DEF Within, Disjoint
  <2> QED
    BY <2>1, <2>2, <2>3, Zenon
<1>10. Within(d, m) /\ Disjoint(d, f)
  <2> SUFFICES ASSUME NEW i \in DOMAIN d
               PROVE  d[i] \in 1 .. m /\ \A j \in DOMAIN f : d[i] # f[j]
    BY DEF Within, Disjoint
  <2>1. z + i \in DOMAIN c /\ d[i] = c[z + i]
    BY <1>2, <1>3, Zenon
  <2> QED
    BY <1>0, <2>1, Zenon DEF Within, Disjoint
<1>5. Once(p)
  <2> SUFFICES ASSUME NEW i \in DOMAIN p, NEW j \in DOMAIN p, p[i] = p[j] PROVE i = j
    BY DEF Once
  <2>1. (i \in DOMAIN o /\ p[i] = o[i]) \/ (i - w \in DOMAIN c /\ p[i] = c[i - w])
    BY <1>3, Zenon
  <2>2. (j \in DOMAIN o /\ p[j] = o[j]) \/ (j - w \in DOMAIN c /\ p[j] = c[j - w])
    BY <1>3, Zenon
  <2> QED
    BY <1>1, <1>0, <2>1, <2>2, Zenon DEF Once, Disjoint
<1>6. Once(d)
  <2> SUFFICES ASSUME NEW i \in DOMAIN d, NEW j \in DOMAIN d, d[i] = d[j] PROVE i = j
    BY DEF Once
  <2>1. z + i \in DOMAIN c /\ z + j \in DOMAIN c /\ c[z + i] = c[z + j]
    BY <1>2, <1>3, Zenon
  <2>2. z + i = z + j
    BY <1>0, <2>1, Zenon DEF Once
  <2> QED
    BY <1>2, <2>2, Zenon
<1>7. Disjoint(p, d)
  <2> SUFFICES ASSUME NEW i \in DOMAIN p, NEW j \in DOMAIN d, p[i] = d[j] PROVE FALSE
    BY DEF Disjoint
  <2>1. (i \in DOMAIN o /\ p[i] = o[i]) \/ (i - w \in DOMAIN b /\ i - w \in DOMAIN c /\ p[i] = c[i - w])
    BY <1>3, Zenon
  <2>2. z + j \in DOMAIN c /\ z + j \notin DOMAIN b /\ d[j] = c[z + j]
    BY <1>2, <1>3, Zenon
  <2>3. ~(i \in DOMAIN o /\ p[i] = o[i])
    BY <1>0, <2>2, Zenon DEF Disjoint
  <2>4. i - w \in DOMAIN b /\ i - w \in DOMAIN c /\ c[i - w] = c[z + j]
    BY <2>1, <2>2, <2>3, Zenon
  <2>5. i - w = z + j
    BY <1>0, <2>2, <2>4, Zenon DEF Once
  <2> QED
    BY <2>2, <2>4, <2>5, Zenon
<1>8. NoRepeats(p, d, f, <<>>, m)
  BY <1>4, <1>5, <1>6, <1>7, <1>10 DEF NoRepeats, Within, Disjoint
<1> QED
  BY <1>8 DEF p

-----------------------------------------------------------------------------
(* The cells that are or will be unread as far as they are written. *)
Reach == IF pc = "publish" /\ ring.w_ptr = at THEN RingLength(ring) + 1 ELSE RingLength(ring)
Cells == Peek(ring, Reach)
Hand  == IF pc \in {"write", "store"} THEN <<ch>> ELSE <<>>

(* No byte is in two places; the hand is at a cell between r_ptr and w_ptr,
   which is where a later ringbuffer_write sets w_ptr back to; a read has
   copied the first of the unread bytes. *)
UartInv ==
  /\ Typed
  /\ Underway < N
  /\ NoRepeats(out, Cells, fifo, Hand, came)
  /\ pc \in {"store", "publish"} =>
       \E k \in 0 .. RingLength(ring) : at = (ring.r_ptr + k) % N
  /\ pc \in {"read", "copy"} => len <= RingLength(ring)
  /\ pc = "copy" =>
       /\ n = len /\ at = (ring.r_ptr + Len(buf)) % N
       /\ \A i \in 1 .. Len(buf) : buf[i] = Unread(ring)[i]

-----------------------------------------------------------------------------
(***************************************************************************)
(* Facts about the state.                                                  *)
(***************************************************************************)
LEMMA PeekIsSeq ==
  ASSUME NEW q \in Ring, NEW m \in 0 .. N
  PROVE  /\ Peek(q, m) \in Seq(Byte)
         /\ Len(Peek(q, m)) = m
         /\ \A i \in 1 .. m : Peek(q, m)[i] = q.buf[(q.r_ptr + i - 1) % N]
<1>1. q.r_ptr \in Position /\ q.buf \in [Position -> Byte] /\ m \in Nat
  BY RingAssumption DEF Ring
<1>2. ASSUME NEW i \in 1 .. m PROVE q.buf[(q.r_ptr + i - 1) % N] \in Byte
  <2>1. q.r_ptr + i - 1 \in Int
    BY <1>1 DEF Position
  <2> QED
    BY <1>1, <2>1, PositionOf
<1> QED
  BY <1>1, <1>2 DEF Peek

LEMMA BytesAreNumbers ==
  /\ \A s \in Seq(Byte) : s \in Seq(Int)
  /\ \A s \in Seq(1 .. LastByte) : s \in Seq(Int) /\ s \in Seq(Byte)
  /\ \A x \in Byte : x \in Int
BY UartAssumption

(* What the steps below start from. *)
LEMMA UartFacts ==
  ASSUME UartInv
  PROVE  /\ ring \in Ring /\ ring.r_ptr \in Position /\ ring.w_ptr \in Position
         /\ RingLength(ring) \in 0 .. N - 1
         /\ ring.w_ptr = (ring.r_ptr + RingLength(ring)) % N
         /\ Reach \in RingLength(ring) .. N /\ Reach <= RingLength(ring) + 1
         /\ Cells \in Seq(Int) /\ Len(Cells) = Reach
         /\ Unread(ring) \in Seq(Int) /\ Len(Unread(ring)) = RingLength(ring)
         /\ \A i \in 1 .. Reach : Cells[i] = ring.buf[(ring.r_ptr + i - 1) % N]
         /\ \A i \in 1 .. RingLength(ring) : Unread(ring)[i] = ring.buf[(ring.r_ptr + i - 1) % N]
         /\ fifo \in Seq(Int) /\ fifo \in Seq(Byte) /\ Len(fifo) \in Nat
         /\ out \in Seq(Int) /\ Hand \in Seq(Int) /\ ch \in Int
         /\ Len(fifo) + RingLength(ring) < N
         /\ pc \in {"write", "store", "publish"} => Len(fifo) + RingLength(ring) + 1 < N
<1>1. Typed /\ ring \in Ring /\ fifo \in Seq(1 .. LastByte) /\ out \in Seq(Byte) /\ ch \in Byte
  BY DEF UartInv, Typed, TypeOK
<1> DEFINE L == RingLength(ring)
<1>2. L \in 0 .. N - 1 /\ ring.w_ptr = (ring.r_ptr + L) % N
  BY <1>1, LengthIsDistance
<1>3. ring.r_ptr \in Position /\ ring.w_ptr \in Position
  BY <1>1 DEF Ring
<1>4. Reach = L \/ Reach = L + 1
  BY DEF Reach
<1>5. Reach \in L .. N /\ Reach <= L + 1 /\ Reach \in 0 .. N
  <2> HIDE DEF L
  <2> QED
    BY <1>2, <1>4, RingAssumption
<1>6. /\ Cells \in Seq(Byte) /\ Len(Cells) = Reach
      /\ \A i \in 1 .. Reach : Cells[i] = ring.buf[(ring.r_ptr + i - 1) % N]
  BY <1>1, <1>5, PeekIsSeq DEF Cells
<1>7. /\ Unread(ring) \in Seq(Byte) /\ Len(Unread(ring)) = L
      /\ \A i \in 1 .. L : Unread(ring)[i] = ring.buf[(ring.r_ptr + i - 1) % N]
  BY <1>1, UnreadIsSeq
<1>8. ch \in Int /\ Hand \in Seq(Int)
  <2>1. ch \in Int
    BY <1>1, BytesAreNumbers
  <2>2. Hand = <<ch>> \/ Hand = <<>>
    BY DEF Hand
  <2>3. <<ch>> \in Seq(Int) /\ <<>> \in Seq(Int)
    BY <2>1
  <2> QED
    BY <2>1, <2>2, <2>3, Zenon
<1>9. /\ Len(fifo) \in Nat /\ Len(fifo) + L < N
      /\ pc \in {"write", "store", "publish"} => Len(fifo) + L + 1 < N
  <2> DEFINE k == Len(fifo)
  <2>1. k \in Nat
    BY <1>1
  <2>2. Underway < N
    BY DEF UartInv
  <2>3. k + L + (IF pc \in {"write", "store", "publish"} THEN 1 ELSE 0) < N
    BY <2>2 DEF Underway
  <2> HIDE DEF k, L
  <2>4. ASSUME pc \in {"write", "store", "publish"} PROVE k + L + 1 < N
    BY <2>3, <2>4
  <2>5. k + L < N
    BY <1>2, <2>1, <2>3, RingAssumption
  <2> QED
    BY <2>1, <2>4, <2>5 DEF k
<1>10. Cells \in Seq(Int) /\ Unread(ring) \in Seq(Int) /\ fifo \in Seq(Int) /\ fifo \in Seq(Byte) /\ out \in Seq(Int)
  BY <1>1, <1>6, <1>7, BytesAreNumbers
<1> QED
  BY <1>1, <1>2, <1>3, <1>5, <1>6, <1>7, <1>8, <1>9, <1>10

LEMMA UartStart == Init => UartInv
<1> SUFFICES ASSUME Init PROVE UartInv
  OBVIOUS
<1>1. Typed
  BY TypedInit
<1>2. ring.r_ptr = 0 /\ ring.w_ptr = 0
  BY DEF Init, EmptyRing
<1>3. RingLength(ring) = 0
  BY <1>2 DEF RingLength
<1>4. Reach = 0 /\ Hand = <<>>
  BY <1>3 DEF Init, Reach, Hand
<1>5. Cells = <<>>
  BY <1>4 DEF Cells, Peek
<1>6. NoRepeats(out, Cells, fifo, Hand, came)
  BY <1>4, <1>5 DEF Init, NoRepeats, Within, Once, Disjoint
<1>7. Underway < N
  BY <1>3, RingAssumption DEF Init, Underway
<1> QED
  BY <1>1, <1>6, <1>7 DEF Init, UartInv

-----------------------------------------------------------------------------
(***************************************************************************)
(* The steps.  One that leaves the ring, pc, ch and at alone leaves the    *)
(* cells, the hand and the place of the hand alone.                        *)
(***************************************************************************)
AtInv   == pc \in {"store", "publish"} =>
             \E k \in 0 .. RingLength(ring) : at = (ring.r_ptr + k) % N
ReadInv == /\ pc \in {"read", "copy"} => len <= RingLength(ring)
           /\ pc = "copy" => /\ n = len /\ at = (ring.r_ptr + Len(buf)) % N
                             /\ \A i \in 1 .. Len(buf) : buf[i] = Unread(ring)[i]

LEMMA UartParts ==
  UartInv <=> /\ Typed /\ Underway < N /\ NoRepeats(out, Cells, fifo, Hand, came)
              /\ AtInv /\ ReadInv
BY Zenon DEF UartInv, AtInv, ReadInv

LEMMA ByteComesKeeps == ASSUME UartInv, ByteComes, Paced, Typed' PROVE UartInv'
<1>1. /\ UNCHANGED <<ring, pc, ch, at, len, n, buf, out>>
      /\ came' = came + 1 /\ Underway < N - 1
      /\ fifo' = fifo \/ fifo' = Append(fifo, came + 1)
  BY DEF ByteComes, main
<1>2. AtInv' /\ ReadInv'
  <2>1. AtInv /\ ReadInv
    BY UartParts
  <2> QED
    BY <1>1, <2>1 DEF AtInv, ReadInv
<1>3. UNCHANGED <<Cells, Hand>>
  BY <1>1 DEF Cells, Reach, Hand
<1>4. NoRepeats(out, Cells, fifo, Hand, came)'
  <2>1. /\ came \in Nat /\ Hand \in Seq(Int) /\ Cells \in Seq(Int)
        /\ fifo \in Seq(Int) /\ out \in Seq(Int)
    BY UartFacts, UartAssumption DEF UartInv, Typed, TypeOK
  <2>2. NoRepeats(out, Cells, fifo, Hand, came)
    BY UartParts
  <2>3. /\ NoRepeats(out, Cells, fifo, Hand, came + 1)
        /\ NoRepeats(out, Cells, Append(fifo, came + 1), Hand, came + 1)
    BY <2>1, <2>2, ComesAnother
  <2> QED
    BY <1>1, <1>3, <2>3
<1>5. Underway' < N
  <2>1. fifo \in Seq(Int) /\ came + 1 \in Int /\ RingLength(ring) \in Int
    BY UartFacts, UartAssumption, RingAssumption DEF UartInv, Typed, TypeOK
  <2>2. Len(fifo') = Len(fifo) \/ Len(fifo') = Len(fifo) + 1
    BY <1>1, <2>1
  <2> DEFINE k == Len(fifo)
             h == IF pc \in {"write", "store", "publish"} THEN 1 ELSE 0
  <2>3. k \in Nat /\ h \in Nat
    BY <2>1
  <2>4. Underway = k + RingLength(ring) + h /\ Underway' = Len(fifo') + RingLength(ring) + h
    BY <1>1 DEF Underway
  <2> HIDE DEF k, h
  <2>5. Len(fifo') = k \/ Len(fifo') = k + 1
    BY <2>2 DEF k
  <2> QED
    BY <1>1, <2>1, <2>3, <2>4, <2>5, RingAssumption
<1> QED
  BY <1>2, <1>4, <1>5, Zenon DEF UartInv, AtInv, ReadInv

LEMMA IrqKeeps == ASSUME UartInv, Irq, Typed' PROVE UartInv'
<1> DEFINE L == RingLength(ring)
           F == Len(fifo)
           r == ring.r_ptr
<1>1. /\ UNCHANGED <<came, pc, ch, at, len, n, buf, out>>
      /\ ring' = Put(ring, fifo) /\ fifo' = <<>> /\ fifo # <<>>
  BY DEF Irq, main
<1>2. /\ ring \in Ring /\ fifo \in Seq(Byte) /\ L \in 0 .. N - 1 /\ F \in Nat /\ L + F < N /\ r \in Position
      /\ ring.w_ptr = (r + L) % N
  <2>1. L \in Int /\ F \in Int /\ F + L < N
    BY UartFacts, RingAssumption
  <2>2. L + F < N
    <3> HIDE DEF L, F
    <3> QED
      BY <2>1, RingAssumption
  <2> QED
    BY <2>2, UartFacts
<1>3. F > 0
  BY <1>1, <1>2
<1>4. /\ ring'.r_ptr = r /\ ring'.w_ptr = (ring.w_ptr + F) % N
      /\ RingLength(ring)' = L + F /\ Unread(ring)' = Unread(ring) \o fifo
  BY <1>1, <1>2, PutFields, PutAppends
<1>5. ring'.w_ptr = (r + (L + F)) % N
  <2>1. F \in 0 .. N /\ L \in 0 .. N /\ L + F <= N
    <3> HIDE DEF L, F
    <3> QED
      BY <1>2, RingAssumption
  <2>2. (((r + L) % N) + F) % N = (r + L + F) % N
    BY <1>2, <2>1, Advance
  <2>3. r + L + F = r + (L + F)
    BY <1>2, <2>1 DEF Position
  <2> QED
    BY <1>2, <1>4, <2>2, <2>3
<1>6. AtInv' /\ (pc = "publish" => ring'.w_ptr # at)
  <2> SUFFICES ASSUME pc \in {"store", "publish"}
               PROVE  (\E k \in 0 .. L + F : at = (r + k) % N) /\ ring'.w_ptr # at
    BY <1>1, <1>4 DEF AtInv
  <2>1. PICK k \in 0 .. L : at = (r + k) % N
    BY DEF UartInv
  <2>2. k \in 0 .. L + F /\ k \in 0 .. N - 1 /\ L + F \in 0 .. N - 1 /\ k # L + F
    <3> HIDE DEF L, F
    <3> QED
      BY <1>2, <1>3, RingAssumption
  <2>3. ring'.w_ptr # at
    <3> HIDE DEF L, F
    <3> QED
      BY <1>2, <1>5, <2>1, <2>2, Apart
  <2> QED
    BY <2>1, <2>2, <2>3
<1>7. Cells' = Unread(ring) \o fifo
  <2>1. Reach' = L + F
    BY <1>1, <1>4, <1>6 DEF Reach
  <2>2. Cells' = Unread(ring)'
    BY <1>4, <2>1 DEF Cells, Unread
  <2> QED
    BY <1>4, <2>2
<1>8. NoRepeats(out, Cells, fifo, Hand, came)'
  <2>1. NoRepeats(out, Cells, fifo, Hand, came)
    BY UartParts
  <2>2. /\ Cells \in Seq(Int) /\ Unread(ring) \in Seq(Int) /\ fifo \in Seq(Int)
        /\ Len(Unread(ring)) <= Len(Cells)
        /\ \A i \in 1 .. Len(Unread(ring)) : Unread(ring)[i] = Cells[i]
    <3>1. /\ Reach \in L .. N /\ Len(Cells) = Reach /\ Len(Unread(ring)) = L
          /\ \A i \in 1 .. Reach : Cells[i] = ring.buf[(ring.r_ptr + i - 1) % N]
          /\ \A i \in 1 .. L : Unread(ring)[i] = ring.buf[(ring.r_ptr + i - 1) % N]
      BY UartFacts
    <3>2. L <= Reach /\ \A i \in 1 .. L : i \in 1 .. Reach
      <4> HIDE DEF L
      <4> QED
        BY <1>2, <3>1, RingAssumption
    <3>3. \A i \in 1 .. L : Unread(ring)[i] = Cells[i]
      BY <3>1, <3>2, Zenon
    <3> QED
      BY <3>1, <3>2, <3>3, UartFacts
  <2>3. NoRepeats(out, Unread(ring), fifo, Hand, came)
    BY <2>1, <2>2, FirstCells
  <2>4. NoRepeats(out, Unread(ring) \o fifo, <<>>, Hand, came)
    BY <2>2, <2>3, TakesOver
  <2>5. Hand' = Hand
    BY <1>1 DEF Hand
  <2> QED
    BY <1>1, <1>7, <2>4, <2>5
<1>9. ReadInv'
  <2>1. ReadInv
    BY UartParts
  <2>2. L <= L + F
    <3> HIDE DEF L, F
    <3> QED
      BY <1>2, RingAssumption
  <2>3. ASSUME pc \in {"read", "copy"} PROVE len <= L + F
    <3>1. len <= L
      BY <2>1, <2>3 DEF ReadInv
    <3>2. len \in Nat
      BY RingAssumption DEF UartInv, Typed, TypeOK
    <3> HIDE DEF L, F
    <3> QED
      BY <1>2, <2>2, <3>1, <3>2, RingAssumption
  <2>4. ASSUME pc = "copy", NEW i \in 1 .. Len(buf) PROVE buf[i] = (Unread(ring) \o fifo)[i]
    <3>1. buf[i] = Unread(ring)[i]
      BY <2>1, <2>4 DEF ReadInv
    <3>2. i \in 1 .. L
      <4>1. len <= L
        BY <2>1, <2>4 DEF ReadInv
      <4>2. Len(buf) \in Nat /\ Len(buf) <= n /\ n \in 0 .. len /\ len \in Nat
        BY RingAssumption DEF UartInv, Typed, TypeOK
      <4> DEFINE b == Len(buf)
      <4> HIDE DEF L, b
      <4> QED
        BY <1>2, <2>4, <4>1, <4>2, RingAssumption DEF b
    <3>3. Unread(ring) \in Seq(Int) /\ Len(Unread(ring)) = L /\ fifo \in Seq(Int)
      BY UartFacts
    <3> HIDE DEF L
    <3>4. (Unread(ring) \o fifo)[i] = Unread(ring)[i]
      BY <3>2, <3>3
    <3> QED
      BY <3>1, <3>4
  <2>5. ASSUME pc = "copy" PROVE n = len /\ at = (r + Len(buf)) % N
    BY <2>1, <2>5 DEF ReadInv
  <2> QED
    BY <1>1, <1>4, <2>3, <2>4, <2>5 DEF ReadInv
<1>10. Underway' < N
  <2> DEFINE h == IF pc \in {"write", "store", "publish"} THEN 1 ELSE 0
  <2>1. Underway = F + L + h /\ Underway' = Len(fifo') + (L + F) + h
    BY <1>1, <1>4 DEF Underway
  <2>2. Len(fifo') = 0 /\ h \in Nat /\ Underway < N
    BY <1>1 DEF UartInv
  <2> HIDE DEF L, F, h
  <2> QED
    BY <1>2, <2>1, <2>2, RingAssumption
<1> QED
  BY <1>6, <1>8, <1>9, <1>10, Zenon DEF UartInv, AtInv, ReadInv

(* Steps that leave the ring and what the hand holds as they are. *)
LEMMA CellsStay ==
  ASSUME UartInv, UNCHANGED ring, pc # "publish", pc' # "publish"
  PROVE  UNCHANGED Cells
<1>1. Reach' = Reach
  BY DEF Reach
<1> QED
  BY <1>1 DEF Cells

LEMMA IsReadableKeeps == ASSUME UartInv, IsReadable, Typed' PROVE UartInv'
<1>1. /\ UNCHANGED <<came, fifo, ring, ch, at, n, buf, out>>
      /\ pc = "poll" /\ pc' \in {"getc", "read", "away"}
      /\ pc' = "read" => len' = RingLength(ring)
  BY DEF IsReadable
<1>2. UNCHANGED Cells
  BY <1>1, CellsStay
<1>3. Hand = <<>> /\ Hand' = <<>>
  BY <1>1 DEF Hand
<1>4. NoRepeats(out, Cells, fifo, Hand, came)'
  BY <1>1, <1>2, <1>3 DEF UartInv
<1>5. AtInv' /\ ReadInv'
  <2>1. RingLength(ring) \in Int
    BY UartFacts, RingAssumption
  <2> QED
    BY <1>1, <2>1 DEF AtInv, ReadInv
<1>6. Underway' < N
  <2>1. Underway' = Underway
    BY <1>1 DEF Underway
  <2> QED
    BY <2>1 DEF UartInv
<1> QED
  BY <1>4, <1>5, <1>6, Zenon DEF UartInv, AtInv, ReadInv

LEMMA CallAvailableKeeps == ASSUME UartInv, CallAvailable, Typed' PROVE UartInv'
<1>1. /\ UNCHANGED <<came, fifo, ring, ch, at, len, n, buf, out>>
      /\ pc = "away" /\ pc' = "poll"
  BY DEF CallAvailable
<1>2. UNCHANGED Cells
  BY <1>1, CellsStay
<1>3. Hand = <<>> /\ Hand' = <<>>
  BY <1>1 DEF Hand
<1>4. NoRepeats(out, Cells, fifo, Hand, came)'
  BY <1>1, <1>2, <1>3 DEF UartInv
<1>5. AtInv' /\ ReadInv'
  BY <1>1 DEF AtInv, ReadInv
<1>6. Underway' < N
  <2>1. Underway' = Underway
    BY <1>1 DEF Underway
  <2> QED
    BY <2>1 DEF UartInv
<1> QED
  BY <1>4, <1>5, <1>6, Zenon DEF UartInv, AtInv, ReadInv

LEMMA GetcKeeps == ASSUME UartInv, Getc, Typed' PROVE UartInv'
<1>1. /\ UNCHANGED <<came, ring, at, len, n, buf, out>>
      /\ pc = "getc" /\ pc' = "write" /\ fifo # <<>>
      /\ ch' = Head(fifo) /\ fifo' = Tail(fifo)
  BY DEF Getc
<1>2. UNCHANGED Cells
  BY <1>1, CellsStay
<1>3. Hand = <<>> /\ Hand' = <<Head(fifo)>>
  BY <1>1 DEF Hand
<1>4. NoRepeats(out, Cells, fifo, Hand, came)'
  <2>1. NoRepeats(out, Cells, fifo, <<>>, came)
    BY <1>3 DEF UartInv
  <2>2. fifo \in Seq(Int)
    BY UartFacts
  <2>3. NoRepeats(out, Cells, Tail(fifo), <<Head(fifo)>>, came)
    BY <1>1, <2>1, <2>2, TakesOne
  <2> QED
    BY <1>1, <1>2, <1>3, <2>3
<1>5. AtInv' /\ ReadInv'
  BY <1>1 DEF AtInv, ReadInv
<1>6. Underway' < N
  <2>1. fifo \in Seq(Int) /\ RingLength(ring) \in Int
    BY UartFacts, RingAssumption
  <2>2. Len(fifo) \in Nat /\ Len(fifo') = Len(fifo) - 1
    BY <1>1, <2>1
  <2>3. Underway = Len(fifo) + RingLength(ring) + 0 /\ Underway' = Len(fifo') + RingLength(ring) + 1
    BY <1>1 DEF Underway
  <2>4. Underway < N
    BY DEF UartInv
  <2> QED
    BY <2>1, <2>2, <2>3, <2>4, RingAssumption
<1> QED
  BY <1>4, <1>5, <1>6, Zenon DEF UartInv, AtInv, ReadInv

LEMMA WriteBeginKeeps == ASSUME UartInv, WriteBegin, Typed' PROVE UartInv'
<1>1. /\ UNCHANGED <<came, fifo, ring, ch, len, n, buf, out>>
      /\ pc = "write" /\ pc' = "store" /\ at' = ring.w_ptr
  BY DEF WriteBegin
<1>2. UNCHANGED Cells
  BY <1>1, CellsStay
<1>3. Hand' = Hand
  BY <1>1 DEF Hand
<1>4. NoRepeats(out, Cells, fifo, Hand, came)'
  BY <1>1, <1>2, <1>3 DEF UartInv
<1>5. AtInv' /\ ReadInv'
  <2>1. RingLength(ring) \in 0 .. RingLength(ring) /\ ring.w_ptr = (ring.r_ptr + RingLength(ring)) % N
    BY UartFacts, RingAssumption
  <2> QED
    BY <1>1, <2>1 DEF AtInv, ReadInv
<1>6. Underway' < N
  <2>1. Underway' = Underway
    BY <1>1 DEF Underway
  <2> QED
    BY <2>1 DEF UartInv
<1> QED
  BY <1>4, <1>5, <1>6, Zenon DEF UartInv, AtInv, ReadInv

(* The place of the hand is that of the cell behind the unread ones only if it
   is w_ptr. *)
LEMMA PlaceOfHand ==
  ASSUME UartInv, NEW k \in 0 .. RingLength(ring), at = (ring.r_ptr + k) % N
  PROVE  at = ring.w_ptr <=> k = RingLength(ring)
<1> DEFINE L == RingLength(ring)
<1>1. ring.r_ptr \in Position /\ L \in 0 .. N - 1 /\ ring.w_ptr = (ring.r_ptr + L) % N
  BY UartFacts
<1>2. k \in 0 .. N - 1
  <2> HIDE DEF L
  <2> QED
    BY <1>1, RingAssumption DEF L
<1> HIDE DEF L
<1> QED
  BY <1>1, <1>2, Apart DEF L

LEMMA StoreKeeps == ASSUME UartInv, Store, Typed' PROVE UartInv'
<1> DEFINE L == RingLength(ring)
           r == ring.r_ptr
<1>1. /\ UNCHANGED <<came, fifo, ch, at, len, n, buf, out>>
      /\ pc = "store" /\ pc' = "publish" /\ ring' = [ring EXCEPT !.buf[at] = ch]
  BY DEF Store
<1>2. PICK k \in 0 .. L : at = (r + k) % N
  BY <1>1 DEF UartInv
<1>3. /\ ring \in Ring /\ r \in Position /\ L \in 0 .. N - 1 /\ L + 1 < N /\ ch \in Int
      /\ ring' \in Ring
  <2>1. /\ ring \in Ring /\ r \in Position /\ L \in 0 .. N - 1 /\ Len(fifo) \in Nat
        /\ Len(fifo) + L + 1 < N /\ ch \in Int
    BY <1>1, UartFacts
  <2>2. L + 1 < N
    <3> DEFINE F == Len(fifo)
    <3>1. F \in Nat /\ F + L + 1 < N
      BY <2>1
    <3> HIDE DEF F, L
    <3> QED
      BY <2>1, <3>1, RingAssumption
  <2> QED
    BY <2>1, <2>2 DEF Typed, TypeOK
<1>4. /\ ring'.r_ptr = r /\ ring'.w_ptr = ring.w_ptr
      /\ \A p \in Position : ring'.buf[p] = IF p = at THEN ch ELSE ring.buf[p]
  BY <1>1, <1>3 DEF Ring
<1>5. RingLength(ring)' = L
  BY <1>4 DEF RingLength
<1>6. /\ Reach = L
      /\ Reach' = IF k = L THEN L + 1 ELSE L
  <2>1. at = ring.w_ptr <=> k = L
    BY <1>2, PlaceOfHand
  <2> QED
    BY <1>1, <1>4, <1>5, <2>1 DEF Reach
<1>7. \A i \in 1 .. L + 1 : ring'.buf[(r + i - 1) % N] = IF i = k + 1 THEN ch ELSE ring.buf[(r + i - 1) % N]
  <2> SUFFICES ASSUME NEW i \in 1 .. L + 1
               PROVE  ring'.buf[(r + i - 1) % N] = IF i = k + 1 THEN ch ELSE ring.buf[(r + i - 1) % N]
    OBVIOUS
  <2>1. i - 1 \in 0 .. N - 1 /\ k \in 0 .. N - 1 /\ r + i - 1 = r + (i - 1) /\ r + (i - 1) \in Int /\ i \in Int
    <3> HIDE DEF L, r
    <3> QED
      BY <1>2, <1>3, RingAssumption DEF Position
  <2>2. (r + i - 1) % N \in Position
    BY <2>1, PositionOf
  <2>3. (r + (i - 1)) % N = (r + k) % N <=> i - 1 = k
    BY <1>3, <2>1, Apart
  <2>4. (r + i - 1) % N = at <=> i - 1 = k
    BY <1>2, <2>1, <2>3
  <2>5. i - 1 = k <=> i = k + 1
    BY <2>1
  <2> QED
    BY <1>4, <2>2, <2>4, <2>5
<1>8. /\ Cells \in Seq(Int) /\ Len(Cells) = L
      /\ \A i \in 1 .. L : Cells[i] = ring.buf[(r + i - 1) % N]
  BY <1>6, UartFacts
<1>9. /\ Cells' \in Seq(Int) /\ Len(Cells') = Reach'
      /\ \A i \in 1 .. Reach' : Cells'[i] = ring'.buf[(r + i - 1) % N]
  <2>1. Reach' \in 0 .. N
    <3> HIDE DEF L
    <3> QED
      BY <1>3, <1>6, RingAssumption
  <2>2. Cells' = Peek(ring', Reach')
    BY DEF Cells
  <2>3. /\ Cells' \in Seq(Byte) /\ Len(Cells') = Reach'
        /\ \A i \in 1 .. Reach' : Cells'[i] = ring'.buf[(ring'.r_ptr + i - 1) % N]
    BY <1>3, <2>1, <2>2, PeekIsSeq
  <2> QED
    BY <1>4, <2>3, BytesAreNumbers
<1>10. NoRepeats(out, Cells, fifo, Hand, came)'
  <2>1. Hand = <<ch>> /\ Hand' = <<>>
    BY <1>1 DEF Hand
  <2>2. NoRepeats(out, Cells, fifo, <<ch>>, came)
    BY <2>1 DEF UartInv
  <2> DEFINE c == Cells
             d == Cells'
  <2>3. ASSUME k = L PROVE NoRepeats(out, d, fifo, <<>>, came)
    <3>1. Reach' = L + 1 /\ L \in Nat
      BY <1>3, <1>6, <2>3, RingAssumption
    <3>2. d \in Seq(Int) /\ Len(d) = L + 1 /\ c \in Seq(Int) /\ Len(c) = L
      BY <1>8, <1>9, <3>1
    <3>3. ASSUME NEW i \in 1 .. L + 1 PROVE d[i] = Append(c, ch)[i]
      <4>1. d[i] = IF i = L + 1 THEN ch ELSE ring.buf[(r + i - 1) % N]
        BY <1>7, <1>9, <2>3, <3>1
      <4>2. ASSUME i # L + 1 PROVE c[i] = ring.buf[(r + i - 1) % N] /\ i \in 1 .. L
        <5>1. i \in 1 .. L
          <6> HIDE DEF L
          <6> QED
            BY <3>1, <4>2
        <5> QED
          BY <1>8, <5>1
      <4> HIDE DEF c, d, L
      <4> QED
        BY <1>3, <3>1, <3>2, <4>1, <4>2
    <3> HIDE DEF c, d, L
    <3>4. Append(c, ch) \in Seq(Int) /\ Len(Append(c, ch)) = L + 1
      BY <1>3, <3>2
    <3>5. d = Append(c, ch)
      BY <3>2, <3>3, <3>4
    <3>6. NoRepeats(out, Append(c, ch), fifo, <<>>, came)
      BY <1>3, <2>2, <3>2, PutsBehind DEF c
    <3> QED
      BY <3>5, <3>6
  <2>4. ASSUME k # L PROVE NoRepeats(out, d, fifo, <<>>, came)
    <3>1. Reach' = L /\ L \in Nat
      BY <1>3, <1>6, <2>4, RingAssumption
    <3>2. d \in Seq(Int) /\ Len(d) = Len(c) /\ c \in Seq(Int) /\ Len(c) = L
      BY <1>8, <1>9, <3>1
    <3>3. \A i \in 1 .. L : i \in 1 .. L + 1
      <4> HIDE DEF L
      <4> QED
        BY <3>1
    <3>4. \A i \in 1 .. L : d[i] = IF i = k + 1 THEN ch ELSE c[i]
      BY <1>7, <1>8, <1>9, <3>1, <3>3, Zenon
    <3> HIDE DEF c, d, L
    <3> QED
      BY <1>3, <2>2, <3>2, <3>4, PutsOver DEF c
  <2>5. NoRepeats(out, d, fifo, <<>>, came)
    BY <2>3, <2>4
  <2> QED
    BY <1>1, <2>1, <2>5
<1>11. AtInv' /\ ReadInv'
  BY <1>1, <1>2, <1>4, <1>5 DEF AtInv, ReadInv
<1>12. Underway' < N
  <2>1. Underway' = Underway
    BY <1>1, <1>5 DEF Underway
  <2> QED
    BY <2>1 DEF UartInv
<1> QED
  BY <1>10, <1>11, <1>12, Zenon DEF UartInv, AtInv, ReadInv

LEMMA PublishKeeps == ASSUME UartInv, Publish, Typed' PROVE UartInv'
<1> DEFINE L == RingLength(ring)
           r == ring.r_ptr
<1>1. /\ UNCHANGED <<came, fifo, len, n, buf, out>>
      /\ pc = "publish" /\ pc' = "poll" /\ ring' = [ring EXCEPT !.w_ptr = (at + 1) % N]
  BY DEF Publish
<1>2. PICK k \in 0 .. L : at = (r + k) % N
  BY <1>1 DEF UartInv
<1>3. /\ ring \in Ring /\ r \in Position /\ L \in 0 .. N - 1 /\ Len(fifo) \in Nat /\ Len(fifo) + L + 1 < N
      /\ ring' \in Ring
  BY <1>1, UartFacts DEF Typed, TypeOK
<1>4. k + 1 \in 0 .. N - 1 /\ k + 1 <= L + 1 /\ k \in 0 .. N /\ 1 \in 0 .. N /\ k + 1 <= N /\ k \in Int
  <2> DEFINE F == Len(fifo)
  <2>1. F \in Nat /\ F + L + 1 < N
    BY <1>3
  <2> HIDE DEF F, L
  <2> QED
    BY <1>2, <1>3, <2>1, RingAssumption
<1>5. /\ ring'.r_ptr = r /\ ring'.buf = ring.buf
      /\ ring'.w_ptr = (r + (k + 1)) % N
  <2>1. ring'.r_ptr = r /\ ring'.buf = ring.buf /\ ring'.w_ptr = (at + 1) % N
    BY <1>1, <1>3 DEF Ring
  <2>2. (((r + k) % N) + 1) % N = (r + k + 1) % N
    BY <1>3, <1>4, Advance
  <2>3. r + k + 1 = r + (k + 1)
    BY <1>3, <1>4 DEF Position
  <2> QED
    BY <1>2, <2>1, <2>2, <2>3
<1>6. RingLength(ring)' = k + 1
  BY <1>3, <1>4, <1>5, DistanceIsLength
<1>7. Reach' = k + 1
  BY <1>1, <1>6 DEF Reach
<1>8. k + 1 <= Reach
  <2>1. at = ring.w_ptr <=> k = L
    BY <1>2, PlaceOfHand
  <2>2. Reach = IF k = L THEN L + 1 ELSE L
    BY <1>1, <2>1 DEF Reach
  <2> HIDE DEF L
  <2> QED
    BY <1>2, <1>3, <2>2, RingAssumption
<1>9. NoRepeats(out, Cells, fifo, Hand, came)'
  <2>1. Hand = <<>> /\ Hand' = <<>>
    BY <1>1 DEF Hand
  <2>2. NoRepeats(out, Cells, fifo, <<>>, came)
    BY <2>1 DEF UartInv
  <2> DEFINE d == Cells'
             c == Cells
  <2>3. d \in Seq(Byte) /\ Len(d) = k + 1
        /\ \A i \in 1 .. k + 1 : d[i] = ring'.buf[(ring'.r_ptr + i - 1) % N]
    <3>1. d = Peek(ring', k + 1) /\ k + 1 \in 0 .. N
      BY <1>4, <1>7, RingAssumption DEF Cells
    <3> HIDE DEF d
    <3> QED
      BY <1>3, <3>1, PeekIsSeq
  <2>4. /\ c \in Seq(Int) /\ Len(c) = Reach /\ Reach \in Int
        /\ \A i \in 1 .. Reach : c[i] = ring.buf[(r + i - 1) % N]
    BY UartFacts, RingAssumption
  <2>5. \A i \in 1 .. k + 1 : i \in 1 .. Reach
    BY <1>4, <1>8, <2>4
  <2> HIDE DEF c, d
  <2>6. \A i \in 1 .. k + 1 : d[i] = c[i]
    BY <1>5, <2>3, <2>4, <2>5, Zenon
  <2>7. d \in Seq(Int)
    BY <2>3, BytesAreNumbers
  <2>8. NoRepeats(out, d, fifo, <<>>, came)
    <3>1. NoRepeats(out, c, fifo, <<>>, came)
      BY <2>2 DEF c
    <3>2. Len(d) <= Len(c) /\ \A i \in 1 .. Len(d) : d[i] = c[i]
      BY <1>8, <2>3, <2>4, <2>6
    <3> QED
      BY <2>4, <2>7, <3>1, <3>2, FirstCells
  <2> QED
    BY <1>1, <2>1, <2>8 DEF d
<1>10. AtInv' /\ ReadInv'
  BY <1>1 DEF AtInv, ReadInv
<1>11. Underway' < N
  <2>1. Underway' = Len(fifo) + (k + 1) + 0
    BY <1>1, <1>6 DEF Underway
  <2> DEFINE F == Len(fifo)
  <2>2. F \in Nat /\ F + L + 1 < N /\ Underway' = F + (k + 1) + 0
    BY <1>3, <2>1
  <2> HIDE DEF F, L
  <2> QED
    BY <1>3, <1>4, <2>2, RingAssumption
<1> QED
  BY <1>9, <1>10, <1>11, Zenon DEF UartInv, AtInv, ReadInv

LEMMA ReadBeginKeeps == ASSUME UartInv, ReadBegin, Typed' PROVE UartInv'
<1>1. /\ UNCHANGED <<came, fifo, ring, ch, len, buf, out>>
      /\ pc = "read" /\ pc' = "copy" /\ at' = ring.r_ptr
      /\ n' = IF RingLength(ring) > len THEN len ELSE RingLength(ring)
  BY DEF ReadBegin
<1>2. UNCHANGED Cells
  BY <1>1, CellsStay
<1>3. Hand = <<>> /\ Hand' = <<>>
  BY <1>1 DEF Hand
<1>4. NoRepeats(out, Cells, fifo, Hand, came)'
  BY <1>1, <1>2, <1>3 DEF UartInv
<1>5. AtInv'
  BY <1>1 DEF AtInv
<1>6. ReadInv'
  <2>1. RingLength(ring) \in 0 .. N - 1 /\ ring.r_ptr \in Position
    BY UartFacts
  <2>2. len <= RingLength(ring) /\ len \in Nat /\ buf = <<>>
    BY <1>1, RingAssumption DEF UartInv, Typed, TypeOK
  <2>3. n' = len
    BY <1>1, <2>1, <2>2, RingAssumption
  <2>4. Len(buf) = 0
    BY <2>2
  <2>5. ring.r_ptr + Len(buf) = ring.r_ptr
    BY <2>1, <2>4 DEF Position
  <2>6. ring.r_ptr % N = ring.r_ptr
    BY <2>1, Wrap, RingAssumption DEF Position
  <2>7. at' = (ring.r_ptr + Len(buf)) % N
    BY <1>1, <2>5, <2>6
  <2>8. \A i \in 1 .. Len(buf) : buf[i] = Unread(ring)[i]
    BY <2>4
  <2> QED
    BY <1>1, <2>2, <2>3, <2>7, <2>8, Zenon DEF ReadInv
<1>7. Underway' < N
  <2>1. Underway' = Underway
    BY <1>1 DEF Underway
  <2> QED
    BY <2>1 DEF UartInv
<1> QED
  BY <1>4, <1>5, <1>6, <1>7, Zenon DEF UartInv, AtInv, ReadInv

LEMMA CopyKeeps == ASSUME UartInv, Copy, Typed' PROVE UartInv'
<1> DEFINE L == RingLength(ring)
           r == ring.r_ptr
           b == Len(buf)
<1>1. /\ UNCHANGED <<came, fifo, ring, pc, ch, len, n, out>>
      /\ pc = "copy" /\ b < n
      /\ buf' = Append(buf, ring.buf[at]) /\ at' = (at + 1) % N
  BY DEF Copy
<1>2. UNCHANGED Cells
  BY <1>1, CellsStay
<1>3. Hand = <<>> /\ Hand' = <<>>
  BY <1>1 DEF Hand
<1>4. NoRepeats(out, Cells, fifo, Hand, came)'
  BY <1>1, <1>2, <1>3 DEF UartInv
<1>5. AtInv'
  BY <1>1 DEF AtInv
<1>6. ReadInv'
  <2>1. /\ L \in 0 .. N - 1 /\ r \in Position
        /\ \A i \in 1 .. L : Unread(ring)[i] = ring.buf[(r + i - 1) % N]
    BY UartFacts
  <2>2. /\ b \in Nat /\ n \in Nat /\ len <= L /\ n = len /\ at = (r + b) % N
        /\ \A i \in 1 .. b : buf[i] = Unread(ring)[i]
        /\ buf \in Seq(Byte) /\ ring.buf[at] \in Byte
    <3>1. /\ buf \in Seq(Byte) /\ at \in Position /\ ring \in Ring /\ len \in 0 .. N - 1 /\ n \in 0 .. len
      BY DEF UartInv, Typed, TypeOK
    <3>2. b \in Nat /\ n \in Nat
      BY <3>1, RingAssumption
    <3>3. ring.buf[at] \in Byte
      BY <3>1 DEF Ring
    <3> QED
      BY <1>1, <3>1, <3>2, <3>3 DEF UartInv
  <2>3. b + 1 \in 1 .. L /\ b + 1 \in 0 .. N /\ 1 \in 0 .. N /\ b \in 0 .. N /\ b + 1 <= N
        /\ r + (b + 1) - 1 = r + b /\ r + b + 1 = r + (b + 1)
    <3>1. b < n /\ b \in Nat /\ n \in Nat /\ n <= L /\ L \in 0 .. N - 1 /\ r \in 0 .. N - 1
      BY <1>1, <2>1, <2>2 DEF Position
    <3> HIDE DEF b, L, r
    <3> QED
      BY <3>1, RingAssumption
  <2>4. Unread(ring)[b + 1] = ring.buf[at]
    BY <2>1, <2>2, <2>3
  <2>5. at' = (r + (b + 1)) % N
    <3>1. (((r + b) % N) + 1) % N = (r + b + 1) % N
      BY <2>1, <2>3, Advance
    <3> QED
      BY <1>1, <2>2, <2>3, <3>1
  <2> DEFINE x == ring.buf[at]
  <2>6. Len(buf') = b + 1 /\ \A i \in 1 .. b + 1 : (i = b + 1 /\ buf'[i] = x) \/ (i \in 1 .. b /\ buf'[i] = buf[i])
    <3>1. x \in Byte /\ buf' = Append(buf, x) /\ buf \in Seq(Byte)
      BY <1>1, <2>2
    <3> HIDE DEF x
    <3> QED
      BY <3>1
  <2>7. \A i \in 1 .. b + 1 : buf'[i] = Unread(ring)[i]
    BY <2>2, <2>4, <2>6, Zenon
  <2> QED
    BY <1>1, <2>2, <2>5, <2>6, <2>7 DEF ReadInv
<1>7. Underway' < N
  <2>1. Underway' = Underway
    BY <1>1 DEF Underway
  <2> QED
    BY <2>1 DEF UartInv
<1> QED
  BY <1>4, <1>5, <1>6, <1>7, Zenon DEF UartInv, AtInv, ReadInv

LEMMA DeliverKeeps == ASSUME UartInv, Deliver, Typed' PROVE UartInv'
<1> DEFINE L == RingLength(ring)
           r == ring.r_ptr
<1>1. /\ UNCHANGED <<came, fifo, ch>>
      /\ pc = "copy" /\ pc' = "away" /\ Len(buf) = n
      /\ ring' = [ring EXCEPT !.r_ptr = at]
      /\ out' = out \o buf \o [i \in 1 .. len - n |-> Unset]
  BY DEF Deliver
<1>2. /\ n = len /\ n \in 0 .. L /\ at = (r + n) % N
      /\ \A i \in 1 .. n : buf[i] = Unread(ring)[i]
      /\ buf \in Seq(Int) /\ out \in Seq(Int)
  <2>1. /\ n = len /\ len <= L /\ at = (r + n) % N
        /\ \A i \in 1 .. n : buf[i] = Unread(ring)[i]
    BY <1>1 DEF UartInv
  <2>2. L \in 0 .. N - 1 /\ len \in 0 .. N - 1 /\ out \in Seq(Int)
    BY UartFacts DEF UartInv, Typed, TypeOK
  <2>3. buf \in Seq(Int)
    <3>1. buf \in Seq(Byte)
      BY DEF UartInv, Typed, TypeOK
    <3> QED
      BY <3>1, BytesAreNumbers
  <2>4. n \in 0 .. L
    <3> HIDE DEF L
    <3> QED
      BY <2>1, <2>2, RingAssumption
  <2> QED
    BY <2>1, <2>2, <2>3, <2>4
<1>3. out' = out \o buf
  <2> DEFINE pad == [i \in 1 .. len - n |-> Unset]
             o == out \o buf
  <2>1. len - n = 0
    <3>1. len \in Nat
      BY RingAssumption DEF UartInv, Typed, TypeOK
    <3> QED
      BY <1>2, <3>1
  <2>2. pad = <<>>
    BY <2>1
  <2>3. o \in Seq(Int)
    BY <1>2
  <2>4. out' = o \o pad
    BY <1>1
  <2> HIDE DEF o, pad
  <2>5. out' = o
    BY <2>2, <2>3, <2>4
  <2> QED
    BY <2>5 DEF o
<1>4. /\ RingLength(ring)' = L - n
      /\ Unread(ring)' = SubSeq(Unread(ring), n + 1, L)
  <2>1. ring \in Ring
    BY UartFacts
  <2>2. ring' = Skip(ring, n)
    BY <1>1, <1>2 DEF Skip
  <2> QED
    BY <1>2, <2>1, <2>2, SkipDrops
<1>5. NoRepeats(out, Cells, fifo, Hand, came)'
  <2>1. Hand = <<>> /\ Hand' = <<>>
    BY <1>1 DEF Hand
  <2>2. Cells = Unread(ring) /\ Cells' = Unread(ring)'
    BY <1>1 DEF Cells, Reach, Unread
  <2> DEFINE c == Unread(ring)
             d == SubSeq(c, n + 1, L)
  <2>3. NoRepeats(out, c, fifo, <<>>, came)
    BY <2>1, <2>2 DEF UartInv
  <2>4. c \in Seq(Int) /\ Len(c) = L /\ L \in Nat
    BY UartFacts, RingAssumption
  <2>5. /\ d \in Seq(Int) /\ Len(d) = L - n
        /\ \A i \in 1 .. L - n : d[i] = c[n + i]
    <3> HIDE DEF c, L
    <3> QED
      BY <1>2, <2>4
  <2> HIDE DEF c, d
  <2>6. Len(c) = Len(buf) + Len(d)
    <3> HIDE DEF L
    <3> QED
      BY <1>1, <1>2, <2>4, <2>5
  <2>7. /\ \A i \in 1 .. Len(buf) : buf[i] = c[i]
        /\ \A i \in 1 .. Len(d) : d[i] = c[Len(buf) + i]
    BY <1>1, <1>2, <2>5 DEF c
  <2>8. NoRepeats(out \o buf, d, fifo, <<>>, came)
    BY <1>2, <2>3, <2>4, <2>5, <2>6, <2>7, GivesOut
  <2> QED
    BY <1>1, <1>3, <1>4, <2>1, <2>2, <2>8 DEF c, d
<1>6. AtInv' /\ ReadInv'
  BY <1>1 DEF AtInv, ReadInv
<1>7. Underway' < N
  <2>1. Underway = Len(fifo) + L + 0 /\ Underway' = Len(fifo) + (L - n) + 0
    BY <1>1, <1>4 DEF Underway
  <2>2. Underway < N /\ Len(fifo) \in Nat /\ L \in Nat
    BY UartFacts, RingAssumption DEF UartInv
  <2> HIDE DEF L
  <2> QED
    BY <1>2, <2>1, <2>2, RingAssumption
<1> QED
  BY <1>5, <1>6, <1>7, Zenon DEF UartInv, AtInv, ReadInv

LEMMA UartStep == ASSUME Paced PROVE UartInv /\ [Next]_vars => UartInv'
<1> SUFFICES ASSUME UartInv, [Next]_vars PROVE UartInv'
  OBVIOUS
<1>1. Typed'
  <2>1. Typed
    BY DEF UartInv
  <2> QED
    BY <2>1, TypedStep
<1>2. CASE ByteComes
  BY <1>1, <1>2, ByteComesKeeps
<1>3. CASE Irq
  BY <1>1, <1>3, IrqKeeps
<1>4. CASE CallAvailable
  BY <1>1, <1>4, CallAvailableKeeps
<1>5. CASE IsReadable
  BY <1>1, <1>5, IsReadableKeeps
<1>6. CASE Getc
  BY <1>1, <1>6, GetcKeeps
<1>7. CASE WriteBegin
  BY <1>1, <1>7, WriteBeginKeeps
<1>8. CASE Store
  BY <1>1, <1>8, StoreKeeps
<1>9. CASE Publish
  BY <1>1, <1>9, PublishKeeps
<1>10. CASE ReadBegin
  BY <1>1, <1>10, ReadBeginKeeps
<1>11. CASE Copy
  BY <1>1, <1>11, CopyKeeps
<1>12. CASE Deliver
  BY <1>1, <1>12, DeliverKeeps
<1>13. CASE UNCHANGED vars
  <2>1. UNCHANGED <<came, fifo, ring, pc, ch, at, len, n, buf, out>>
    BY <1>13 DEF vars
  <2>2. UNCHANGED <<Reach, Hand, Underway, Unread(ring), RingLength(ring)>>
    BY <2>1 DEF Reach, Hand, Underway
  <2>3. UNCHANGED Cells
    BY <2>1, <2>2 DEF Cells
  <2> QED
    BY <1>1, <2>1, <2>2, <2>3 DEF UartInv
<1> QED
  BY <1>2, <1>3, <1>4, <1>5, <1>6, <1>7, <1>8, <1>9, <1>10, <1>11, <1>12, <1>13 DEF Next, Main

LEMMA OnceGiven == UartInv => AtMostOnce
<1> SUFFICES ASSUME UartInv, NEW i \in 1 .. Len(out)
             PROVE  out[i] # Unset /\ \A j \in 1 .. i - 1 : out[i] # out[j]
  BY DEF AtMostOnce
<1>1. Within(out, came) /\ Once(out)
  BY DEF UartInv, NoRepeats
<1>2. DOMAIN out = 1 .. Len(out) /\ Len(out) \in Nat
  BY UartFacts
<1>3. out[i] \in 1 .. came /\ came \in Nat
  <2>1. came \in Nat
    BY UartAssumption DEF UartInv, Typed, TypeOK
  <2> QED
    BY <1>1, <1>2, <2>1 DEF Within
<1>4. \A j \in 1 .. i - 1 : j \in DOMAIN out /\ i \in DOMAIN out /\ j # i
  BY <1>2
<1>5. \A j \in 1 .. i - 1 : out[i] # out[j]
  BY <1>1, <1>4, Zenon DEF Once
<1> QED
  BY <1>3, <1>5 DEF Unset

(* Whatever the interrupt handler and km_uart_available do to the ring between
   each other's steps, the read callback is given only bytes that came, and none
   of them twice: the one position the two may disagree on is never behind
   r_ptr, so a write can lose bytes but not bring a cell out again. *)
THEOREM UartAtMostOnce == ASSUME Paced PROVE Spec => []AtMostOnce
<1>1. Init => UartInv
  BY UartStart
<1>2. UartInv /\ [Next]_vars => UartInv'
  BY UartStep
<1>3. UartInv => AtMostOnce
  BY OnceGiven
<1> QED
  BY <1>1, <1>2, <1>3, PTL DEF Spec
=============================================================================
