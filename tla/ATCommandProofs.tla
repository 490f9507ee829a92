--------------------------- MODULE ATCommandProofs ---------------------------
(***************************************************************************)
(* Theorems about ATCommand: its types, the order of its commands and how  *)
(* far answers may be behind, for any number of jobs and lines and every   *)
(* time after which a job gives up.                                        *)
(***************************************************************************)
EXTENDS ATCommand, FiniteSetTheorems, SequenceTheorems, WellFoundedInduction, TLAPS

(* The lines that process() has not looked at, in the order it will, and the
   one the modem has announced. *)
Incoming == (buffer \o half) \o payload

(* How many of the first n jobs that completed were given up. *)
GivenUp(d, n) == Cardinality({k \in 1 .. n : d[k].result # "line"})

(* The earliest job whose answer may still come. *)
Earliest == Len(done) + 1 - GivenUp(done, Len(done))

(* A payload comes right after its header, answers come in the order of
   their jobs and lines of the modem's own in the order they were sent. *)
InOrder(w) ==
  /\ \A i \in 1 .. Len(w) :
       /\ w[i].kind = "header" => i < Len(w) /\ w[i + 1].kind = "payload"
       /\ w[i].kind = "payload" => 1 < i /\ w[i - 1].kind = "header"
  /\ \A i, j \in 1 .. Len(w) : i < j =>
       /\ w[i].kind = "answer" /\ w[j].kind = "answer" => w[i].of < w[j].of
       /\ HasHandler(w[i]) /\ HasHandler(w[j]) => w[i].of < w[j].of

(* Answers on their way belong to commands that were written and lie before
   those the modem still owes; its own lines come after those handled. *)
IsExpected(l) ==
  /\ l.kind = "answer" =>
       /\ Earliest <= l.of /\ l.of <= Len(wrote)
       /\ \A j \in 1 .. Len(pending) : l.of < pending[j]
  /\ HasHandler(l) =>
       /\ l.of <= came
       /\ \A j \in 1 .. Len(handled) : handled[j].of < l.of

Expected(w) == \A i \in 1 .. Len(w) : IsExpected(w[i])

Owed ==
  /\ \A i \in 1 .. Len(pending) : Earliest <= pending[i] /\ pending[i] <= Len(wrote)
  /\ \A i, j \in 1 .. Len(pending) : i < j => pending[i] < pending[j]

HandledKnown == \A i \in 1 .. Len(handled) : HasHandler(handled[i]) /\ handled[i].of <= came

Announced == payload # <<>> => payload[1].kind = "payload"


-----------------------------------------------------------------------------
(* Sequences. *)

(* A line of the kinds with a number has one. *)
LEMMA LineNumber ==
  ASSUME NEW l \in Line
  PROVE  /\ l.kind = "answer" => l.of \in Job /\ ~HasHandler(l)
         /\ HasHandler(l) => l.of \in Own
         /\ l.kind = "payload" => ~HasHandler(l)
         /\ HasHandler(l) <=> l.kind \in {"note", "header"}
BY DEF Line, HasHandler

LEMMA AppendFacts ==
  ASSUME NEW S, NEW s \in Seq(S), NEW e \in S
  PROVE  /\ Append(s, e) \in Seq(S) /\ Len(s) \in Nat /\ Len(Append(s, e)) = Len(s) + 1
         /\ \A i \in 1 .. Len(s) : Append(s, e)[i] = s[i]
         /\ Append(s, e)[Len(s) + 1] = e
         /\ s \o <<e>> = Append(s, e) /\ s \o <<>> = s
         /\ DOMAIN s = 1 .. Len(s) /\ DOMAIN Append(s, e) = 1 .. Len(s) + 1
BY AppendProperties, AppendIsConcat, ConcatEmptySeq, LenProperties

(* A sequence without its first k elements. *)
LEMMA CutFacts ==
  ASSUME NEW S, NEW s \in Seq(S), NEW k \in 0 .. Len(s)
  PROVE  LET c == SubSeq(s, k + 1, Len(s)) IN
         /\ c \in Seq(S) /\ Len(s) \in Nat /\ Len(c) = Len(s) - k
         /\ \A i \in 1 .. Len(s) - k : c[i] = s[i + k]
         /\ \A i \in 1 .. Len(s) : s[i] \in S
<1> DEFINE c == SubSeq(s, k + 1, Len(s))
<1>1. Len(s) \in Nat /\ \A i \in 1 .. Len(s) : s[i] \in S
  BY LenProperties, ElementOfSeq
<1>2. k + 1 \in Int /\ Len(s) \in Int /\ \A i \in k + 1 .. Len(s) : s[i] \in S
  BY <1>1
<1>3. /\ c \in Seq(S) /\ Len(c) = IF k + 1 <= Len(s) THEN Len(s) - (k + 1) + 1 ELSE 0
      /\ \A i \in 1 .. Len(s) - (k + 1) + 1 : c[i] = s[k + 1 + i - 1]
  BY <1>2, SubSeqProperties
<1>4. Len(c) = Len(s) - k
  BY <1>1, <1>3
<1>5. \A i \in 1 .. Len(s) - k : c[i] = s[i + k]
  BY <1>1, <1>3
<1> QED BY <1>1, <1>3, <1>4, <1>5

(* What comes after the first elements of a sequence, seen in a longer one. *)
LEMMA CutPrefix ==
  ASSUME NEW S, NEW b \in Seq(S), NEW r \in Seq(S), NEW k \in 0 .. Len(b)
  PROVE  SubSeq(b, k + 1, Len(b)) \o r = SubSeq(b \o r, k + 1, Len(b \o r))
<1> DEFINE w == b \o r
           x == SubSeq(b, k + 1, Len(b))
           y == SubSeq(w, k + 1, Len(w))
<1>1. /\ w \in Seq(S) /\ Len(b) \in Nat /\ Len(r) \in Nat /\ Len(w) = Len(b) + Len(r)
      /\ \A i \in 1 .. Len(b) + Len(r) : w[i] = IF i <= Len(b) THEN b[i] ELSE r[i - Len(b)]
  BY ConcatProperties, LenProperties
<1>2. /\ x \in Seq(S) /\ Len(x) = Len(b) - k
      /\ \A i \in 1 .. Len(b) - k : x[i] = b[i + k]
  BY CutFacts
<1> HIDE DEF w, x
<1>3. k \in 0 .. Len(w)
  BY <1>1
<1>4. /\ y \in Seq(S) /\ Len(y) = Len(w) - k
      /\ \A i \in 1 .. Len(w) - k : y[i] = w[i + k]
  BY <1>1, <1>3, CutFacts
<1> HIDE DEF y
<1>5. /\ x \o r \in Seq(S) /\ Len(x \o r) = Len(x) + Len(r)
      /\ \A i \in 1 .. Len(x) + Len(r) : (x \o r)[i] = IF i <= Len(x) THEN x[i] ELSE r[i - Len(x)]
  BY <1>2, ConcatProperties
<1>6. Len(x \o r) = Len(y)
  BY <1>1, <1>2, <1>4, <1>5
<1>7. \A i \in 1 .. Len(x \o r) : (x \o r)[i] = y[i]
  <2> TAKE i \in 1 .. Len(x \o r)
  <2>1. i \in Nat /\ i <= Len(b) - k + Len(r) /\ 1 <= i /\ k \in Nat /\ k <= Len(b)
    BY <1>1, <1>2, <1>5
  <2>2. y[i] = w[i + k] /\ w[i + k] = IF i + k <= Len(b) THEN b[i + k] ELSE r[i + k - Len(b)]
    BY <1>1, <1>4, <2>1
  <2>3. CASE i + k <= Len(b)
    BY <1>1, <1>2, <1>5, <2>1, <2>2, <2>3
  <2>4. CASE ~ (i + k <= Len(b))
    <3>1. i - Len(x) = i + k - Len(b) /\ ~ (i <= Len(x))
      BY <1>1, <1>2, <2>1, <2>4
    <3>2. (x \o r)[i] = r[i - Len(x)]
      BY <1>5, <3>1
    <3> QED BY <2>2, <2>4, <3>1, <3>2
  <2> QED BY <2>3, <2>4
<1>8. x \o r = y
  BY <1>4, <1>5, <1>6, <1>7, SeqEqual
<1> QED BY <1>8 DEF w, x, y

(* A non-empty set of numbers has a least one: if a line of the buffer is not
   dropped, there is a first such line. *)
LEMMA SomeFirst ==
  ASSUME TypeOK, NEW j \in 1 .. Len(buffer), IsResult(buffer[j]) \/ HasHandler(buffer[j])
  PROVE  \E k \in 1 .. Len(buffer) : First(k)
<1> DEFINE R == {p \in Nat \X Nat : p[1] < p[2]}
           T == {i \in 1 .. Len(buffer) : IsResult(buffer[i]) \/ HasHandler(buffer[i])}
<1>0. Len(buffer) \in Nat
  BY LenProperties DEF TypeOK
<1>1. T # {} /\ T \subseteq Nat
  BY <1>0
<1>2. IsWellFoundedOn(R, Nat)
  BY NatLessThanWellFounded DEF OpToRel
<1>3. \E k \in T : \A i \in T : ~ (<<i, k>> \in R)
  <2> HIDE DEF R, T
  <2> QED BY <1>1, <1>2, WFMin
<1>4. PICK k \in T : \A i \in T : ~ (<<i, k>> \in R)
  BY <1>3
<1>5. \A i \in 1 .. k - 1 : i \notin T
  <2>1. \A i \in T : ~ (i < k)
    BY <1>1, <1>4
  <2>2. k \in Nat
    BY <1>1
  <2>3. \A i \in 1 .. k - 1 : i < k
    BY <2>2
  <2> HIDE DEF T
  <2> QED BY <2>1, <2>3
<1>6. \A i \in 1 .. k - 1 : i \in 1 .. Len(buffer)
  BY <1>0, <1>4
<1> QED BY <1>4, <1>5, <1>6 DEF First

(* Lines that were looked at leave the rest in order, unless the last of them
   is a header. *)
LEMMA CutInOrder ==
  ASSUME NEW w \in Seq(Line), InOrder(w), NEW k \in 0 .. Len(w),
         k > 0 => w[k].kind # "header"
  PROVE  InOrder(SubSeq(w, k + 1, Len(w)))
<1> DEFINE c == SubSeq(w, k + 1, Len(w))
<1>1. /\ Len(w) \in Nat /\ Len(c) = Len(w) - k
      /\ \A i \in 1 .. Len(w) - k : c[i] = w[i + k]
  BY CutFacts
<1> HIDE DEF c
<1>2. /\ k \in Nat
      /\ \A i \in 1 .. Len(c) : i \in Nat /\ i + k \in 1 .. Len(w) /\ c[i] = w[i + k]
  BY <1>1
<1>3. ASSUME NEW i \in 1 .. Len(c)
      PROVE  c[i].kind = "header" => i < Len(c) /\ c[i + 1].kind = "payload"
  <2>1. SUFFICES ASSUME c[i].kind = "header" PROVE i < Len(c) /\ c[i + 1].kind = "payload"
    OBVIOUS
  <2>2. i + k < Len(w) /\ w[i + k + 1].kind = "payload"
    BY <1>2, <2>1 DEF InOrder
  <2>3. i < Len(c) /\ i + 1 \in 1 .. Len(c) /\ i + 1 + k = i + k + 1
    BY <1>1, <1>2, <2>2
  <2> QED BY <1>2, <2>2, <2>3
<1>4. ASSUME NEW i \in 1 .. Len(c)
      PROVE  c[i].kind = "payload" => 1 < i /\ c[i - 1].kind = "header"
  <2>1. SUFFICES ASSUME c[i].kind = "payload" PROVE 1 < i /\ c[i - 1].kind = "header"
    OBVIOUS
  <2>2. w[i + k - 1].kind = "header" /\ 1 < i + k
    BY <1>2, <2>1 DEF InOrder
  <2>3. i # 1
    <3>1. i = 1 => i + k - 1 = k /\ k > 0
      BY <1>2, <2>2
    <3> QED BY <2>2, <3>1
  <2>4. i - 1 \in 1 .. Len(c) /\ i - 1 + k = i + k - 1 /\ 1 < i
    BY <1>1, <1>2, <2>3
  <2> QED BY <1>2, <2>2, <2>4
<1>5. ASSUME NEW i \in 1 .. Len(c), NEW j \in 1 .. Len(c), i < j
      PROVE  /\ c[i].kind = "answer" /\ c[j].kind = "answer" => c[i].of < c[j].of
             /\ HasHandler(c[i]) /\ HasHandler(c[j]) => c[i].of < c[j].of
  <2> DEFINE a == i + k
             b == j + k
  <2>1. a \in 1 .. Len(w) /\ b \in 1 .. Len(w) /\ a < b /\ c[i] = w[a] /\ c[j] = w[b]
    BY <1>2, <1>5
  <2> HIDE DEF a, b
  <2>2. /\ w[a].kind = "answer" /\ w[b].kind = "answer" => w[a].of < w[b].of
        /\ HasHandler(w[a]) /\ HasHandler(w[b]) => w[a].of < w[b].of
    BY <2>1 DEF InOrder
  <2> QED BY <2>1, <2>2
<1> QED BY <1>3, <1>4, <1>5 DEF InOrder, c

(* A line that comes keeps the order, if its number is new and it is neither
   a header nor a payload. *)
LEMMA AddInOrder ==
  ASSUME NEW w \in Seq(Line), InOrder(w), NEW l \in Line, l.kind \notin {"header", "payload"},
         \A i \in 1 .. Len(w) :
           /\ w[i].kind = "answer" /\ l.kind = "answer" => w[i].of < l.of
           /\ HasHandler(w[i]) /\ HasHandler(l) => w[i].of < l.of
  PROVE  InOrder(Append(w, l))
<1> DEFINE c == Append(w, l)
<1>1. /\ Len(w) \in Nat /\ Len(c) = Len(w) + 1 /\ c[Len(w) + 1] = l
      /\ \A i \in 1 .. Len(w) : c[i] = w[i]
  BY AppendFacts
<1> HIDE DEF c
<1>2. \A i \in 1 .. Len(c) : i \in Nat /\ (i \in 1 .. Len(w) \/ i = Len(w) + 1)
  BY <1>1
<1>3. ASSUME NEW i \in 1 .. Len(c)
      PROVE  /\ c[i].kind = "header" => i < Len(c) /\ c[i + 1].kind = "payload"
             /\ c[i].kind = "payload" => 1 < i /\ c[i - 1].kind = "header"
  <2>1. CASE i = Len(w) + 1
    BY <1>1, <2>1
  <2>2. CASE i \in 1 .. Len(w)
    <3>1. /\ c[i].kind = "header" => i < Len(w) /\ w[i + 1].kind = "payload"
          /\ c[i].kind = "payload" => 1 < i /\ w[i - 1].kind = "header"
      BY <1>1, <2>2 DEF InOrder
    <3>2. /\ i < Len(w) => i + 1 \in 1 .. Len(w) /\ i < Len(c)
          /\ 1 < i => i - 1 \in 1 .. Len(w)
      BY <1>1, <2>2
    <3> QED BY <1>1, <3>1, <3>2
  <2> QED BY <1>2, <2>1, <2>2
<1>4. ASSUME NEW i \in 1 .. Len(c), NEW j \in 1 .. Len(c), i < j
      PROVE  /\ c[i].kind = "answer" /\ c[j].kind = "answer" => c[i].of < c[j].of
             /\ HasHandler(c[i]) /\ HasHandler(c[j]) => c[i].of < c[j].of
  <2>1. i \in 1 .. Len(w)
    BY <1>1, <1>2, <1>4
  <2>2. CASE j = Len(w) + 1
    BY <1>1, <2>1, <2>2
  <2>3. CASE j \in 1 .. Len(w)
    BY <1>1, <1>4, <2>1, <2>3 DEF InOrder
  <2> QED BY <1>2, <2>2, <2>3
<1> QED BY <1>3, <1>4 DEF InOrder, c

(* A header that comes with its payload keeps the order. *)
LEMMA AddPairInOrder ==
  ASSUME NEW w \in Seq(Line), InOrder(w), NEW h \in Line, h.kind = "header",
         NEW p \in Line, p.kind = "payload",
         \A i \in 1 .. Len(w) : HasHandler(w[i]) => w[i].of < h.of
  PROVE  InOrder(Append(Append(w, h), p))
<1> DEFINE b == Append(w, h)
           c == Append(b, p)
<1>1. /\ Len(w) \in Nat /\ Len(b) = Len(w) + 1 /\ b[Len(w) + 1] = h /\ b \in Seq(Line)
      /\ \A i \in 1 .. Len(w) : b[i] = w[i]
  BY AppendFacts
<1> HIDE DEF b
<1>2. /\ Len(c) = Len(b) + 1 /\ c[Len(b) + 1] = p
      /\ \A i \in 1 .. Len(b) : c[i] = b[i]
  BY <1>1, AppendFacts
<1> HIDE DEF c
<1>3. /\ Len(c) = Len(w) + 2 /\ c[Len(w) + 1] = h /\ c[Len(w) + 2] = p
      /\ \A i \in 1 .. Len(w) : c[i] = w[i]
  BY <1>1, <1>2
<1>4. /\ \A i \in 1 .. Len(c) : i \in Nat /\ (i \in 1 .. Len(w) \/ i = Len(w) + 1 \/ i = Len(w) + 2)
  BY <1>1, <1>3
<1>5. ~HasHandler(p) /\ h.kind # "answer" /\ p.kind # "answer"
  BY DEF HasHandler
<1>6. ASSUME NEW i \in 1 .. Len(c)
      PROVE  /\ c[i].kind = "header" => i < Len(c) /\ c[i + 1].kind = "payload"
             /\ c[i].kind = "payload" => 1 < i /\ c[i - 1].kind = "header"
  <2>1. CASE i = Len(w) + 1
    BY <1>1, <1>3, <2>1
  <2>2. CASE i = Len(w) + 2
    BY <1>1, <1>3, <2>2
  <2>3. CASE i \in 1 .. Len(w)
    <3>1. /\ c[i].kind = "header" => i < Len(w) /\ w[i + 1].kind = "payload"
          /\ c[i].kind = "payload" => 1 < i /\ w[i - 1].kind = "header"
      BY <1>3, <2>3 DEF InOrder
    <3>2. /\ i < Len(w) => i + 1 \in 1 .. Len(w) /\ i < Len(c)
          /\ 1 < i => i - 1 \in 1 .. Len(w)
      BY <1>1, <1>3, <2>3
    <3> QED BY <1>3, <3>1, <3>2
  <2> QED BY <1>4, <2>1, <2>2, <2>3
<1>7. ASSUME NEW i \in 1 .. Len(c), NEW j \in 1 .. Len(c), i < j
      PROVE  /\ c[i].kind = "answer" /\ c[j].kind = "answer" => c[i].of < c[j].of
             /\ HasHandler(c[i]) /\ HasHandler(c[j]) => c[i].of < c[j].of
  <2>1. i \in 1 .. Len(w) \/ (i = Len(w) + 1 /\ j = Len(w) + 2)
    BY <1>1, <1>3, <1>4, <1>7
  <2>2. CASE j = Len(w) + 1
    BY <1>1, <1>3, <1>5, <1>7, <2>1, <2>2
  <2>3. CASE j = Len(w) + 2
    BY <1>3, <1>5, <2>3
  <2>4. CASE j \in 1 .. Len(w)
    BY <1>1, <1>3, <1>7, <2>1, <2>4 DEF InOrder
  <2> QED BY <1>4, <2>2, <2>3, <2>4
<1> QED BY <1>6, <1>7 DEF InOrder, b, c

(* Jobs that were given up are counted one by one. *)
LEMMA GivenUpCounts ==
  ASSUME NEW d \in Seq(Done), NEW e \in Done
  PROVE  /\ GivenUp(d, Len(d)) \in Nat
         /\ \A n \in 0 .. Len(d) : GivenUp(Append(d, e), n) = GivenUp(d, n)
         /\ GivenUp(Append(d, e), Len(d) + 1)
              = IF e.result = "line" THEN GivenUp(d, Len(d)) ELSE GivenUp(d, Len(d)) + 1
<1> DEFINE c == Append(d, e)
           Of(s, n) == {k \in 1 .. n : s[k].result # "line"}
<1>1. /\ Len(d) \in Nat /\ c[Len(d) + 1] = e
      /\ \A i \in 1 .. Len(d) : c[i] = d[i]
  BY AppendFacts
<1> HIDE DEF c
<1>2. IsFiniteSet(Of(d, Len(d))) /\ Cardinality(Of(d, Len(d))) \in Nat
  <2>1. IsFiniteSet(1 .. Len(d)) /\ Of(d, Len(d)) \subseteq 1 .. Len(d)
    BY <1>1, FS_Interval
  <2> QED BY <2>1, FS_Subset, FS_CardinalityType
<1>3. \A n \in 0 .. Len(d) : Of(c, n) = Of(d, n)
  BY <1>1
<1>4. Of(c, Len(d) + 1) = IF e.result = "line" THEN Of(d, Len(d)) ELSE Of(d, Len(d)) \cup {Len(d) + 1}
  BY <1>1
<1>5. Len(d) + 1 \notin Of(d, Len(d))
  BY <1>1
<1>6. \A s, n : GivenUp(s, n) = Cardinality(Of(s, n))
  BY DEF GivenUp
<1> HIDE DEF Of
<1>7. Cardinality(Of(d, Len(d)) \cup {Len(d) + 1}) = Cardinality(Of(d, Len(d))) + 1
  BY <1>2, <1>5, FS_AddElement
<1> QED BY <1>2, <1>3, <1>4, <1>6, <1>7 DEF c

-----------------------------------------------------------------------------
(* Types, and the order of the commands. *)

CoreInv == TypeOK /\ Sequential

LEMMA CoreFacts ==
  ASSUME CoreInv
  PROVE  /\ Len(queue) \in Nat /\ Len(buffer) \in Nat /\ Len(half) \in Nat /\ Len(pending) \in Nat
         /\ Len(payload) \in Nat /\ Len(wrote) \in Nat /\ Len(done) \in Nat /\ Len(handled) \in Nat
         /\ jobs \in Nat /\ came \in Nat
         /\ DOMAIN wrote = 1 .. Len(wrote) /\ DOMAIN done = 1 .. Len(done)
         /\ DOMAIN queue = 1 .. Len(queue) /\ DOMAIN handled = 1 .. Len(handled)
         /\ DOMAIN buffer = 1 .. Len(buffer)
         /\ \A i \in 1 .. Len(buffer) : buffer[i] \in Line
         /\ \A i \in 1 .. Len(queue) : queue[i] \in QueuedJob
         /\ \A i \in 1 .. Len(pending) : pending[i] \in Job
         /\ \A i \in 1 .. Len(handled) : handled[i] \in Line
         /\ \A i \in 1 .. Len(done) : done[i] \in Done
         /\ queue # <<>> => /\ Len(queue) > 0 /\ Head(queue) = queue[1]
                            /\ Head(queue) \in QueuedJob /\ Head(queue).id = Len(done) + 1
                            /\ Len(done) + 1 \in Job
<1>1. /\ Len(queue) \in Nat /\ Len(buffer) \in Nat /\ Len(half) \in Nat /\ Len(pending) \in Nat
      /\ Len(payload) \in Nat /\ Len(wrote) \in Nat /\ Len(done) \in Nat /\ Len(handled) \in Nat
      /\ DOMAIN wrote = 1 .. Len(wrote) /\ DOMAIN done = 1 .. Len(done)
      /\ DOMAIN queue = 1 .. Len(queue) /\ DOMAIN handled = 1 .. Len(handled)
      /\ DOMAIN buffer = 1 .. Len(buffer)
  BY LenProperties DEF CoreInv, TypeOK
<1>2. /\ \A i \in 1 .. Len(buffer) : buffer[i] \in Line
      /\ \A i \in 1 .. Len(queue) : queue[i] \in QueuedJob
      /\ \A i \in 1 .. Len(pending) : pending[i] \in Job
      /\ \A i \in 1 .. Len(handled) : handled[i] \in Line
      /\ \A i \in 1 .. Len(done) : done[i] \in Done
  BY ElementOfSeq DEF CoreInv, TypeOK
<1>3. jobs \in Nat /\ came \in Nat
  BY ATAssumption DEF CoreInv, TypeOK
<1>4. ASSUME queue # <<>>
      PROVE  /\ Len(queue) > 0 /\ Head(queue) = queue[1]
             /\ Head(queue) \in QueuedJob /\ Head(queue).id = Len(done) + 1
             /\ Len(done) + 1 \in Job
  <2>1. Len(queue) > 0
    BY <1>4, EmptySeq DEF CoreInv, TypeOK
  <2>2. Head(queue) = queue[1]
    BY <1>4 DEF CoreInv, TypeOK
  <2>3. 1 \in 1 .. Len(queue)
    BY <1>1, <2>1
  <2>4. queue[1] \in QueuedJob /\ queue[1].id = Len(done) + 1
    BY <1>1, <1>2, <2>3 DEF CoreInv, Sequential
  <2>5. queue[1].id \in Job
    BY <2>4 DEF QueuedJob
  <2> QED BY <2>1, <2>2, <2>4, <2>5
<1> QED BY <1>1, <1>2, <1>3, <1>4

(* The job at the front completes. *)
LEMMA CompleteKeeps ==
  ASSUME CoreInv, started, queue # <<>>, NEW e \in Done, e.id = Head(queue).id,
         Complete(e), UNCHANGED <<wrote, jobs>>
  PROVE  Sequential' /\ queue' \in Seq(QueuedJob) /\ done' \in Seq(Done)
         /\ started' = FALSE /\ elapsed' \in 0 .. Limit + 1
<1> USE DEF Complete
<1>0. /\ Len(queue) \in Nat /\ Len(done) \in Nat /\ jobs \in Nat
      /\ DOMAIN done = 1 .. Len(done) /\ DOMAIN queue = 1 .. Len(queue)
      /\ Len(queue) > 0 /\ e.id = Len(done) + 1
  BY CoreFacts
<1>1. /\ done' \in Seq(Done) /\ Len(done') = Len(done) + 1 /\ done'[Len(done) + 1] = e
      /\ \A i \in 1 .. Len(done) : done'[i] = done[i]
      /\ DOMAIN done' = 1 .. Len(done) + 1
  BY AppendFacts DEF CoreInv, TypeOK
<1>2. /\ queue' \in Seq(QueuedJob) /\ Len(queue') = Len(queue) - 1
      /\ \A i \in 1 .. Len(queue') : queue'[i] = queue[i + 1]
  BY HeadTailProperties DEF CoreInv, TypeOK
<1>3. DOMAIN queue' = 1 .. Len(queue')
  BY <1>2, LenProperties
<1>4. Len(wrote) = Len(done) + 1
  BY DEF CoreInv, Sequential
<1>5. \A i \in DOMAIN done' : done'[i].id = i
  <2> TAKE i \in DOMAIN done'
  <2>1. CASE i = Len(done) + 1
    BY <1>0, <1>1, <2>1
  <2>2. CASE i \in 1 .. Len(done)
    BY <1>0, <1>1, <2>2 DEF CoreInv, Sequential
  <2> QED BY <1>0, <1>1, <2>1, <2>2
<1>6. \A i \in DOMAIN queue' : queue'[i].id = Len(done') + i
  <2> TAKE i \in DOMAIN queue'
  <2>1. i + 1 \in DOMAIN queue /\ queue'[i] = queue[i + 1] /\ i \in Nat
    BY <1>0, <1>2, <1>3
  <2>2. queue[i + 1].id = Len(done) + (i + 1)
    BY <2>1 DEF CoreInv, Sequential
  <2> QED BY <1>0, <1>1, <2>1, <2>2
<1>7. jobs' = Len(done') + Len(queue')
  BY <1>0, <1>1, <1>2 DEF CoreInv, Sequential
<1>8. \A i \in DOMAIN wrote' : wrote'[i] = i
  BY DEF CoreInv, Sequential
<1>9. Len(done') <= Len(wrote') /\ Len(wrote') <= Len(done') + 1 /\ (started' <=> Len(wrote') = Len(done') + 1)
  BY <1>0, <1>1, <1>4
<1>10. elapsed' \in 0 .. Limit + 1
  BY ATAssumption
<1> QED BY <1>1, <1>2, <1>5, <1>6, <1>7, <1>8, <1>9, <1>10 DEF Sequential

LEMMA LaterType ==
  ASSUME CoreInv PROVE Later \in 0 .. Limit + 1
BY ATAssumption DEF CoreInv, TypeOK, Later

LEMMA SendKeeps ==
  ASSUME CoreInv, NEW w \in {"line", "time"}, Send(w)
  PROVE  CoreInv'
<1> USE DEF Send, modem
<1> DEFINE e == [id |-> jobs + 1, waitFor |-> w]
<1>0. /\ Len(queue) \in Nat /\ Len(done) \in Nat /\ jobs \in Nat
      /\ DOMAIN queue = 1 .. Len(queue) /\ jobs = Len(done) + Len(queue)
  BY CoreFacts DEF CoreInv, Sequential
<1>1. e \in QueuedJob
  BY <1>0, ATAssumption DEF QueuedJob, Job
<1>2. e.id = jobs + 1 /\ queue' = Append(queue, e)
  OBVIOUS
<1> HIDE DEF e
<1>3. /\ queue' \in Seq(QueuedJob) /\ Len(queue') = Len(queue) + 1 /\ queue'[Len(queue) + 1] = e
      /\ \A i \in 1 .. Len(queue) : queue'[i] = queue[i]
      /\ DOMAIN queue' = 1 .. Len(queue) + 1
  BY <1>1, <1>2, AppendFacts DEF CoreInv, TypeOK
<1>4. \A i \in DOMAIN queue' : queue'[i].id = Len(done) + i
  <2> TAKE i \in DOMAIN queue'
  <2>1. CASE i = Len(queue) + 1
    BY <1>0, <1>2, <1>3, <2>1
  <2>2. CASE i \in 1 .. Len(queue)
    BY <1>0, <1>3, <2>2 DEF CoreInv, Sequential
  <2> QED BY <1>0, <1>3, <2>1, <2>2
<1>5. TypeOK'
  BY <1>0, <1>3, ATAssumption DEF CoreInv, TypeOK
<1>6. jobs' = Len(done) + Len(queue')
  BY <1>0, <1>3
<1>7. Sequential'
  BY <1>4, <1>6 DEF CoreInv, Sequential
<1> QED BY <1>5, <1>7 DEF CoreInv

LEMMA TakeResultKeeps ==
  ASSUME CoreInv, NEW k \in DOMAIN buffer, TakeResult(k), UNCHANGED <<half, open, payload, jobs, came>>
  PROVE  CoreInv'
<1> DEFINE e == [id |-> Head(queue).id, result |-> "line", of |-> buffer[k]]
<1>1. /\ started /\ queue # <<>> /\ Complete(e) /\ buffer' = After(k) /\ UNCHANGED <<wrote, pending, handled>>
      /\ k \in 1 .. Len(buffer)
  BY DEF TakeResult, IsResult, Waits, First
<1>2. e \in Done /\ e.id = Head(queue).id
  BY <1>1, CoreFacts DEF Done
<1> HIDE DEF e
<1>3. Sequential' /\ queue' \in Seq(QueuedJob) /\ done' \in Seq(Done) /\ started' = FALSE
      /\ elapsed' \in 0 .. Limit + 1
  BY <1>1, <1>2, CompleteKeeps
<1>4. buffer' \in Seq(Line)
  BY <1>1, CutFacts DEF After, CoreInv, TypeOK
<1>5. TypeOK'
  BY <1>1, <1>3, <1>4 DEF CoreInv, TypeOK
<1> QED BY <1>3, <1>5 DEF CoreInv

(* A handler is called, and takes one line or two, or puts its line back. *)
LEMMA HandlersKeep ==
  ASSUME CoreInv, NEW k \in DOMAIN buffer, Handle(k) \/ Unpop(k),
         UNCHANGED <<half, open, payload, jobs, came>>
  PROVE  CoreInv'
<1>0. Len(buffer) \in Nat /\ k \in 1 .. Len(buffer) /\ buffer[k] \in Line
  BY CoreFacts
<1>1. handled' \in Seq(Line)
  <2>1. handled \in Seq(Line)
    BY DEF CoreInv, TypeOK
  <2>2. Append(handled, buffer[k]) \in Seq(Line)
    BY <1>0, <2>1, AppendFacts
  <2> QED BY <2>1, <2>2 DEF Handle, Unpop
<1>2. \A n \in 0 .. Len(buffer) : SubSeq(buffer, n + 1, Len(buffer)) \in Seq(Line)
  BY CutFacts DEF CoreInv, TypeOK
<1>3. buffer' \in Seq(Line)
  <2>1. CASE buffer' = SubSeq(buffer, k + 1, Len(buffer))
    BY <1>0, <1>2, <2>1
  <2>2. CASE k < Len(buffer) /\ buffer' = SubSeq(buffer, (k + 1) + 1, Len(buffer))
    BY <1>0, <1>2, <2>2
  <2>3. CASE buffer' = SubSeq(buffer, k, Len(buffer))
    <3>1. k - 1 \in 0 .. Len(buffer) /\ (k - 1) + 1 = k
      BY <1>0
    <3> QED BY <1>2, <2>3, <3>1
  <2> QED BY <2>1, <2>2, <2>3 DEF Handle, Unpop, After
<1>4. elapsed' \in 0 .. Limit + 1
  BY LaterType DEF Handle, Unpop
<1>5. UNCHANGED <<queue, started, wrote, pending, done>>
  BY DEF Handle, Unpop
<1>6. TypeOK'
  BY <1>1, <1>3, <1>4, <1>5 DEF CoreInv, TypeOK
<1> QED BY <1>5, <1>6 DEF CoreInv, Sequential

LEMMA StartJobKeeps ==
  ASSUME CoreInv, StartJob, buffer' = <<>>, UNCHANGED <<half, open, payload, jobs, came, handled>>
  PROVE  CoreInv' /\ Len(wrote') = Len(done) + 1 /\ Len(wrote) = Len(done)
<1> DEFINE n == Head(queue).id
<1>0. /\ Len(wrote) \in Nat /\ Len(done) \in Nat /\ DOMAIN wrote = 1 .. Len(wrote)
      /\ n = Len(done) + 1 /\ n \in Job
  BY CoreFacts DEF StartJob
<1>1. Len(wrote) = Len(done)
  <2>1. ~started
    BY DEF StartJob
  <2>2. Len(wrote) = Len(done) + 1 => started
    BY DEF CoreInv, Sequential
  <2>3. Len(wrote) # Len(done) + 1
    BY <2>1, <2>2, Zenon
  <2>4. Len(done) <= Len(wrote) /\ Len(wrote) <= Len(done) + 1
    BY DEF CoreInv, Sequential
  <2>5. Len(wrote) \in Int /\ Len(done) \in Int
    BY <1>0
  <2> HIDE DEF n
  <2> QED BY <2>3, <2>4, <2>5
<1>2. wrote' = Append(wrote, n) /\ pending' = Append(pending, n) /\ started' = TRUE /\ elapsed' = 0
      /\ UNCHANGED <<queue, done>>
  BY DEF StartJob
<1> HIDE DEF n
<1>3. /\ wrote' \in Seq(Job) /\ Len(wrote') = Len(wrote) + 1 /\ wrote'[Len(wrote) + 1] = n
      /\ \A i \in 1 .. Len(wrote) : wrote'[i] = wrote[i]
      /\ DOMAIN wrote' = 1 .. Len(wrote) + 1
      /\ pending' \in Seq(Job)
  BY <1>0, <1>2, AppendFacts DEF CoreInv, TypeOK
<1>4. \A i \in DOMAIN wrote' : wrote'[i] = i
  <2> TAKE i \in DOMAIN wrote'
  <2>1. CASE i = Len(wrote) + 1
    BY <1>0, <1>1, <1>3, <2>1
  <2>2. CASE i \in 1 .. Len(wrote)
    BY <1>0, <1>3, <2>2 DEF CoreInv, Sequential
  <2> QED BY <1>0, <1>3, <2>1, <2>2
<1>5. Len(done') <= Len(wrote') /\ Len(wrote') <= Len(done') + 1 /\ (started' <=> Len(wrote') = Len(done') + 1)
  BY <1>0, <1>1, <1>2, <1>3
<1>6. Sequential'
  BY <1>2, <1>4, <1>5 DEF CoreInv, Sequential
<1>7. 0 \in 0 .. Limit + 1 /\ <<>> \in Seq(Line)
  BY ATAssumption
<1>8. TypeOK'
  BY <1>2, <1>3, <1>7 DEF CoreInv, TypeOK
<1> QED BY <1>0, <1>1, <1>3, <1>6, <1>8 DEF CoreInv

LEMMA GiveUpKeeps ==
  ASSUME CoreInv, GiveUp, buffer' = <<>>, UNCHANGED <<half, open, payload, jobs, came, handled>>
  PROVE  CoreInv'
<1> DEFINE e == [id |-> Head(queue).id,
                 result |-> IF Head(queue).waitFor = "time" THEN "end" ELSE "timeout"]
<1>1. e \in Done /\ e.id = Head(queue).id
  BY CoreFacts DEF GiveUp, Done
<1>2. started /\ queue # <<>> /\ Complete(e) /\ UNCHANGED <<wrote, pending>>
  BY DEF GiveUp
<1> HIDE DEF e
<1>3. Sequential' /\ queue' \in Seq(QueuedJob) /\ done' \in Seq(Done) /\ started' = FALSE
      /\ elapsed' \in 0 .. Limit + 1
  BY <1>1, <1>2, CompleteKeeps
<1>4. <<>> \in Seq(Line)
  OBVIOUS
<1>5. TypeOK'
  BY <1>2, <1>3, <1>4 DEF CoreInv, TypeOK
<1> QED BY <1>3, <1>5 DEF CoreInv

LEMMA WaitKeeps ==
  ASSUME CoreInv, Wait, buffer' = <<>>, UNCHANGED <<half, open, payload, jobs, came, handled>>
  PROVE  CoreInv'
<1>1. <<>> \in Seq(Line) /\ elapsed' \in 0 .. Limit + 1
  BY LaterType DEF Wait
<1>2. TypeOK'
  BY <1>1 DEF Wait, CoreInv, TypeOK
<1> QED BY <1>2 DEF Wait, CoreInv, Sequential

LEMMA ProcessKeeps ==
  ASSUME CoreInv, Process
  PROVE  CoreInv'
<1>1. CASE \E k \in DOMAIN buffer : TakeResult(k)
  BY <1>1, TakeResultKeeps DEF Process
<1>2. CASE \E k \in DOMAIN buffer : Handle(k) \/ Unpop(k)
  BY <1>2, HandlersKeep DEF Process
<1>3. CASE NoMoreLines
  BY <1>3, StartJobKeeps, GiveUpKeeps, WaitKeeps DEF Process, NoMoreLines
<1> QED BY <1>1, <1>2, <1>3 DEF Process

(* What the modem does leaves the queue alone. *)
LEMMA ModemKeeps ==
  ASSUME CoreInv, Modem
  PROVE  CoreInv' /\ UNCHANGED script
<1>0. Len(buffer) \in Nat /\ Len(half) \in Nat /\ came \in Nat
  BY CoreFacts
<1>1. ASSUME NEW l \in Line, Sends(l)
      PROVE  buffer' \in Seq(Line) /\ half' \in Seq(Line) /\ Len(half') <= 1
  <2>1. Append(buffer, l) \in Seq(Line)
    BY AppendFacts DEF CoreInv, TypeOK
  <2>2. <<l>> \in Seq(Line) /\ Len(<<l>>) = 1
    OBVIOUS
  <2>3. buffer \in Seq(Line) /\ half \in Seq(Line) /\ Len(half) <= 1
    BY DEF CoreInv, TypeOK
  <2>4. \/ buffer' = Append(buffer, l) /\ half' = half
        \/ buffer' = buffer /\ half' = half
        \/ buffer' = buffer /\ half' = <<l>>
    BY <1>1 DEF Sends
  <2>5. ASSUME half' = <<l>> PROVE half' \in Seq(Line) /\ Len(half') <= 1
    <3>1. Len(half') = 1
      BY <2>2, <2>5
    <3> QED BY <2>2, <2>5, <3>1
  <2>6. ASSUME half' = half PROVE half' \in Seq(Line) /\ Len(half') <= 1
    BY <2>3, <2>6
  <2>7. buffer' \in Seq(Line)
    BY <2>1, <2>3, <2>4
  <2> QED BY <2>4, <2>5, <2>6, <2>7
<1>2. ASSUME Rest PROVE CoreInv' /\ UNCHANGED script
  <2>1. half[1] \in Line
    BY <1>2 DEF Rest, CoreInv, TypeOK
  <2>2. Append(buffer, half[1]) \in Seq(Line)
    BY <2>1, AppendFacts DEF CoreInv, TypeOK
  <2>3. <<>> \in Seq(Line) /\ Len(<<>>) <= 1
    OBVIOUS
  <2>4. TypeOK'
    BY <1>2, <2>2, <2>3 DEF Rest, script, CoreInv, TypeOK
  <2> QED BY <1>2, <2>4 DEF Rest, script, CoreInv, Sequential
<1>3. ASSUME Answer PROVE CoreInv' /\ UNCHANGED script
  <2>1. Head(pending) \in Job /\ Tail(pending) \in Seq(Job)
    BY <1>3, HeadTailProperties DEF Answer, CoreInv, TypeOK
  <2>2. [kind |-> "answer", of |-> Head(pending)] \in Line
    BY <2>1 DEF Line
  <2>3. buffer' \in Seq(Line) /\ half' \in Seq(Line) /\ Len(half') <= 1
    BY <1>1, <1>3, <2>2 DEF Answer
  <2>4. TypeOK'
    BY <1>3, <2>1, <2>3 DEF Answer, script, CoreInv, TypeOK
  <2> QED BY <1>3, <2>4 DEF Answer, script, CoreInv, Sequential
<1>4. ASSUME Ignore PROVE CoreInv' /\ UNCHANGED script
  <2>1. Tail(pending) \in Seq(Job)
    BY <1>4, HeadTailProperties DEF Ignore, CoreInv, TypeOK
  <2>2. TypeOK'
    BY <1>4, <2>1 DEF Ignore, script, CoreInv, TypeOK
  <2> QED BY <1>4, <2>2 DEF Ignore, script, CoreInv, Sequential
<1>5. ASSUME SendOwn PROVE CoreInv' /\ UNCHANGED script
  <2> DEFINE noise  == [kind |-> "noise"]
             note   == [kind |-> "note", of |-> came + 1]
             header == [kind |-> "header", of |-> came + 1]
             pay    == [kind |-> "payload", of |-> came + 1]
  <2>1. came + 1 \in Own /\ came' \in 0 .. MaxOwn
    BY <1>0, <1>5, ATAssumption DEF SendOwn, Own
  <2>2. noise \in Line /\ note \in Line /\ header \in Line /\ pay \in Line
    BY <2>1 DEF Line
  <2>3. Sends(noise) \/ Sends(note) \/ Sends(header)
    BY <1>5 DEF SendOwn
  <2>4. payload' = payload \/ payload' = <<pay>>
    BY <1>5 DEF SendOwn
  <2> HIDE DEF noise, note, header, pay
  <2>5. buffer' \in Seq(Line) /\ half' \in Seq(Line) /\ Len(half') <= 1
    BY <1>1, <2>2, <2>3
  <2>6. payload' \in Seq(Line) /\ Len(payload') <= 1
    <3>1. <<pay>> \in Seq(Line) /\ Len(<<pay>>) = 1
      BY <2>2
    <3>2. payload \in Seq(Line) /\ Len(payload) <= 1
      BY DEF CoreInv, TypeOK
    <3>3. ASSUME payload' = <<pay>> PROVE payload' \in Seq(Line) /\ Len(payload') <= 1
      <4>1. Len(payload') = 1
        BY <3>1, <3>3
      <4> QED BY <3>1, <3>3, <4>1
    <3>4. ASSUME payload' = payload PROVE payload' \in Seq(Line) /\ Len(payload') <= 1
      BY <3>2, <3>4
    <3> QED BY <2>4, <3>3, <3>4
  <2>7. UNCHANGED <<script, pending>>
    BY <1>5 DEF SendOwn
  <2>8. TypeOK'
    BY <2>1, <2>5, <2>6, <2>7 DEF script, CoreInv, TypeOK
  <2> QED BY <2>7, <2>8 DEF script, CoreInv, Sequential
<1>6. ASSUME SendPayload PROVE CoreInv' /\ UNCHANGED script
  <2>1. payload[1] \in Line
    BY <1>6 DEF SendPayload, CoreInv, TypeOK
  <2>2. buffer' \in Seq(Line) /\ half' \in Seq(Line) /\ Len(half') <= 1
    BY <1>1, <1>6, <2>1 DEF SendPayload
  <2>3. <<>> \in Seq(Line) /\ Len(<<>>) <= 1
    OBVIOUS
  <2>4. TypeOK'
    BY <1>6, <2>2, <2>3 DEF SendPayload, script, CoreInv, TypeOK
  <2> QED BY <1>6, <2>4 DEF SendPayload, script, CoreInv, Sequential
<1> QED BY <1>2, <1>3, <1>4, <1>5, <1>6 DEF Modem

LEMMA CoreInit == Init => CoreInv
<1> SUFFICES ASSUME Init PROVE CoreInv
  OBVIOUS
<1>1. /\ <<>> \in Seq(QueuedJob) /\ <<>> \in Seq(Line) /\ <<>> \in Seq(Job) /\ <<>> \in Seq(Done)
      /\ Len(<<>>) = 0 /\ DOMAIN <<>> = {}
  OBVIOUS
<1>2. TypeOK
  <2>1. 0 \in 0 .. Limit + 1 /\ 0 \in 0 .. MaxJobs /\ 0 \in 0 .. MaxOwn
    BY ATAssumption
  <2>2. Len(half) <= 1 /\ Len(payload) <= 1
    BY <1>1 DEF Init
  <2> QED BY <1>1, <2>1, <2>2 DEF Init, TypeOK
<1>3. Sequential
  BY <1>1 DEF Init, Sequential
<1> QED BY <1>2, <1>3 DEF CoreInv

LEMMA CoreStep == CoreInv /\ [Next]_vars => CoreInv'
<1> SUFFICES ASSUME CoreInv, [Next]_vars PROVE CoreInv'
  OBVIOUS
<1>1. ASSUME NEW w \in {"line", "time"}, Send(w) PROVE CoreInv'
  BY <1>1, SendKeeps
<1>2. ASSUME Close PROVE CoreInv'
  BY <1>2 DEF Close, modem, CoreInv, TypeOK, Sequential
<1>3. ASSUME UNCHANGED vars PROVE CoreInv'
  BY <1>3 DEF vars, CoreInv, TypeOK, Sequential
<1> QED BY <1>1, <1>2, <1>3, ProcessKeeps, ModemKeeps DEF Next

-----------------------------------------------------------------------------
(* Answers and the lines of the modem's own. *)

LEMMA IncomingFacts ==
  ASSUME CoreInv
  PROVE  /\ Incoming \in Seq(Line) /\ Len(Incoming) \in Nat /\ Len(buffer) <= Len(Incoming)
         /\ \A i \in 1 .. Len(Incoming) : Incoming[i] \in Line
         /\ \A i \in 1 .. Len(buffer) : i \in 1 .. Len(Incoming) /\ Incoming[i] = buffer[i]
         /\ half \o payload \in Seq(Line)
         /\ Incoming = buffer \o (half \o payload)
<1>1. buffer \in Seq(Line) /\ half \in Seq(Line) /\ payload \in Seq(Line)
  BY DEF CoreInv, TypeOK
<1> DEFINE r == half \o payload
<1>2. r \in Seq(Line)
  BY <1>1, ConcatProperties
<1>3. Incoming = buffer \o r
  BY <1>1, ConcatAssociative DEF Incoming
<1> HIDE DEF r
<1>4. /\ buffer \o r \in Seq(Line) /\ Len(buffer \o r) = Len(buffer) + Len(r)
      /\ \A i \in 1 .. Len(buffer) + Len(r) :
           (buffer \o r)[i] = IF i <= Len(buffer) THEN buffer[i] ELSE r[i - Len(buffer)]
  BY <1>1, <1>2, ConcatProperties
<1>5. Len(buffer) \in Nat /\ Len(r) \in Nat
  BY <1>1, <1>2, LenProperties
<1>6. \A i \in 1 .. Len(buffer) : i \in 1 .. Len(buffer) + Len(r) /\ i <= Len(buffer)
  BY <1>5
<1>7. \A i \in 1 .. Len(Incoming) : Incoming[i] \in Line
  BY <1>3, <1>4, ElementOfSeq
<1>8. Len(Incoming) \in Nat /\ Len(buffer) <= Len(Incoming)
  BY <1>3, <1>4, <1>5
<1> QED BY <1>2, <1>3, <1>4, <1>6, <1>7, <1>8 DEF r

LEMMA CutIncoming ==
  ASSUME CoreInv, NEW k \in 0 .. Len(buffer), buffer' = SubSeq(buffer, k + 1, Len(buffer)),
         UNCHANGED <<half, payload>>
  PROVE  /\ Incoming' = SubSeq(Incoming, k + 1, Len(Incoming)) /\ k \in 0 .. Len(Incoming)
         /\ Incoming' \in Seq(Line) /\ Len(Incoming') = Len(Incoming) - k
         /\ \A i \in 1 .. Len(Incoming') : i + k \in 1 .. Len(Incoming) /\ Incoming'[i] = Incoming[i + k]
<1> DEFINE r == half \o payload
           b == SubSeq(buffer, k + 1, Len(buffer))
<1>1. buffer \in Seq(Line) /\ half \in Seq(Line) /\ payload \in Seq(Line) /\ r \in Seq(Line)
  BY IncomingFacts DEF CoreInv, TypeOK
<1>2. b \in Seq(Line)
  BY <1>1, CutFacts
<1>3. b \o r = SubSeq(buffer \o r, k + 1, Len(buffer \o r))
  <2> HIDE DEF r
  <2> QED BY <1>1, CutPrefix
<1> HIDE DEF b
<1>4. Incoming' = b \o r
  <2>1. (b \o half) \o payload = b \o r
    <3>1. \A x, y, z \in Seq(Line) : (x \o y) \o z = x \o (y \o z)
      BY ConcatAssociative
    <3> QED BY <1>1, <1>2, <3>1
  <2>2. buffer' = b
    BY DEF b
  <2> QED BY <2>1, <2>2 DEF Incoming
<1>5. Incoming = buffer \o r
  BY IncomingFacts
<1>6. Incoming' = SubSeq(Incoming, k + 1, Len(Incoming))
  BY <1>3, <1>4, <1>5
<1>7. /\ Len(Incoming) \in Nat /\ k \in 0 .. Len(Incoming) /\ k \in Nat /\ Incoming \in Seq(Line)
  BY IncomingFacts, CoreFacts
<1> DEFINE w == Incoming
<1> HIDE DEF w
<1>8. LET c == SubSeq(w, k + 1, Len(w)) IN
      /\ c \in Seq(Line) /\ Len(c) = Len(w) - k
      /\ \A i \in 1 .. Len(w) - k : c[i] = w[i + k]
  BY <1>7, CutFacts DEF w
<1>9. /\ Incoming' \in Seq(Line) /\ Len(Incoming') = Len(Incoming) - k
      /\ \A i \in 1 .. Len(Incoming) - k : Incoming'[i] = Incoming[i + k]
  BY <1>6, <1>8 DEF w
<1>10. \A i \in 1 .. Len(Incoming) - k : i + k \in 1 .. Len(Incoming)
  BY <1>7
<1> QED BY <1>6, <1>7, <1>9, <1>10

(* A line is sent: it is at the end of what came in, whole or not. *)
LEMMA SendsJoins ==
  ASSUME CoreInv, open, NEW l \in Line, Sends(l)
  PROVE  buffer \o half = buffer /\ buffer' \o half' = Append(buffer, l)
         /\ Append(buffer, l) \in Seq(Line)
<1>1. buffer \in Seq(Line) /\ half = <<>>
  BY DEF CoreInv, TypeOK, Sends
<1>2. /\ buffer \o <<>> = buffer /\ buffer \o <<l>> = Append(buffer, l)
      /\ Append(buffer, l) \in Seq(Line)
  BY <1>1, AppendFacts
<1>3. Append(buffer, l) \o <<>> = Append(buffer, l)
  BY <1>2, ConcatEmptySeq
<1>4. \/ buffer' = Append(buffer, l) /\ half' = <<>>
      \/ buffer' = buffer /\ half' = <<l>>
  BY <1>1 DEF Sends
<1> QED BY <1>1, <1>2, <1>3, <1>4

AnswersInv ==
  /\ AnswersShift /\ HandledInOrder /\ Owed /\ HandledKnown /\ Announced
  /\ open => InOrder(Incoming) /\ Expected(Incoming)

LEMMA EarliestFacts ==
  ASSUME CoreInv
  PROVE  Earliest \in Int /\ Earliest <= Len(done) + 1 /\ GivenUp(done, Len(done)) \in Nat
<1>1. done \in Seq(Done) /\ Len(done) \in Nat
  BY CoreFacts DEF CoreInv, TypeOK
<1>2. [id |-> 1, result |-> "end"] \in Done \/ Job = {}
  BY ATAssumption DEF Done, Job
<1>3. GivenUp(done, Len(done)) \in Nat
  <2>1. IsFiniteSet(1 .. Len(done))
    BY <1>1, FS_Interval
  <2>2. IsFiniteSet({k \in 1 .. Len(done) : done[k].result # "line"})
    BY <2>1, FS_Subset
  <2> QED BY <2>2, FS_CardinalityType DEF GivenUp
<1> QED BY <1>1, <1>3 DEF Earliest

(* A job completes: the record of the earlier ones stays, and the earliest
   answer that may come moves on if it came with this job. *)
LEMMA CompletedFacts ==
  ASSUME CoreInv, AnswersShift, NEW e \in Done, done' = Append(done, e),
         e.result = "line" => /\ e.of.kind = "answer"
                              /\ e.of.of \in Earliest .. Len(done) + 1
  PROVE  /\ AnswersShift'
         /\ Earliest' = IF e.result = "line" THEN Earliest + 1 ELSE Earliest
<1>1. /\ done \in Seq(Done) /\ Len(done) \in Nat /\ DOMAIN done = 1 .. Len(done)
  BY CoreFacts DEF CoreInv, TypeOK
<1>2. /\ Len(done') = Len(done) + 1 /\ done'[Len(done) + 1] = e
      /\ \A i \in 1 .. Len(done) : done'[i] = done[i]
      /\ DOMAIN done' = 1 .. Len(done) + 1
  BY <1>1, AppendFacts
<1>3. /\ GivenUp(done, Len(done)) \in Nat
      /\ \A n \in 0 .. Len(done) : GivenUp(done', n) = GivenUp(done, n)
      /\ GivenUp(done', Len(done) + 1)
           = IF e.result = "line" THEN GivenUp(done, Len(done)) ELSE GivenUp(done, Len(done)) + 1
  BY <1>1, GivenUpCounts
<1>4. Earliest' = IF e.result = "line" THEN Earliest + 1 ELSE Earliest
  BY <1>1, <1>2, <1>3 DEF Earliest
<1>5. \A d, n : GivenUp(d, n) = Cardinality({k \in 1 .. n : d[k].result # "line"})
  BY DEF GivenUp
<1>6. ASSUME NEW i \in DOMAIN done', done'[i].result = "line"
      PROVE  done'[i].of.kind = "answer" /\ done'[i].of.of \in i - GivenUp(done', i - 1) .. i
  <2>1. ASSUME i \in 1 .. Len(done)
        PROVE  done'[i].of.kind = "answer" /\ done'[i].of.of \in i - GivenUp(done', i - 1) .. i
    <3>1. done[i].result = "line" /\ done'[i] = done[i] /\ i - 1 \in 0 .. Len(done)
      BY <1>1, <1>2, <1>6, <2>1
    <3>2. done[i].of.kind = "answer" /\ done[i].of.of \in i - GivenUp(done, i - 1) .. i
      BY <1>1, <2>1, <3>1 DEF AnswersShift, GivenUp
    <3>3. GivenUp(done', i - 1) = GivenUp(done, i - 1)
      BY <1>3, <3>1
    <3> QED BY <3>1, <3>2, <3>3
  <2>2. ASSUME i = Len(done) + 1
        PROVE  done'[i].of.kind = "answer" /\ done'[i].of.of \in i - GivenUp(done', i - 1) .. i
    <3>1. done'[i] = e /\ e.result = "line" /\ i - 1 = Len(done)
      BY <1>1, <1>2, <1>6, <2>2
    <3>2. GivenUp(done', i - 1) = GivenUp(done, Len(done))
      BY <1>1, <1>3, <3>1
    <3>3. Earliest = i - GivenUp(done', i - 1)
      BY <1>1, <1>3, <2>2, <3>2 DEF Earliest
    <3> QED BY <2>2, <3>1, <3>3
  <2> QED BY <1>1, <1>2, <2>1, <2>2
<1>7. AnswersShift'
  BY <1>6 DEF AnswersShift, GivenUp
<1> QED BY <1>4, <1>7

(* A result is an answer: what came before it in the buffer was dropped, so
   that it is no payload. *)
LEMMA ResultIsAnswer ==
  ASSUME CoreInv, InOrder(Incoming), NEW k \in 1 .. Len(buffer), First(k), IsResult(buffer[k])
  PROVE  buffer[k].kind = "answer"
<1>1. buffer[k].kind = "answer" \/ buffer[k].kind = "payload"
  BY DEF IsResult, IsOK
<1>2. ASSUME buffer[k].kind = "payload" PROVE FALSE
  <2>1. k \in 1 .. Len(Incoming) /\ Incoming[k] = buffer[k]
    BY IncomingFacts
  <2>2. 1 < k /\ Incoming[k - 1].kind = "header"
    BY <1>2, <2>1 DEF InOrder
  <2>3. k - 1 \in 1 .. Len(buffer) /\ k - 1 \in 1 .. k - 1
    BY <2>2, CoreFacts
  <2>4. HasHandler(buffer[k - 1])
    BY <2>2, <2>3, IncomingFacts DEF HasHandler
  <2> QED BY <2>3, <2>4 DEF First
<1> QED BY <1>1, <1>2

LEMMA TakeResultInOrder ==
  ASSUME CoreInv, AnswersInv, Process, NEW k \in DOMAIN buffer, TakeResult(k)
  PROVE  AnswersInv'
<1> DEFINE x == buffer[k]
           e == [id |-> Head(queue).id, result |-> "line", of |-> x]
<1>1. /\ open /\ k \in 1 .. Len(buffer) /\ First(k) /\ IsResult(x)
      /\ buffer' = SubSeq(buffer, k + 1, Len(buffer)) /\ done' = Append(done, e)
      /\ queue # <<>> /\ started
      /\ UNCHANGED <<half, open, payload, jobs, came, wrote, pending, handled>>
  BY DEF Process, TakeResult, First, After, Complete, IsResult, Waits
<1>2. InOrder(Incoming) /\ Expected(Incoming)
  BY <1>1 DEF AnswersInv
<1>3. x.kind = "answer" /\ x \in Line
  BY <1>1, <1>2, ResultIsAnswer, CoreFacts
<1>4. x.of \in Job
  BY <1>3, LineNumber
<1>5. k \in 1 .. Len(Incoming) /\ Incoming[k] = x
  BY <1>1, IncomingFacts
<1>6. /\ Earliest <= x.of /\ x.of <= Len(wrote)
      /\ \A j \in 1 .. Len(pending) : x.of < pending[j]
  BY <1>2, <1>3, <1>5 DEF Expected, IsExpected
<1>7. Len(wrote) = Len(done) + 1
  BY <1>1 DEF CoreInv, Sequential
<1>8. e \in Done /\ e.result = "line" /\ e.of = x
  BY <1>1, <1>3, CoreFacts DEF Done
<1>9. Earliest \in Int /\ x.of \in Nat /\ Len(done) \in Nat
  BY <1>4, EarliestFacts, CoreFacts, ATAssumption DEF Job
<1>10. x.of \in Earliest .. Len(done) + 1
  BY <1>6, <1>7, <1>9
<1> HIDE DEF e
<1>11. AnswersShift' /\ Earliest' = Earliest + 1
  BY <1>1, <1>3, <1>8, <1>10, CompletedFacts DEF AnswersInv
<1>12. k \in 0 .. Len(buffer)
  BY <1>1, CoreFacts
<1>13. /\ Incoming' = SubSeq(Incoming, k + 1, Len(Incoming))
       /\ \A i \in 1 .. Len(Incoming') : i + k \in 1 .. Len(Incoming) /\ Incoming'[i] = Incoming[i + k]
  BY <1>1, <1>12, CutIncoming
<1>14. InOrder(Incoming')
  <2>1. Incoming[k].kind # "header" /\ k \in 0 .. Len(Incoming) /\ Incoming \in Seq(Line)
    BY <1>3, <1>5, IncomingFacts
  <2> QED BY <1>2, <1>13, <2>1, CutInOrder
<1>15. Expected(Incoming)'
  <2>1. SUFFICES ASSUME NEW i \in 1 .. Len(Incoming') PROVE IsExpected(Incoming[i])'
    BY DEF Expected
  <2> DEFINE l == Incoming[i + k]
  <2>2. i + k \in 1 .. Len(Incoming) /\ Incoming'[i] = l /\ k < i + k
    <3>1. i \in Nat /\ 1 <= i /\ k \in Nat
      <4>1. Len(Incoming') \in Nat
        BY <1>1, <1>12, CutIncoming, LenProperties
      <4> QED BY <1>12, <4>1
    <3> QED BY <1>13, <3>1
  <2>3. IsExpected(l) /\ l \in Line
    BY <1>2, <2>2, IncomingFacts DEF Expected
  <2>4. l.kind = "answer" => x.of < l.of
    BY <1>2, <1>3, <1>5, <2>2 DEF InOrder
  <2>5. l.kind = "answer" => l.of \in Nat
    BY <2>3, LineNumber, ATAssumption DEF Job
  <2> HIDE DEF l
  <2>6. l.kind = "answer" => Earliest + 1 <= l.of
    BY <1>6, <1>9, <2>4, <2>5
  <2> QED BY <1>1, <1>11, <2>2, <2>3, <2>6 DEF IsExpected, HasHandler
<1>16. Owed'
  <2>1. ASSUME NEW j \in 1 .. Len(pending) PROVE Earliest + 1 <= pending[j]
    <3>1. pending[j] \in Nat /\ x.of < pending[j]
      BY <1>6, CoreFacts, ATAssumption DEF Job
    <3> QED BY <1>6, <1>9, <3>1
  <2> QED BY <1>1, <1>11, <2>1 DEF AnswersInv, Owed
<1> QED BY <1>1, <1>11, <1>14, <1>15, <1>16 DEF AnswersInv, HandledInOrder, HandledKnown, Announced

(* A handler that takes its line, and perhaps the payload after it. *)
LEMMA HandleInOrder ==
  ASSUME CoreInv, AnswersInv, Process, NEW k \in DOMAIN buffer, Handle(k)
  PROVE  AnswersInv'
<1> DEFINE x == buffer[k]
<1>0. Len(buffer) \in Nat /\ Len(handled) \in Nat /\ x \in Line /\ k \in 1 .. Len(buffer)
  BY CoreFacts
<1>1. /\ open /\ HasHandler(x) /\ handled' = Append(handled, x)
      /\ UNCHANGED <<half, open, payload, jobs, came, queue, started, wrote, pending, done>>
  BY DEF Process, Handle, First
<1>2. InOrder(Incoming) /\ Expected(Incoming)
  BY <1>1 DEF AnswersInv
<1>3. k \in 1 .. Len(Incoming) /\ Incoming[k] = x
  BY <1>0, IncomingFacts
<1>4. x.of \in Own /\ x.of \in Nat
  BY <1>0, <1>1, LineNumber DEF Own
<1>5. x.of <= came /\ \A j \in 1 .. Len(handled) : handled[j].of < x.of
  BY <1>1, <1>2, <1>3 DEF Expected, IsExpected
<1>6. PICK n \in {k, k + 1} : /\ n \in 1 .. Len(buffer) /\ buffer' = SubSeq(buffer, n + 1, Len(buffer))
                              /\ buffer[n].kind # "header"
  <2>1. ASSUME x.kind = "note", buffer' = After(k)
        PROVE  k \in 1 .. Len(buffer) /\ buffer' = SubSeq(buffer, k + 1, Len(buffer)) /\ buffer[k].kind # "header"
    BY <1>0, <2>1 DEF After
  <2>2. ASSUME x.kind = "header", k < Len(buffer), buffer' = After(k + 1)
        PROVE  k + 1 \in 1 .. Len(buffer) /\ buffer' = SubSeq(buffer, (k + 1) + 1, Len(buffer)) /\ buffer[k + 1].kind # "header"
    <3>1. k + 1 \in 1 .. Len(buffer)
      BY <1>0, <2>2
    <3>2. Incoming[k + 1].kind = "payload"
      BY <1>2, <1>3, <2>2 DEF InOrder
    <3> QED BY <2>2, <3>1, <3>2, IncomingFacts DEF After
  <2> QED BY <2>1, <2>2 DEF Handle
<1>7. n \in 0 .. Len(buffer) /\ k <= n /\ n \in Nat
  BY <1>0, <1>6
<1>8. /\ Incoming' = SubSeq(Incoming, n + 1, Len(Incoming)) /\ Len(Incoming') \in Nat
      /\ \A i \in 1 .. Len(Incoming') : i + n \in 1 .. Len(Incoming) /\ Incoming'[i] = Incoming[i + n]
  BY <1>1, <1>6, <1>7, CutIncoming, LenProperties
<1>9. InOrder(Incoming')
  <2>1. Incoming[n].kind # "header" /\ n \in 0 .. Len(Incoming) /\ Incoming \in Seq(Line)
    BY <1>6, <1>7, IncomingFacts
  <2> QED BY <1>2, <1>8, <2>1, CutInOrder
<1>10. /\ handled' \in Seq(Line) /\ Len(handled') = Len(handled) + 1 /\ handled'[Len(handled) + 1] = x
       /\ \A i \in 1 .. Len(handled) : handled'[i] = handled[i]
       /\ DOMAIN handled' = 1 .. Len(handled) + 1
  BY <1>0, <1>1, AppendFacts DEF CoreInv, TypeOK
<1>11. \A i \in 1 .. Len(handled') : i \in 1 .. Len(handled) \/ i = Len(handled) + 1
  BY <1>0, <1>10
<1>12. Earliest' = Earliest
  BY <1>1 DEF Earliest
<1>13. Expected(Incoming)'
  <2>1. SUFFICES ASSUME NEW i \in 1 .. Len(Incoming') PROVE IsExpected(Incoming[i])'
    BY DEF Expected
  <2> DEFINE l == Incoming[i + n]
  <2>2. i + n \in 1 .. Len(Incoming) /\ Incoming'[i] = l /\ k < i + n
    BY <1>0, <1>7, <1>8
  <2>3. IsExpected(l)
    BY <1>2, <2>2 DEF Expected
  <2>4. HasHandler(l) => x.of < l.of
    BY <1>1, <1>2, <1>3, <2>2 DEF InOrder
  <2> HIDE DEF l
  <2>5. HasHandler(l) => \A j \in 1 .. Len(handled') : handled'[j].of < l.of
    BY <1>10, <1>11, <2>3, <2>4 DEF IsExpected
  <2> QED BY <1>1, <1>12, <2>2, <2>3, <2>5 DEF IsExpected, HasHandler
<1>14. HandledKnown'
  BY <1>1, <1>5, <1>10, <1>11 DEF AnswersInv, HandledKnown, HasHandler
<1>15. HandledInOrder'
  <2>1. SUFFICES ASSUME NEW i \in DOMAIN handled', NEW j \in DOMAIN handled', i < j
                 PROVE  handled'[i].of < handled'[j].of
    BY DEF HandledInOrder
  <2>2. i \in 1 .. Len(handled)
    BY <1>0, <1>10, <2>1
  <2>3. CASE j = Len(handled) + 1
    BY <1>5, <1>10, <2>2, <2>3
  <2>4. CASE j \in 1 .. Len(handled)
    <3>1. i \in DOMAIN handled /\ j \in DOMAIN handled
      BY <2>2, <2>4, CoreFacts
    <3> QED BY <1>10, <2>1, <2>2, <2>4, <3>1 DEF AnswersInv, HandledInOrder
  <2> QED BY <1>0, <1>10, <2>3, <2>4
<1> QED BY <1>1, <1>9, <1>12, <1>13, <1>14, <1>15 DEF AnswersInv, AnswersShift, Owed, Announced

(* Nothing but the buffer changes, and only lines go that no one waits for. *)
LEMMA DropInOrder ==
  ASSUME CoreInv, AnswersInv, open, NEW n \in 0 .. Len(buffer),
         buffer' = SubSeq(buffer, n + 1, Len(buffer)), n > 0 => buffer[n].kind # "header",
         UNCHANGED <<half, payload>>
  PROVE  /\ InOrder(Incoming')
         /\ \A i \in 1 .. Len(Incoming') : IsExpected(Incoming'[i]) /\ Incoming'[i] \in Line
<1>0. Len(buffer) \in Nat
  BY CoreFacts
<1>1. InOrder(Incoming) /\ Expected(Incoming)
  BY DEF AnswersInv
<1>2. /\ Incoming' = SubSeq(Incoming, n + 1, Len(Incoming)) /\ n \in 0 .. Len(Incoming)
      /\ \A i \in 1 .. Len(Incoming') : i + n \in 1 .. Len(Incoming) /\ Incoming'[i] = Incoming[i + n]
  BY CutIncoming
<1>3. n > 0 => Incoming[n].kind # "header"
  <2>1. n > 0 => n \in 1 .. Len(buffer)
    BY <1>0
  <2> QED BY <2>1, IncomingFacts
<1>4. InOrder(Incoming')
  BY <1>1, <1>2, <1>3, IncomingFacts, CutInOrder
<1>5. \A i \in 1 .. Len(Incoming') : IsExpected(Incoming'[i]) /\ Incoming'[i] \in Line
  BY <1>1, <1>2, IncomingFacts DEF Expected
<1> QED BY <1>4, <1>5

LEMMA UnpopInOrder ==
  ASSUME CoreInv, AnswersInv, Process, NEW k \in DOMAIN buffer, Unpop(k)
  PROVE  AnswersInv'
<1> DEFINE n == k - 1
<1>0. Len(buffer) \in Nat /\ k \in 1 .. Len(buffer)
  BY CoreFacts
<1>1. /\ open /\ buffer' = SubSeq(buffer, k, Len(buffer)) /\ First(k)
      /\ UNCHANGED <<half, open, payload, jobs, came, queue, started, wrote, pending, done, handled>>
  BY DEF Process, Unpop
<1>2. n \in 0 .. Len(buffer) /\ n + 1 = k
  BY <1>0
<1>3. n > 0 => buffer[n].kind # "header"
  <2>1. n > 0 => n \in 1 .. k - 1
    BY <1>0
  <2> QED BY <1>1, <2>1 DEF First, HasHandler
<1>4. buffer' = SubSeq(buffer, n + 1, Len(buffer))
  BY <1>1, <1>2
<1> HIDE DEF n
<1>5. /\ InOrder(Incoming')
      /\ \A i \in 1 .. Len(Incoming') : IsExpected(Incoming'[i])
  BY <1>1, <1>2, <1>3, <1>4, DropInOrder
<1>6. Expected(Incoming)'
  BY <1>1, <1>5 DEF Expected, IsExpected, Earliest, HasHandler
<1> QED BY <1>1, <1>5, <1>6
     DEF AnswersInv, AnswersShift, HandledInOrder, Owed, HandledKnown, Announced, Earliest

(* The buffer is emptied only of lines that no one waits for. *)
LEMMA DropsAll ==
  ASSUME CoreInv, AnswersInv, Process, NoMoreLines
  PROVE  /\ InOrder(Incoming')
         /\ \A i \in 1 .. Len(Incoming') : IsExpected(Incoming'[i]) /\ Incoming'[i] \in Line
         /\ open /\ buffer' = <<>>
         /\ UNCHANGED <<half, open, payload, jobs, came, handled>>
<1> DEFINE n == Len(buffer)
<1>0. n \in Nat /\ DOMAIN buffer = 1 .. n
  BY CoreFacts
<1>1. open /\ buffer' = <<>> /\ UNCHANGED <<half, open, payload, jobs, came, handled>>
  BY DEF Process, NoMoreLines
<1>2. SubSeq(buffer, n + 1, n) = <<>>
  BY <1>0, SubSeqEmpty
<1>3. n > 0 => buffer[n].kind # "header"
  <2>1. SUFFICES ASSUME n > 0, buffer[n].kind = "header" PROVE FALSE
    OBVIOUS
  <2>2. n \in 1 .. Len(buffer) /\ HasHandler(buffer[n])
    BY <1>0, <2>1 DEF HasHandler
  <2>3. \E k \in 1 .. Len(buffer) : First(k)
    BY <2>2, SomeFirst DEF CoreInv
  <2> QED BY <1>0, <2>3 DEF NoMoreLines
<1>4. n \in 0 .. Len(buffer)
  BY <1>0
<1>5. buffer' = SubSeq(buffer, n + 1, Len(buffer))
  BY <1>1, <1>2
<1> HIDE DEF n
<1>6. /\ InOrder(Incoming')
      /\ \A i \in 1 .. Len(Incoming') : IsExpected(Incoming'[i]) /\ Incoming'[i] \in Line
  BY <1>1, <1>3, <1>4, <1>5, DropInOrder
<1> QED BY <1>1, <1>6

LEMMA WaitInOrder ==
  ASSUME CoreInv, AnswersInv, Process, NoMoreLines, Wait
  PROVE  AnswersInv'
<1>1. /\ InOrder(Incoming') /\ \A i \in 1 .. Len(Incoming') : IsExpected(Incoming'[i])
      /\ UNCHANGED <<half, open, payload, jobs, came, handled, queue, started, wrote, pending, done>>
  BY DropsAll DEF Wait
<1>2. Expected(Incoming)'
  BY <1>1 DEF Expected, IsExpected, Earliest, HasHandler
<1> QED BY <1>1, <1>2
     DEF AnswersInv, AnswersShift, HandledInOrder, Owed, HandledKnown, Announced, Earliest

LEMMA GiveUpInOrder ==
  ASSUME CoreInv, AnswersInv, Process, NoMoreLines, GiveUp
  PROVE  AnswersInv'
<1> DEFINE e == [id |-> Head(queue).id,
                 result |-> IF Head(queue).waitFor = "time" THEN "end" ELSE "timeout"]
<1>1. /\ InOrder(Incoming') /\ \A i \in 1 .. Len(Incoming') : IsExpected(Incoming'[i])
      /\ UNCHANGED <<half, open, payload, jobs, came, handled, wrote, pending>>
      /\ done' = Append(done, e)
  BY DropsAll DEF GiveUp, Complete
<1>2. e \in Done /\ e.result # "line"
  BY CoreFacts DEF GiveUp, Done
<1> HIDE DEF e
<1>3. AnswersShift' /\ Earliest' = Earliest
  BY <1>1, <1>2, CompletedFacts DEF AnswersInv
<1>4. Expected(Incoming)'
  BY <1>1, <1>3 DEF Expected, IsExpected, HasHandler
<1> QED BY <1>1, <1>3, <1>4 DEF AnswersInv, HandledInOrder, Owed, HandledKnown, Announced

(* The command that is written is owed an answer after all others. *)
LEMMA StartJobInOrder ==
  ASSUME CoreInv, AnswersInv, Process, NoMoreLines, StartJob
  PROVE  AnswersInv'
<1> DEFINE n == Head(queue).id
<1>1. /\ InOrder(Incoming')
      /\ \A i \in 1 .. Len(Incoming') : IsExpected(Incoming'[i]) /\ Incoming'[i] \in Line
      /\ UNCHANGED <<half, open, payload, jobs, came, handled, queue, done>>
      /\ pending' = Append(pending, n)
  BY DropsAll DEF StartJob
<1>2. Len(wrote') = Len(done) + 1 /\ Len(wrote) = Len(done)
  BY DropsAll, StartJobKeeps
<1>3. /\ n \in Job /\ n = Len(done) + 1 /\ Len(pending) \in Nat /\ Len(done) \in Nat
      /\ \A j \in 1 .. Len(pending) : pending[j] \in Nat
  BY CoreFacts, ATAssumption DEF StartJob, Job
<1> HIDE DEF n
<1>4. /\ Len(pending') = Len(pending) + 1 /\ pending'[Len(pending) + 1] = n
      /\ \A j \in 1 .. Len(pending) : pending'[j] = pending[j]
  BY <1>1, <1>3, AppendFacts DEF CoreInv, TypeOK
<1>5. \A j \in 1 .. Len(pending') : j \in Nat /\ (j \in 1 .. Len(pending) \/ j = Len(pending) + 1)
  BY <1>3, <1>4
<1>6. Earliest' = Earliest /\ Earliest \in Int /\ Earliest <= n
  BY <1>1, <1>3, EarliestFacts DEF Earliest
<1>7. Owed'
  <2>1. ASSUME NEW j \in 1 .. Len(pending') PROVE Earliest' <= pending'[j] /\ pending'[j] <= Len(wrote')
    <3>1. CASE j = Len(pending) + 1
      BY <1>2, <1>3, <1>4, <1>6, <3>1
    <3>2. CASE j \in 1 .. Len(pending)
      <4>1. Earliest <= pending[j] /\ pending[j] <= Len(wrote) /\ pending[j] \in Nat
        BY <1>3, <3>2 DEF AnswersInv, Owed
      <4> QED BY <1>2, <1>3, <1>4, <1>6, <3>2, <4>1
    <3> QED BY <1>5, <3>1, <3>2
  <2>2. ASSUME NEW i \in 1 .. Len(pending'), NEW j \in 1 .. Len(pending'), i < j
        PROVE  pending'[i] < pending'[j]
    <3>1. i \in 1 .. Len(pending)
      BY <1>3, <1>4, <2>2
    <3>2. CASE j = Len(pending) + 1
      <4>1. pending[i] <= Len(wrote) /\ pending[i] \in Nat
        BY <1>3, <3>1 DEF AnswersInv, Owed
      <4> QED BY <1>2, <1>3, <1>4, <3>1, <3>2, <4>1
    <3>3. CASE j \in 1 .. Len(pending)
      BY <1>4, <2>2, <3>1, <3>3 DEF AnswersInv, Owed
    <3> QED BY <1>5, <3>2, <3>3
  <2> QED BY <2>1, <2>2 DEF Owed
<1>8. Expected(Incoming)'
  <2>1. SUFFICES ASSUME NEW i \in 1 .. Len(Incoming') PROVE IsExpected(Incoming[i])'
    BY DEF Expected
  <2> DEFINE l == Incoming'[i]
  <2>2. IsExpected(l) /\ l \in Line
    BY <1>1
  <2>3. l.kind = "answer" => l.of \in Nat
    BY <2>2, LineNumber, ATAssumption DEF Job
  <2>4. l.kind = "answer" => l.of <= Len(wrote) /\ \A j \in 1 .. Len(pending) : l.of < pending[j]
    BY <2>2 DEF IsExpected
  <2> HIDE DEF l
  <2>5. ASSUME l.kind = "answer" PROVE l.of <= Len(wrote') /\ l.of < n
    BY <1>2, <1>3, <2>3, <2>4, <2>5
  <2>6. l.kind = "answer" => \A j \in 1 .. Len(pending') : l.of < pending'[j]
    BY <1>4, <1>5, <2>4, <2>5
  <2>7. l.kind = "answer" => Earliest' <= l.of
    BY <1>6, <2>2 DEF IsExpected
  <2>8. HasHandler(l) => l.of <= came' /\ \A j \in 1 .. Len(handled') : handled'[j].of < l.of
    BY <1>1, <2>2 DEF IsExpected
  <2> QED BY <2>5, <2>6, <2>7, <2>8 DEF l, IsExpected, HasHandler
<1> QED BY <1>1, <1>7, <1>8
     DEF AnswersInv, AnswersShift, HandledInOrder, HandledKnown, Announced

LEMMA ProcessInOrder ==
  ASSUME CoreInv, AnswersInv, Process
  PROVE  AnswersInv'
<1>1. CASE \E k \in DOMAIN buffer : TakeResult(k)
  BY <1>1, TakeResultInOrder
<1>2. CASE \E k \in DOMAIN buffer : Handle(k)
  BY <1>2, HandleInOrder
<1>3. CASE \E k \in DOMAIN buffer : Unpop(k)
  BY <1>3, UnpopInOrder
<1>4. CASE NoMoreLines
  BY <1>4, StartJobInOrder, GiveUpInOrder, WaitInOrder DEF NoMoreLines
<1> QED BY <1>1, <1>2, <1>3, <1>4 DEF Process

(* Steps that leave what comes in as it is. *)
LEMMA SameIncoming ==
  ASSUME AnswersInv, open' => open /\ Incoming' = Incoming, Announced',
         UNCHANGED <<pending, came, wrote, done, handled>>
  PROVE  AnswersInv'
<1>1. open' => InOrder(Incoming') /\ Expected(Incoming)'
  BY DEF AnswersInv, InOrder, Expected, IsExpected, Earliest, HasHandler
<1> QED BY <1>1
     DEF AnswersInv, AnswersShift, HandledInOrder, Owed, HandledKnown, Earliest

LEMMA RestInOrder ==
  ASSUME CoreInv, AnswersInv, Rest
  PROVE  AnswersInv'
<1> DEFINE l == half[1]
<1>1. /\ half # <<>> /\ half' = <<>> /\ UNCHANGED <<script, pending, payload, came>>
      /\ open => buffer' = Append(buffer, l)
  BY DEF Rest
<1>2. half = <<l>> /\ l \in Line /\ buffer \in Seq(Line)
  <2>1. half \in Seq(Line) /\ Len(half) <= 1 /\ buffer \in Seq(Line)
    BY DEF CoreInv, TypeOK
  <2>2. Len(half) = 1
    <3> DEFINE n == Len(half)
    <3>1. n \in Nat \ {0}
      BY <1>1, <2>1, EmptySeq
    <3>2. n \in Int /\ n > 0 /\ n <= 1
      BY <2>1, <3>1
    <3> HIDE DEF n
    <3>3. n = 1
      BY <3>2
    <3> QED BY <3>3 DEF n
  <2>3. l \in Line
    BY <2>1, <2>2
  <2> QED BY <2>1, <2>2, <2>3
<1> HIDE DEF l
<1>3. open => Incoming' = Incoming
  <2>1. buffer \o <<l>> = Append(buffer, l) /\ Append(buffer, l) \in Seq(Line)
    BY <1>2, AppendFacts
  <2>2. Append(buffer, l) \o <<>> = Append(buffer, l)
    BY <2>1, ConcatEmptySeq
  <2> QED BY <1>1, <1>2, <2>1, <2>2 DEF Incoming
<1>4. open' = open /\ Announced'
  BY <1>1 DEF script, AnswersInv, Announced
<1> QED BY <1>1, <1>3, <1>4, SameIncoming DEF script

LEMMA SendPayloadInOrder ==
  ASSUME CoreInv, AnswersInv, SendPayload
  PROVE  AnswersInv'
<1> DEFINE l == payload[1]
<1>1. payload # <<>> /\ payload' = <<>> /\ Sends(l) /\ UNCHANGED <<script, pending, came>>
  BY DEF SendPayload
<1>2. payload = <<l>> /\ l \in Line
  <2>1. payload \in Seq(Line) /\ Len(payload) <= 1
    BY DEF CoreInv, TypeOK
  <2>2. Len(payload) = 1
    <3> DEFINE n == Len(payload)
    <3>1. n \in Nat \ {0}
      BY <1>1, <2>1, EmptySeq
    <3>2. n \in Int /\ n > 0 /\ n <= 1
      BY <2>1, <3>1
    <3> HIDE DEF n
    <3>3. n = 1
      BY <3>2
    <3> QED BY <3>3 DEF n
  <2> QED BY <2>1, <2>2
<1> HIDE DEF l
<1>3. open => Incoming' = Incoming
  <2>1. SUFFICES ASSUME open PROVE Incoming' = Incoming
    OBVIOUS
  <2>2. buffer \o half = buffer /\ buffer' \o half' = Append(buffer, l) /\ Append(buffer, l) \in Seq(Line)
    BY <1>1, <1>2, <2>1, SendsJoins
  <2>3. Append(buffer, l) \o <<>> = Append(buffer, l)
    BY <2>2, ConcatEmptySeq
  <2>4. buffer \o <<l>> = Append(buffer, l)
    BY <1>2, AppendFacts DEF CoreInv, TypeOK
  <2> QED BY <1>1, <1>2, <2>2, <2>3, <2>4 DEF Incoming
<1>4. open' = open /\ Announced'
  BY <1>1 DEF script, Announced
<1> QED BY <1>1, <1>3, <1>4, SameIncoming DEF script

(* An answer leaves: it comes after all that are on their way. *)
LEMMA OwedShrinks ==
  ASSUME CoreInv, AnswersInv, pending # <<>>, pending' = Tail(pending), UNCHANGED <<done, wrote>>
  PROVE  /\ Owed' /\ Earliest' = Earliest
         /\ Head(pending) \in Job /\ Earliest <= Head(pending) /\ Head(pending) <= Len(wrote)
         /\ \A j \in 1 .. Len(pending') : Head(pending) < pending'[j]
         /\ \A x : (\A j \in 1 .. Len(pending) : x < pending[j]) =>
                      x < Head(pending) /\ \A j \in 1 .. Len(pending') : x < pending'[j]
<1>1. /\ Head(pending) \in Job /\ Len(pending') = Len(pending) - 1 /\ Len(pending) \in Nat
      /\ \A j \in 1 .. Len(pending') : pending'[j] = pending[j + 1]
  BY HeadTailProperties, LenProperties DEF CoreInv, TypeOK
<1>2. Head(pending) = pending[1]
  BY DEF CoreInv, TypeOK
<1>3. Len(pending) > 0
  BY EmptySeq DEF CoreInv, TypeOK
<1>4. /\ 1 \in 1 .. Len(pending)
      /\ \A j \in 1 .. Len(pending') : j + 1 \in 1 .. Len(pending) /\ 1 < j + 1
      /\ \A i, j \in 1 .. Len(pending') : i < j => i + 1 < j + 1
  BY <1>1, <1>3
<1>5. Earliest' = Earliest
  BY DEF Earliest
<1>6. Owed
  BY DEF AnswersInv
<1>7. Owed'
  <2>1. \A j \in 1 .. Len(pending') : Earliest <= pending'[j] /\ pending'[j] <= Len(wrote)
    BY <1>1, <1>4, <1>6 DEF Owed
  <2>2. ASSUME NEW i \in 1 .. Len(pending'), NEW j \in 1 .. Len(pending'), i < j
        PROVE  pending'[i] < pending'[j]
    <3>1. i + 1 \in 1 .. Len(pending) /\ j + 1 \in 1 .. Len(pending) /\ i + 1 < j + 1
      BY <1>4, <2>2
    <3>2. pending[i + 1] < pending[j + 1]
      BY <1>6, <3>1 DEF Owed
    <3> QED BY <1>1, <3>2
  <2> QED BY <1>5, <2>1, <2>2 DEF Owed
<1>8. \A j \in 1 .. Len(pending') : Head(pending) < pending'[j]
  BY <1>1, <1>2, <1>4, <1>6 DEF Owed
<1>9. Earliest <= Head(pending) /\ Head(pending) <= Len(wrote)
  BY <1>2, <1>4, <1>6 DEF Owed
<1>10. ASSUME NEW x, \A j \in 1 .. Len(pending) : x < pending[j]
       PROVE  x < Head(pending) /\ \A j \in 1 .. Len(pending') : x < pending'[j]
  BY <1>1, <1>2, <1>4, <1>10
<1> QED BY <1>1, <1>5, <1>7, <1>8, <1>9, <1>10

LEMMA IgnoreInOrder ==
  ASSUME CoreInv, AnswersInv, Ignore
  PROVE  AnswersInv'
<1>1. /\ pending # <<>> /\ pending' = Tail(pending) /\ UNCHANGED <<script, buffer, half, payload, came>>
  BY DEF Ignore
<1>2. UNCHANGED <<done, wrote, handled, open>>
  BY <1>1 DEF script
<1>3. /\ Owed' /\ Earliest' = Earliest
      /\ \A x : (\A j \in 1 .. Len(pending) : x < pending[j]) => \A j \in 1 .. Len(pending') : x < pending'[j]
  BY <1>1, <1>2, OwedShrinks
<1>4. Incoming' = Incoming
  BY <1>1 DEF Incoming
<1>5. ASSUME open PROVE InOrder(Incoming') /\ Expected(Incoming)'
  <2>1. InOrder(Incoming) /\ Expected(Incoming)
    BY <1>5 DEF AnswersInv
  <2>2. ASSUME NEW i \in 1 .. Len(Incoming) PROVE IsExpected(Incoming[i])'
    <3> DEFINE l == Incoming[i]
    <3>1. IsExpected(l) /\ Incoming'[i] = l
      BY <1>4, <2>1 DEF Expected
    <3> HIDE DEF l
    <3> QED BY <1>1, <1>2, <1>3, <3>1 DEF IsExpected, HasHandler
  <2>3. Expected(Incoming)'
    BY <1>4, <2>2 DEF Expected
  <2> QED BY <1>4, <2>1, <2>3
<1>6. AnswersShift' /\ HandledInOrder' /\ HandledKnown' /\ Announced'
  BY <1>1, <1>2 DEF AnswersInv, AnswersShift, HandledInOrder, HandledKnown, Announced
<1> QED BY <1>2, <1>3, <1>5, <1>6 DEF AnswersInv

LEMMA AnswerInOrder ==
  ASSUME CoreInv, AnswersInv, Answer
  PROVE  AnswersInv'
<1> DEFINE l == [kind |-> "answer", of |-> Head(pending)]
<1>1. /\ pending # <<>> /\ payload = <<>> /\ Sends(l) /\ pending' = Tail(pending)
      /\ UNCHANGED <<script, payload, came>>
  BY DEF Answer
<1>2. UNCHANGED <<done, wrote, handled, open>>
  BY <1>1 DEF script
<1>3. /\ Owed' /\ Earliest' = Earliest /\ Head(pending) \in Job
      /\ Earliest <= Head(pending) /\ Head(pending) <= Len(wrote)
      /\ \A j \in 1 .. Len(pending') : Head(pending) < pending'[j]
      /\ \A x : (\A j \in 1 .. Len(pending) : x < pending[j]) =>
                   x < Head(pending) /\ \A j \in 1 .. Len(pending') : x < pending'[j]
  BY <1>1, <1>2, OwedShrinks
<1>4. l \in Line /\ l.kind = "answer" /\ l.of = Head(pending) /\ ~HasHandler(l)
  BY <1>3 DEF Line, HasHandler
<1> HIDE DEF l
<1>5. ASSUME open PROVE InOrder(Incoming') /\ Expected(Incoming)'
  <2>1. InOrder(Incoming) /\ Expected(Incoming)
    BY <1>5 DEF AnswersInv
  <2> DEFINE w == buffer
  <2>2. Incoming = w /\ Incoming' = Append(w, l) /\ w \in Seq(Line)
    <3>1. buffer \o half = buffer /\ buffer' \o half' = Append(buffer, l) /\ Append(buffer, l) \in Seq(Line)
      BY <1>1, <1>4, <1>5, SendsJoins
    <3>2. buffer \o <<>> = buffer /\ Append(buffer, l) \o <<>> = Append(buffer, l)
      BY <3>1, ConcatEmptySeq DEF CoreInv, TypeOK
    <3> QED BY <1>1, <3>1, <3>2 DEF Incoming, CoreInv, TypeOK
  <2> HIDE DEF w
  <2>3. \A i \in 1 .. Len(w) : IsExpected(w[i])
    BY <2>1, <2>2 DEF Expected
  <2>4. \A i \in 1 .. Len(w) : w[i].kind = "answer" => w[i].of < l.of
    BY <1>3, <1>4, <2>3 DEF IsExpected
  <2>5. InOrder(Append(w, l))
    BY <1>4, <2>1, <2>2, <2>4, AddInOrder
  <2>6. /\ Len(w) \in Nat /\ Len(Append(w, l)) = Len(w) + 1 /\ Append(w, l)[Len(w) + 1] = l
        /\ \A i \in 1 .. Len(w) : Append(w, l)[i] = w[i]
    BY <1>4, <2>2, AppendFacts
  <2>7. ASSUME NEW i \in 1 .. Len(Incoming') PROVE IsExpected(Incoming[i])'
    <3>1. i \in 1 .. Len(w) \/ i = Len(w) + 1
      BY <2>2, <2>6
    <3>2. CASE i = Len(w) + 1
      <4>1. Incoming'[i] = l
        BY <2>2, <2>6, <3>2
      <4> QED BY <1>2, <1>3, <1>4, <4>1 DEF IsExpected, HasHandler
    <3>3. CASE i \in 1 .. Len(w)
      <4> DEFINE x == w[i]
      <4>1. Incoming'[i] = x /\ IsExpected(x)
        BY <2>2, <2>3, <2>6, <3>3
      <4> HIDE DEF x
      <4> QED BY <1>1, <1>2, <1>3, <4>1 DEF IsExpected, HasHandler
    <3> QED BY <3>1, <3>2, <3>3
  <2>8. Expected(Incoming)'
    BY <2>7 DEF Expected
  <2> QED BY <2>2, <2>5, <2>8
<1>6. AnswersShift' /\ HandledInOrder' /\ HandledKnown' /\ Announced'
  BY <1>1, <1>2 DEF AnswersInv, AnswersShift, HandledInOrder, HandledKnown, Announced
<1> QED BY <1>2, <1>3, <1>5, <1>6 DEF AnswersInv

(* A line of the modem's own comes after all that came before. *)
LEMMA SendOwnInOrder ==
  ASSUME CoreInv, AnswersInv, SendOwn
  PROVE  AnswersInv'
<1> DEFINE noise  == [kind |-> "noise"]
           note   == [kind |-> "note", of |-> came + 1]
           header == [kind |-> "header", of |-> came + 1]
           pay    == [kind |-> "payload", of |-> came + 1]
<1>1. /\ came < MaxOwn /\ payload = <<>> /\ came' = came + 1 /\ UNCHANGED <<script, pending>>
      /\ \/ Sends(noise) /\ payload' = payload
         \/ Sends(note) /\ payload' = payload
         \/ Sends(header) /\ payload' = <<pay>>
  BY DEF SendOwn
<1>2. UNCHANGED <<done, wrote, handled, open>>
  BY <1>1 DEF script
<1>3. came \in Nat /\ came + 1 \in Own
  BY <1>1, CoreFacts, ATAssumption DEF Own
<1>4. /\ noise \in Line /\ note \in Line /\ header \in Line /\ pay \in Line
      /\ noise.kind = "noise" /\ note.kind = "note" /\ header.kind = "header" /\ pay.kind = "payload"
      /\ note.of = came + 1 /\ header.of = came + 1
  BY <1>3 DEF Line
<1> HIDE DEF noise, note, header, pay
<1>5. Earliest' = Earliest
  BY <1>2 DEF Earliest
<1> DEFINE w == buffer
<1>6. ASSUME open
      PROVE  /\ Incoming = w /\ w \in Seq(Line) /\ InOrder(w) /\ Len(w) \in Nat
             /\ \A i \in 1 .. Len(w) : w[i] \in Line /\ IsExpected(w[i])
             /\ \A l \in Line : Sends(l) /\ payload' = <<>> => Incoming' = Append(w, l)
             /\ \A l, p \in Line : Sends(l) /\ payload' = <<p>> => Incoming' = Append(Append(w, l), p)
  <2>1. w \in Seq(Line) /\ buffer \o half = buffer
    BY <1>1, <1>4, <1>6, SendsJoins DEF CoreInv, TypeOK
  <2>2. Incoming = w
    <3>1. buffer \o <<>> = buffer
      BY <2>1, ConcatEmptySeq
    <3> QED BY <1>1, <2>1, <3>1 DEF Incoming
  <2>3. InOrder(w) /\ Expected(w)
    BY <1>6, <2>2 DEF AnswersInv
  <2>4. ASSUME NEW l \in Line, Sends(l), payload' = <<>> PROVE Incoming' = Append(w, l)
    <3>1. buffer' \o half' = Append(buffer, l) /\ Append(buffer, l) \in Seq(Line)
      BY <1>6, <2>4, SendsJoins
    <3>2. Append(buffer, l) \o <<>> = Append(buffer, l)
      BY <3>1, ConcatEmptySeq
    <3> QED BY <2>4, <3>1, <3>2 DEF Incoming
  <2>5. ASSUME NEW l \in Line, NEW p \in Line, Sends(l), payload' = <<p>>
        PROVE  Incoming' = Append(Append(w, l), p)
    <3>1. buffer' \o half' = Append(buffer, l) /\ Append(buffer, l) \in Seq(Line)
      BY <1>6, <2>5, SendsJoins
    <3>2. Append(Append(buffer, l), p) = Append(buffer, l) \o <<p>>
      BY <3>1, AppendIsConcat
    <3> QED BY <2>5, <3>1, <3>2 DEF Incoming
  <2>6. Len(w) \in Nat /\ \A i \in 1 .. Len(w) : w[i] \in Line /\ IsExpected(w[i])
    BY <2>1, <2>3, LenProperties, ElementOfSeq DEF Expected
  <2> QED BY <2>1, <2>2, <2>3, <2>4, <2>5, <2>6
<1> HIDE DEF w
<1>7. ASSUME NEW x \in Line, IsExpected(x), HasHandler(x)
      PROVE  x.of < came + 1 /\ x.of <= came'
  <2>1. x.of \in Nat /\ x.of <= came
    BY <1>7, LineNumber DEF Own, IsExpected
  <2> QED BY <1>1, <1>3, <2>1
<1>8. \A j \in 1 .. Len(handled) : HasHandler(handled[j]) /\ handled[j].of <= came /\ handled[j].of < came + 1
  <2> TAKE j \in 1 .. Len(handled)
  <2>1. HasHandler(handled[j]) /\ handled[j].of <= came /\ handled[j] \in Line
    BY CoreFacts DEF AnswersInv, HandledKnown
  <2>2. handled[j].of \in Nat
    BY <2>1, LineNumber DEF Own
  <2> QED BY <1>3, <2>1, <2>2
<1>9. ASSUME NEW i, NEW x \in Line, Incoming'[i] = x,
             IsExpected(x) \/ (x.kind # "answer" /\ (HasHandler(x) => x.of = came + 1))
      PROVE  IsExpected(Incoming[i])'
  <2>1. CASE IsExpected(x)
    <3>1. HasHandler(x) => x.of <= came'
      BY <1>7, <2>1
    <3> QED BY <1>1, <1>2, <1>5, <1>9, <2>1, <3>1 DEF IsExpected, HasHandler
  <2>2. CASE x.kind # "answer" /\ (HasHandler(x) => x.of = came + 1)
    <3>1. HasHandler(x) => x.of <= came' /\ \A j \in 1 .. Len(handled) : handled[j].of < x.of
      BY <1>1, <1>3, <1>8, <2>2
    <3> QED BY <1>2, <1>9, <2>2, <3>1 DEF IsExpected, HasHandler
  <2> QED BY <1>9, <2>1, <2>2
<1>10. ASSUME open, NEW l \in Line, l \in {noise, note}, Incoming' = Append(w, l)
       PROVE  InOrder(Incoming') /\ Expected(Incoming)'
  <2>1. l.kind \notin {"answer", "header", "payload"} /\ (HasHandler(l) => l.of = came + 1)
    BY <1>4, <1>10 DEF HasHandler
  <2>2. \A i \in 1 .. Len(w) : w[i] \in Line /\ IsExpected(w[i])
    BY <1>6, <1>10
  <2>3. \A i \in 1 .. Len(w) : HasHandler(w[i]) => w[i].of < came + 1
    BY <1>7, <2>2
  <2>4. InOrder(Append(w, l))
    BY <1>6, <1>10, <2>1, <2>3, AddInOrder
  <2>5. /\ Len(w) \in Nat /\ Len(Append(w, l)) = Len(w) + 1 /\ Append(w, l)[Len(w) + 1] = l
        /\ \A i \in 1 .. Len(w) : Append(w, l)[i] = w[i]
    BY <1>6, <1>10, AppendFacts
  <2>6. \A i \in 1 .. Len(Incoming') : i \in 1 .. Len(w) \/ i = Len(w) + 1
    BY <1>10, <2>5
  <2>7. ASSUME NEW i \in 1 .. Len(Incoming') PROVE IsExpected(Incoming[i])'
    <3>1. CASE i = Len(w) + 1
      BY <1>9, <1>10, <2>1, <2>5, <3>1
    <3>2. CASE i \in 1 .. Len(w)
      BY <1>9, <1>10, <2>2, <2>5, <3>2
    <3> QED BY <2>6, <3>1, <3>2
  <2> QED BY <1>10, <2>4, <2>7 DEF Expected
<1>11. ASSUME open, Incoming' = Append(Append(w, header), pay)
       PROVE  InOrder(Incoming') /\ Expected(Incoming)'
  <2> DEFINE b == Append(w, header)
  <2>1. /\ header.kind # "answer" /\ (HasHandler(header) => header.of = came + 1)
        /\ pay.kind # "answer" /\ ~HasHandler(pay)
    BY <1>4 DEF HasHandler
  <2>2. \A i \in 1 .. Len(w) : w[i] \in Line /\ IsExpected(w[i])
    BY <1>6, <1>11
  <2>3. \A i \in 1 .. Len(w) : HasHandler(w[i]) => w[i].of < header.of
    BY <1>4, <1>7, <2>2
  <2>4. InOrder(Incoming')
    BY <1>4, <1>6, <1>11, <2>3, AddPairInOrder
  <2>5. /\ Len(w) \in Nat /\ Len(b) = Len(w) + 1 /\ b[Len(w) + 1] = header /\ b \in Seq(Line)
        /\ \A i \in 1 .. Len(w) : b[i] = w[i]
    BY <1>4, <1>6, <1>11, AppendFacts
  <2>6. Incoming' = Append(b, pay)
    BY <1>11
  <2> HIDE DEF b
  <2>7. /\ Len(Append(b, pay)) = Len(b) + 1 /\ Append(b, pay)[Len(b) + 1] = pay
        /\ \A i \in 1 .. Len(b) : Append(b, pay)[i] = b[i]
    BY <1>4, <2>5, AppendFacts
  <2>8. /\ Len(Incoming') = Len(w) + 2 /\ Incoming'[Len(w) + 1] = header /\ Incoming'[Len(w) + 2] = pay
        /\ \A i \in 1 .. Len(w) : Incoming'[i] = w[i]
    BY <2>5, <2>6, <2>7
  <2>9. \A i \in 1 .. Len(Incoming') : i \in 1 .. Len(w) \/ i = Len(w) + 1 \/ i = Len(w) + 2
    BY <2>5, <2>8
  <2>10. ASSUME NEW i \in 1 .. Len(Incoming') PROVE IsExpected(Incoming[i])'
    <3>1. CASE i = Len(w) + 1
      BY <1>4, <1>9, <2>1, <2>8, <3>1
    <3>2. CASE i = Len(w) + 2
      BY <1>4, <1>9, <2>1, <2>8, <3>2
    <3>3. CASE i \in 1 .. Len(w)
      BY <1>9, <2>2, <2>8, <3>3
    <3> QED BY <2>9, <3>1, <3>2, <3>3
  <2> QED BY <2>4, <2>10 DEF Expected
<1>12. open' => InOrder(Incoming') /\ Expected(Incoming)'
  <2>1. SUFFICES ASSUME open PROVE InOrder(Incoming') /\ Expected(Incoming)'
    BY <1>2
  <2>2. CASE payload' = payload /\ (Sends(noise) \/ Sends(note))
    BY <1>1, <1>4, <1>6, <1>10, <2>1, <2>2
  <2>3. CASE payload' = <<pay>> /\ Sends(header)
    BY <1>4, <1>6, <1>11, <2>1, <2>3
  <2> QED BY <1>1, <2>2, <2>3
<1>13. Announced'
  <2>1. payload' = <<>> \/ payload' = <<pay>>
    BY <1>1
  <2> QED BY <1>4, <2>1 DEF Announced
<1>14. HandledKnown'
  <2> SUFFICES ASSUME NEW j \in 1 .. Len(handled')
               PROVE  HasHandler(handled'[j]) /\ handled'[j].of <= came'
    BY DEF HandledKnown, HasHandler
  <2>1. HasHandler(handled[j]) /\ handled[j].of < came + 1 /\ handled[j] \in Line
    BY <1>2, <1>8, CoreFacts
  <2>2. handled[j].of \in Nat
    BY <2>1, LineNumber DEF Own
  <2>3. handled[j].of <= came'
    BY <1>1, <1>3, <2>1, <2>2
  <2> QED BY <1>2, <2>1, <2>3 DEF HasHandler
<1>15. AnswersShift' /\ HandledInOrder' /\ Owed'
  BY <1>1, <1>2, <1>5 DEF AnswersInv, AnswersShift, HandledInOrder, Owed
<1> QED BY <1>12, <1>13, <1>14, <1>15 DEF AnswersInv

LEMMA AnswersInit == Init => AnswersInv
<1> SUFFICES ASSUME Init PROVE AnswersInv
  OBVIOUS
<1>1. Len(<<>>) = 0 /\ DOMAIN <<>> = {} /\ (<<>> \o <<>>) \o <<>> = <<>>
  OBVIOUS
<1>2. Incoming = <<>>
  BY <1>1 DEF Init, Incoming
<1>3. InOrder(Incoming) /\ Expected(Incoming)
  BY <1>1, <1>2 DEF InOrder, Expected
<1> QED BY <1>1, <1>3
     DEF Init, AnswersInv, AnswersShift, HandledInOrder, Owed, HandledKnown, Announced

LEMMA AnswersStep == CoreInv /\ AnswersInv /\ [Next]_vars => AnswersInv'
<1> SUFFICES ASSUME CoreInv, AnswersInv, [Next]_vars PROVE AnswersInv'
  OBVIOUS
<1>1. ASSUME NEW w \in {"line", "time"}, Send(w) PROVE AnswersInv'
  BY <1>1, SameIncoming DEF Send, modem, Incoming, AnswersInv, Announced
<1>2. ASSUME Close PROVE AnswersInv'
  <2>1. ~open' /\ Announced' /\ UNCHANGED <<pending, came, wrote, done, handled>>
    BY <1>2 DEF Close, modem, AnswersInv, Announced
  <2> QED BY <2>1, SameIncoming
<1>3. ASSUME Modem PROVE AnswersInv'
  BY <1>3, RestInOrder, AnswerInOrder, IgnoreInOrder, SendOwnInOrder, SendPayloadInOrder DEF Modem
<1>4. ASSUME UNCHANGED vars PROVE AnswersInv'
  BY <1>4, SameIncoming DEF vars, Incoming, AnswersInv, Announced
<1> QED BY <1>1, <1>2, <1>3, <1>4, ProcessInOrder DEF Next

-----------------------------------------------------------------------------
(* What holds of every behaviour. *)

LEMMA Inductive == Spec => [](CoreInv /\ AnswersInv)
<1>1. Init => CoreInv /\ AnswersInv
  BY CoreInit, AnswersInit
<1>2. CoreInv /\ AnswersInv /\ [Next]_vars => (CoreInv /\ AnswersInv)'
  BY CoreStep, AnswersStep
<1> QED BY <1>1, <1>2, PTL DEF Spec

(* The queue, the buffer and the job in flight have their types, the time of
   a job never runs past the limit by more than one turn of process(). *)
THEOREM ATTypeCorrect == Spec => []TypeOK
<1>1. CoreInv /\ AnswersInv => TypeOK
  BY DEF CoreInv
<1> QED BY <1>1, Inductive, PTL

(* Commands are written in the order of send(), each once and the next only
   when the one before completed, and their callbacks are called in that
   order, for any number of jobs and however the modem answers. *)
THEOREM SequentialAlways == Spec => []Sequential
<1>1. CoreInv /\ AnswersInv => Sequential
  BY DEF CoreInv
<1> QED BY <1>1, Inductive, PTL

(* A job completes with a line that is an answer, to its own command or to one
   that is behind by no more than the jobs before it that were given up. *)
THEOREM AnswersShiftAlways == Spec => []AnswersShift
<1>1. CoreInv /\ AnswersInv => AnswersShift
  BY DEF AnswersInv
<1> QED BY <1>1, Inductive, PTL

(* Handlers are given the lines of the modem's own in the order it sent them,
   none twice. *)
THEOREM HandledInOrderAlways == Spec => []HandledInOrder
<1>1. CoreInv /\ AnswersInv => HandledInOrder
  BY DEF AnswersInv
<1> QED BY <1>1, Inductive, PTL
=============================================================================
