----------------------------- MODULE ReplProofs -----------------------------
(***************************************************************************)
(* Theorems about Repl: the editor's types and bounds, what the terminal   *)
(* shows and what the history holds, for every alphabet and every size of  *)
(* the line and the history.                                               *)
(***************************************************************************)
EXTENDS Repl, SequenceTheorems, TLAPS

(* A recalled line fits in the buffer it is copied to. *)
HistoryFits == \A i \in 1 .. Len(history) : Len(history[i]) < BufferSize

(* The inductive invariant. *)
ReplInv == TypeOK /\ HistoryFits /\ ShownIsHeld /\ HistoryIsLog

-----------------------------------------------------------------------------
(* Removing a character shortens the line by one. *)
LEMMA RemoveAtLine ==
  ASSUME NEW s \in Line, NEW i \in 1 .. Len(s)
  PROVE  RemoveAt(s, i) \in Line /\ Len(RemoveAt(s, i)) = Len(s) - 1
<1> DEFINE left  == SubSeq(s, 1, i - 1)
           right == SubSeq(s, i + 1, Len(s))
<1>1. Len(s) \in Nat /\ \A j \in 1 .. Len(s) : s[j] \in Char
  BY LenProperties, ElementOfSeq DEF Line
<1>2. left \in Line /\ Len(left) = i - 1
  BY <1>1, SubSeqProperties DEF Line
<1>3. right \in Line /\ Len(right) = Len(s) - i
  BY <1>1, SubSeqProperties DEF Line
<1>4. RemoveAt(s, i) = left \o right
  BY DEF RemoveAt
<1> HIDE DEF left, right
<1>5. left \o right \in Line /\ Len(left \o right) = Len(left) + Len(right)
  BY <1>2, <1>3, ConcatProperties DEF Line
<1> QED
  BY <1>1, <1>2, <1>3, <1>4, <1>5

(* Inserting a character makes the line longer by one. *)
LEMMA InsertAtLine ==
  ASSUME NEW s \in Line, NEW i \in 1 .. Len(s) + 1, NEW ch \in Char
  PROVE  InsertAt(s, i, ch) \in Line /\ Len(InsertAt(s, i, ch)) = Len(s) + 1
<1> DEFINE left  == SubSeq(s, 1, i - 1)
           right == SubSeq(s, i, Len(s))
<1>1. Len(s) \in Nat /\ \A j \in 1 .. Len(s) : s[j] \in Char
  BY LenProperties, ElementOfSeq DEF Line
<1>2. left \in Line /\ Len(left) = i - 1
  BY <1>1, SubSeqProperties DEF Line
<1>3. right \in Line /\ Len(right) = Len(s) - i + 1
  BY <1>1, SubSeqProperties DEF Line
<1>4. <<ch>> \in Line /\ Len(<<ch>>) = 1
  BY DEF Line
<1> DEFINE one  == <<ch>>
           most == left \o one
<1>5. InsertAt(s, i, ch) = most \o right
  BY DEF InsertAt
<1>6. one \in Line /\ Len(one) = 1
  BY <1>4
<1> HIDE DEF left, right, one
<1>7. left \o one \in Line /\ Len(left \o one) = Len(left) + Len(one)
  BY <1>2, <1>6, ConcatProperties DEF Line
<1>8. most \in Line /\ Len(most) = i
  BY <1>1, <1>2, <1>6, <1>7
<1> HIDE DEF most
<1>9. most \o right \in Line /\ Len(most \o right) = Len(most) + Len(right)
  BY <1>3, <1>8, ConcatProperties DEF Line
<1> QED
  BY <1>1, <1>3, <1>5, <1>8, <1>9

(* Printing the line again from the saved position leaves exactly the line,
   if no more than the line was there. *)
LEMMA RedrawShows ==
  ASSUME NEW s \in [text : Line, at : Int], NEW text \in Line,
         Len(s.text) <= Len(text)
  PROVE  Redraw(s, text) = [text |-> text, at |-> Len(text)]
<1> DEFINE u == MoveTo(s, 0)
<1>1. u.text = s.text /\ u.at = 0
  BY DEF MoveTo
<1>2. Len(s.text) \in Nat /\ Len(text) \in Nat
  BY LenProperties DEF Line
<1>3. SubSeq(s.text, 1, 0) = <<>> /\ SubSeq(s.text, 0 + Len(text) + 1, Len(s.text)) = <<>>
  BY <1>2, SubSeqEmpty
<1>4. (<<>> \o text) \o <<>> = text
  BY ConcatEmptySeq DEF Line
<1> HIDE DEF u
<1>5. Write(u, text) = [text |-> (<<>> \o text) \o <<>>, at |-> 0 + Len(text)]
  BY <1>1, <1>3 DEF Write
<1> QED
  BY <1>2, <1>4, <1>5 DEF Redraw, u

(* A character printed at the end of the line that is shown. *)
LEMMA WriteAtEnd ==
  ASSUME NEW s \in Line, NEW ch \in Char
  PROVE  Write([text |-> s, at |-> Len(s)], <<ch>>)
           = [text |-> InsertAt(s, Len(s) + 1, ch), at |-> Len(s) + 1]
<1> DEFINE u == [text |-> s, at |-> Len(s)]
           one == <<ch>>
<1>1. Len(s) \in Nat /\ Len(one) = 1 /\ u.text = s /\ u.at = Len(s)
  BY LenProperties DEF Line
<1>2. SubSeq(s, Len(s) + 1 + 1, Len(s)) = <<>> /\ SubSeq(s, Len(s) + 1, Len(s)) = <<>>
  BY <1>1, SubSeqEmpty
<1>3. Len(s) + 1 - 1 = Len(s)
  BY <1>1
<1>4. InsertAt(s, Len(s) + 1, ch) = (SubSeq(s, 1, Len(s)) \o one) \o <<>>
  BY <1>2, <1>3 DEF InsertAt
<1> HIDE DEF one, u
<1>5. Write(u, one) = [text |-> (SubSeq(s, 1, Len(s)) \o one) \o <<>>, at |-> Len(s) + 1]
  BY <1>1, <1>2 DEF Write
<1> QED
  BY <1>4, <1>5 DEF one, u

(* What is left of the cursor is no longer than the cursor is far. *)
LEMMA EraseRightShortens ==
  ASSUME NEW s \in Line, NEW p \in 0 .. Len(s)
  PROVE  /\ EraseRight([text |-> s, at |-> p]) \in [text : Line, at : Int]
         /\ Len(EraseRight([text |-> s, at |-> p]).text) = p
<1>1. Len(s) \in Nat /\ \A j \in 1 .. Len(s) : s[j] \in Char
  BY LenProperties, ElementOfSeq DEF Line
<1>2. SubSeq(s, 1, p) \in Line /\ Len(SubSeq(s, 1, p)) = p
  BY <1>1, SubSeqProperties DEF Line
<1> DEFINE left == SubSeq(s, 1, p)
<1>3. EraseRight([text |-> s, at |-> p]) = [text |-> left, at |-> p]
  BY DEF EraseRight
<1>4. left \in Line /\ Len(left) = p
  BY <1>2
<1> HIDE DEF left
<1> QED
  BY <1>3, <1>4

(* A sequence with one more element. *)
LEMMA AppendLine ==
  ASSUME NEW s \in Seq(Line), NEW cmd \in Line
  PROVE  /\ Append(s, cmd) \in Seq(Line) /\ Len(Append(s, cmd)) = Len(s) + 1
         /\ \A i \in 1 .. Len(s) + 1 :
              Append(s, cmd)[i] = IF i <= Len(s) THEN s[i] ELSE cmd
BY LenProperties

(* What history_push makes of a history. *)
LEMMA PushedHistory ==
  ASSUME history \in Seq(Line), Len(history) <= HistorySize, NEW cmd \in Line
  PROVE  /\ Pushed(cmd) \in Seq(Line)
         /\ Len(history) < HistorySize => Pushed(cmd) = Append(history, cmd)
         /\ Len(history) = HistorySize =>
              /\ Len(Pushed(cmd)) = HistorySize
              /\ \A i \in 1 .. HistorySize :
                   Pushed(cmd)[i] = IF i < HistorySize THEN history[i + 1] ELSE cmd
<1>1. Len(history) \in Nat /\ HistorySize \in Nat \ {0}
  BY LenProperties, ReplAssumption
<1>2. ASSUME Len(history) < HistorySize
      PROVE  Pushed(cmd) = Append(history, cmd) /\ Pushed(cmd) \in Seq(Line)
  BY <1>2, AppendLine DEF Pushed
<1>3. ASSUME Len(history) = HistorySize
      PROVE  /\ Pushed(cmd) \in Seq(Line)
             /\ Len(Pushed(cmd)) = HistorySize
             /\ \A i \in 1 .. HistorySize :
                  Pushed(cmd)[i] = IF i < HistorySize THEN history[i + 1] ELSE cmd
  <2> DEFINE rest == Tail(history)
  <2>1. Pushed(cmd) = Append(rest, cmd)
    BY <1>1, <1>3 DEF Pushed
  <2>2. history # <<>>
    BY <1>1, <1>3, EmptySeq
  <2>3. /\ rest \in Seq(Line) /\ Len(rest) = HistorySize - 1
        /\ \A i \in 1 .. HistorySize - 1 : rest[i] = history[i + 1]
    BY <1>1, <1>3, <2>2, HeadTailProperties
  <2> HIDE DEF rest
  <2>4. /\ Append(rest, cmd) \in Seq(Line) /\ Len(Append(rest, cmd)) = Len(rest) + 1
        /\ \A i \in 1 .. Len(rest) + 1 :
             Append(rest, cmd)[i] = IF i <= Len(rest) THEN rest[i] ELSE cmd
    BY <2>3, AppendLine
  <2> DEFINE new == Append(rest, cmd)
  <2> HIDE DEF new
  <2>5. /\ new \in Seq(Line) /\ Len(new) = HistorySize
        /\ \A i \in 1 .. HistorySize :
             new[i] = IF i < HistorySize THEN history[i + 1] ELSE cmd
    BY <1>1, <2>3, <2>4 DEF new
  <2> QED
    BY <2>1, <2>5 DEF new
<1> QED
  BY <1>1, <1>2, <1>3

-----------------------------------------------------------------------------
LEMMA InitEstablishesInv == Init => ReplInv
<1> SUFFICES ASSUME Init PROVE ReplInv
  OBVIOUS
<1>1. <<>> \in Line /\ <<>> \in Seq(Line) /\ Len(<<>>) = 0
  BY EmptySeq DEF Line
<1> QED
  BY <1>1, ReplAssumption
     DEF Init, ReplInv, TypeOK, HistoryFits, ShownIsHeld, HistoryIsLog, Garbled

(* A key that changes the line or the cursor and redraws what changed. *)
LEMMA ShowsInv ==
  ASSUME ReplInv, NEW s, Shows(s),
         UNCHANGED <<echo, history, ran>>, recalled' \in 0 .. Len(history),
         buffer' \in Line, Len(buffer') < BufferSize, position' \in 0 .. Len(buffer'),
         echo /\ screen # Garbled => s = [text |-> buffer', at |-> position']
  PROVE  ReplInv'
<1>1. Garbled \in [text : Line, at : Int] /\ Len(buffer') \in Nat
  BY EmptySeq, LenProperties DEF Garbled, Line
<1>2. screen' \in [text : Line, at : Int] /\ ShownIsHeld'
  BY <1>1 DEF Shows, ShownIsHeld
<1> QED
  BY <1>2 DEF ReplInv, TypeOK, HistoryFits, HistoryIsLog

(* A key that leaves the line as it is. *)
LEMMA KeepsInv ==
  ASSUME ReplInv, UNCHANGED <<echo, line, history, recalled, ran>>,
         screen' = Garbled \/ (screen' = Prompt(buffer) /\ buffer = <<>>)
  PROVE  ReplInv'
<1>1. <<>> \in Line /\ Len(<<>>) = 0
  BY EmptySeq DEF Line
<1>2. screen' \in [text : Line, at : Int]
  BY <1>1 DEF Garbled, Prompt, ReplInv, TypeOK
<1>3. ShownIsHeld'
  BY <1>1 DEF line, Prompt, ReplInv, TypeOK, ShownIsHeld
<1> QED
  BY <1>2, <1>3 DEF line, ReplInv, TypeOK, HistoryFits, HistoryIsLog

LEMMA RunInv ==
  ASSUME ReplInv, Run PROVE ReplInv'
<1> DEFINE h == Pushed(buffer)
           r == Append(ran, buffer)
<1>1. /\ history \in Seq(Line) /\ ran \in Seq(Line) /\ buffer \in Line
      /\ Len(history) \in Nat /\ Len(ran) \in Nat /\ HistorySize \in Nat \ {0}
      /\ Len(history) <= HistorySize /\ Len(buffer) < BufferSize
  BY LenProperties, ReplAssumption DEF ReplInv, TypeOK
<1>2. /\ r \in Seq(Line) /\ Len(r) = Len(ran) + 1
      /\ \A i \in 1 .. Len(ran) + 1 : r[i] = IF i <= Len(ran) THEN ran[i] ELSE buffer
  BY <1>1, AppendLine
<1>3. /\ Len(history) = IF Len(ran) < HistorySize THEN Len(ran) ELSE HistorySize
      /\ \A i \in 1 .. Len(history) : history[i] = ran[Len(ran) - Len(history) + i]
      /\ \A i \in 1 .. Len(history) : Len(history[i]) < BufferSize
  BY DEF ReplInv, HistoryIsLog, HistoryFits
<1> HIDE DEF r
<1>4. ASSUME Len(history) < HistorySize
      PROVE  /\ h \in Seq(Line) /\ Len(h) = Len(history) + 1
             /\ \A i \in 1 .. Len(history) + 1 :
                  h[i] = IF i <= Len(history) THEN history[i] ELSE buffer
  BY <1>1, <1>4, PushedHistory, AppendLine
<1>5. ASSUME Len(history) = HistorySize
      PROVE  /\ h \in Seq(Line) /\ Len(h) = HistorySize
             /\ \A i \in 1 .. HistorySize :
                  h[i] = IF i < HistorySize THEN history[i + 1] ELSE buffer
  BY <1>1, <1>5, PushedHistory
<1> HIDE DEF h
<1>6. /\ h \in Seq(Line) /\ Len(h) \in Nat /\ Len(h) <= HistorySize
      /\ Len(h) = IF Len(r) < HistorySize THEN Len(r) ELSE HistorySize
  BY <1>1, <1>2, <1>3, <1>4, <1>5
<1>7. \A i \in 1 .. Len(h) : h[i] = r[Len(r) - Len(h) + i]
  <2> TAKE i \in 1 .. Len(h)
  <2>1. ASSUME Len(history) < HistorySize PROVE h[i] = r[Len(r) - Len(h) + i]
    <3>0. Len(history) = Len(ran) /\ Len(h) = Len(ran) + 1 /\ Len(r) = Len(ran) + 1
      BY <1>1, <1>2, <1>3, <1>4, <2>1
    <3>1. /\ Len(history) = Len(ran) /\ Len(r) - Len(h) + i = i
          /\ i \in 1 .. Len(ran) + 1 /\ Len(ran) - Len(history) + i = i
      BY <1>1, <3>0
    <3>2. ASSUME i <= Len(ran) PROVE history[i] = ran[i]
      <4>1. i \in 1 .. Len(history)
        BY <1>1, <3>1, <3>2
      <4>2. history[i] = ran[Len(ran) - Len(history) + i]
        BY <1>3, <4>1
      <4> QED
        BY <3>1, <4>2
    <3> QED
      BY <1>2, <1>4, <2>1, <3>1, <3>2
  <2>2. ASSUME Len(history) = HistorySize PROVE h[i] = r[Len(r) - Len(h) + i]
    <3>1. /\ Len(h) = HistorySize /\ Len(ran) >= HistorySize
          /\ Len(r) - Len(h) + i \in 1 .. Len(ran) + 1
          /\ Len(r) - Len(h) + i = Len(ran) - Len(history) + (i + 1)
      <4>1. /\ Len(h) = HistorySize /\ Len(ran) >= HistorySize
            /\ Len(r) = Len(ran) + 1
        BY <1>1, <1>2, <1>3, <1>5, <2>2
      <4> QED
        BY <1>1, <2>2, <4>1
    <3>2. ASSUME i < HistorySize PROVE h[i] = r[Len(r) - Len(h) + i]
      <4>1. h[i] = history[i + 1] /\ i + 1 \in 1 .. Len(history)
        BY <1>1, <1>5, <2>2, <3>2
      <4>2. history[i + 1] = ran[Len(ran) - Len(history) + (i + 1)]
        BY <1>3, <4>1
      <4>3. Len(r) - Len(h) + i <= Len(ran)
        BY <1>1, <2>2, <3>1, <3>2
      <4> QED
        BY <1>2, <3>1, <4>1, <4>2, <4>3
    <3>3. ASSUME i = HistorySize PROVE h[i] = r[Len(r) - Len(h) + i]
      <4>1. h[i] = buffer
        BY <1>1, <1>5, <2>2, <3>3
      <4>2. Len(r) - Len(h) + i = Len(ran) + 1
        BY <1>1, <1>2, <3>1, <3>3
      <4> QED
        BY <1>1, <1>2, <4>1, <4>2
    <3> QED
      BY <1>1, <3>1, <3>2, <3>3
  <2> QED
    BY <1>1, <2>1, <2>2
<1>8. \A i \in 1 .. Len(h) : Len(h[i]) < BufferSize
  <2> TAKE i \in 1 .. Len(h)
  <2>1. ASSUME Len(history) < HistorySize PROVE Len(h[i]) < BufferSize
    <3>1. i \in 1 .. Len(history) + 1
      BY <1>4, <1>6, <2>1
    <3>2. i <= Len(history) => i \in 1 .. Len(history)
      BY <1>1, <3>1
    <3> QED
      BY <1>1, <1>3, <1>4, <2>1, <3>1, <3>2
  <2>2. ASSUME Len(history) = HistorySize PROVE Len(h[i]) < BufferSize
    <3>1. i \in 1 .. HistorySize
      BY <1>5, <1>6, <2>2
    <3>2. i < HistorySize => i + 1 \in 1 .. Len(history)
      BY <1>1, <2>2, <3>1
    <3> QED
      BY <1>1, <1>3, <1>5, <2>2, <3>1, <3>2
  <2> QED
    BY <1>1, <2>1, <2>2
<1>9. /\ history' = h /\ ran' = r /\ recalled' = Len(h) /\ buffer' = <<>> /\ position' = 0
      /\ Len(ran) < MaxLines /\ echo' \in BOOLEAN
      /\ screen' = IF echo /\ echo' THEN Prompt(<<>>) ELSE Garbled
  BY DEF Run, h, r, ReplInv, TypeOK
<1>10. <<>> \in Line /\ Len(<<>>) = 0 /\ BufferSize \in Nat \ {0} /\ MaxLines \in Nat
  BY EmptySeq, ReplAssumption DEF Line
<1>11. screen' \in [text : Line, at : Int] /\ ShownIsHeld'
  BY <1>9, <1>10 DEF Prompt, Garbled, ShownIsHeld
<1>12. TypeOK'
  BY <1>1, <1>2, <1>6, <1>9, <1>10, <1>11 DEF TypeOK
<1>13. HistoryFits' /\ HistoryIsLog'
  BY <1>6, <1>7, <1>8, <1>9 DEF HistoryFits, HistoryIsLog
<1> QED
  BY <1>11, <1>12, <1>13 DEF ReplInv

LEMMA NextPreservesInv == ReplInv /\ [Next]_vars => ReplInv'
<1> SUFFICES ASSUME ReplInv, [Next]_vars PROVE ReplInv'
  OBVIOUS
<1> DEFINE n     == Len(buffer)
           shown == [text |-> buffer, at |-> position]
<1>1. /\ buffer \in Line /\ n \in Nat /\ n < BufferSize
      /\ position \in 0 .. n /\ BufferSize \in Nat \ {0}
      /\ Len(history) \in Nat /\ recalled \in 0 .. Len(history)
      /\ history \in Seq(Line)
  BY LenProperties, ReplAssumption DEF ReplInv, TypeOK, Line
<1>2. echo /\ screen # Garbled => screen = shown
  BY DEF ReplInv, ShownIsHeld
<1>3. ASSUME NEW p \in 0 .. n, GoTo(p) PROVE ReplInv'
  <2>1. MoveTo(shown, p) = [text |-> buffer, at |-> p]
    BY DEF MoveTo
  <2>2. /\ Shows(MoveTo(screen, p)) /\ UNCHANGED <<echo, history, ran>>
        /\ recalled' = recalled /\ buffer' = buffer /\ position' = p
    BY <1>3 DEF GoTo
  <2>3. echo /\ screen # Garbled => MoveTo(screen, p) = [text |-> buffer', at |-> position']
    BY <1>2, <2>1, <2>2
  <2> QED
    BY <1>1, <2>2, <2>3, ShowsInv
<1>4. ASSUME NEW ch \in Char, Type(ch) PROVE ReplInv'
  <2> DEFINE more == InsertAt(buffer, position + 1, ch)
             s    == IF position = n THEN Write(screen, <<ch>>)
                     ELSE MoveTo(Redraw(screen, more), position + 1)
  <2>1. more \in Line /\ Len(more) = n + 1
    BY <1>1, InsertAtLine
  <2>2. /\ buffer' = more /\ position' = position + 1 /\ recalled' = recalled
        /\ n < BufferSize - 1 /\ UNCHANGED <<echo, history, ran>>
    BY <1>4 DEF Type, Fits
  <2>3. Shows(s)
    BY <1>4, <2>2 DEF Type
  <2>4. ASSUME echo, screen # Garbled PROVE s = [text |-> more, at |-> position + 1]
    <3>1. ASSUME position = n PROVE Write(shown, <<ch>>) = [text |-> more, at |-> position + 1]
      BY <1>1, <3>1, WriteAtEnd
    <3>2. shown \in [text : Line, at : Int] /\ Len(shown.text) <= Len(more)
      BY <1>1, <2>1
    <3> HIDE DEF shown, more
    <3>3. Redraw(shown, more) = [text |-> more, at |-> Len(more)]
      BY <2>1, <3>2, RedrawShows
    <3>4. MoveTo(Redraw(shown, more), position + 1) = [text |-> more, at |-> position + 1]
      BY <3>3 DEF MoveTo
    <3> QED
      BY <1>2, <2>4, <3>1, <3>4
  <2> HIDE DEF more, s
  <2> QED
    BY <1>1, <2>1, <2>2, <2>3, <2>4, ShowsInv
<1>5. ASSUME Backspace PROVE ReplInv'
  <2> DEFINE less == RemoveAt(buffer, position)
             kept == EraseRight(MoveTo(screen, screen.at - 1))
             s    == MoveTo(Redraw(kept, less), position - 1)
  <2>1. position \in 1 .. n /\ less \in Line /\ Len(less) = n - 1
    BY <1>1, <1>5, RemoveAtLine DEF Backspace
  <2>2. /\ buffer' = less /\ position' = position - 1 /\ recalled' = recalled
        /\ UNCHANGED <<echo, history, ran>> /\ Shows(s)
    BY <1>5 DEF Backspace
  <2>3. ASSUME echo, screen # Garbled PROVE s = [text |-> less, at |-> position - 1]
    <3>1. MoveTo(screen, screen.at - 1) = [text |-> buffer, at |-> position - 1]
      BY <1>2, <2>3 DEF MoveTo
    <3>2. position - 1 \in 0 .. n
      BY <1>1, <2>1
    <3>3. kept \in [text : Line, at : Int] /\ Len(kept.text) = position - 1
      BY <1>1, <3>1, <3>2, EraseRightShortens
    <3> HIDE DEF kept, less
    <3>4. Len(kept.text) <= Len(less)
      BY <1>1, <2>1, <3>3
    <3> HIDE DEF n
    <3>5. Redraw(kept, less) = [text |-> less, at |-> Len(less)]
      BY <2>1, <3>3, <3>4, RedrawShows
    <3> QED
      BY <3>5 DEF MoveTo
  <2> HIDE DEF less, s
  <2> QED
    BY <1>1, <2>1, <2>2, <2>3, ShowsInv
<1>6. ASSUME Delete PROVE ReplInv'
  <2> DEFINE less == RemoveAt(buffer, position + 1)
             kept == EraseRight(screen)
             s    == MoveTo(Redraw(kept, less), position)
  <2>1. position + 1 \in 1 .. n /\ less \in Line /\ Len(less) = n - 1
    BY <1>1, <1>6, RemoveAtLine DEF Delete
  <2>2. /\ buffer' = less /\ position' = position /\ recalled' = recalled
        /\ UNCHANGED <<echo, history, ran>> /\ Shows(s)
    BY <1>6 DEF Delete
  <2>3. ASSUME echo, screen # Garbled PROVE s = [text |-> less, at |-> position]
    <3>1. kept \in [text : Line, at : Int] /\ Len(kept.text) = position
      BY <1>1, <1>2, <2>3, EraseRightShortens
    <3> HIDE DEF kept, less
    <3>2. Redraw(kept, less) = [text |-> less, at |-> Len(less)]
      BY <1>1, <2>1, <3>1, RedrawShows
    <3> QED
      BY <3>2 DEF MoveTo
  <2> HIDE DEF less, s
  <2> QED
    BY <1>1, <2>1, <2>2, <2>3, ShowsInv
<1>7. ASSUME NEW p \in 0 .. Len(history), Recall(p) PROVE ReplInv'
  <2> DEFINE cmd == IF p < Len(history) THEN history[p + 1] ELSE <<>>
             s   == [text |-> cmd, at |-> Len(cmd)]
  <2>1. /\ recalled' = p /\ buffer' = cmd /\ position' = Len(cmd) /\ Shows(s)
        /\ UNCHANGED <<echo, history, ran>>
    BY <1>7 DEF Recall
  <2>2. cmd \in Line /\ Len(cmd) < BufferSize
    <3>1. p < Len(history) => p + 1 \in 1 .. Len(history)
      BY <1>1
    <3>2. \A i \in 1 .. Len(history) : history[i] \in Line /\ Len(history[i]) < BufferSize
      BY <1>1, ElementOfSeq DEF ReplInv, HistoryFits
    <3>3. <<>> \in Line /\ Len(<<>>) < BufferSize
      BY <1>1, EmptySeq DEF Line
    <3> QED
      BY <3>1, <3>2, <3>3
  <2> HIDE DEF cmd
  <2>3. Len(cmd) \in Nat /\ Len(cmd) \in 0 .. Len(cmd)
    BY <2>2, LenProperties DEF Line
  <2>4. s = [text |-> buffer', at |-> position']
    BY <2>1
  <2> HIDE DEF s
  <2> QED
    BY <2>1, <2>2, <2>3, <2>4, ShowsInv
<1>8. ASSUME Overflow \/ Disturb PROVE ReplInv'
  BY <1>8, KeepsInv DEF Overflow, Disturb
<1>9. ASSUME RunNothing \/ (buffer = <<>> /\ Reset) PROVE ReplInv'
  BY <1>9, KeepsInv DEF RunNothing, Reset
<1>10. ASSUME Run PROVE ReplInv'
  BY <1>10, RunInv
<1>11. ASSUME Home \/ End \/ Left \/ Right PROVE ReplInv'
  <2>1. /\ 0 \in 0 .. n /\ n \in 0 .. n
        /\ position > 0 => position - 1 \in 0 .. n
        /\ position < n => position + 1 \in 0 .. n
    BY <1>1
  <2> QED
    BY <1>3, <1>11, <2>1 DEF Home, End, Left, Right
<1>12. ASSUME Up \/ Down PROVE ReplInv'
  <2>1. /\ recalled > 0 => recalled - 1 \in 0 .. Len(history)
        /\ recalled < Len(history) => recalled + 1 \in 0 .. Len(history)
    BY <1>1
  <2> QED
    BY <1>7, <1>12, <2>1 DEF Up, Down
<1>13. ASSUME UNCHANGED vars PROVE ReplInv'
  BY <1>13 DEF ReplInv, vars, TypeOK, HistoryFits, ShownIsHeld, HistoryIsLog
<1> QED
  BY <1>4, <1>5, <1>6, <1>8, <1>9, <1>10, <1>11, <1>12, <1>13 DEF Next, Edits

-----------------------------------------------------------------------------
(* The editor's types and bounds hold in every reachable state: the line
   always leaves room for its terminating zero, the cursor is in the line
   and the recalled entry in the history. *)
THEOREM EditorTypeCorrect == Spec => []TypeOK
<1>1. ReplInv => TypeOK
  BY DEF ReplInv
<1> QED
  BY <1>1, InitEstablishesInv, NextPreservesInv, PTL DEF Spec

(* From the first prompt on, whatever is typed, deleted, recalled and run, the
   terminal shows the line the editor holds and the cursor where the editor has
   it, unless something else was printed since the last prompt. *)
THEOREM ShownIsHeldAlways == Spec => []ShownIsHeld
<1>1. ReplInv => ShownIsHeld
  BY DEF ReplInv
<1> QED
  BY <1>1, InitEstablishesInv, NextPreservesInv, PTL DEF Spec

(* The history is always the last lines that were run. *)
THEOREM HistoryIsLogAlways == Spec => []HistoryIsLog
<1>1. ReplInv => HistoryIsLog
  BY DEF ReplInv
<1> QED
  BY <1>1, InitEstablishesInv, NextPreservesInv, PTL DEF Spec
=============================================================================
