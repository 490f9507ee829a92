-------------------------------- MODULE Repl --------------------------------
(***************************************************************************)
(* The line editor of src/repl.c: the line, its cursor and the history,    *)
(* next to what a terminal shows of them.                                  *)
(*                                                                         *)
(* One action is one key: a character for handle_normal, or an escape      *)
(* sequence up to the byte that ends it in handle_escape.  The terminal is *)
(* modelled by what it does with what the REPL prints; the line fits in    *)
(* one row of it.                                                          *)
(***************************************************************************)
EXTENDS Integers, SequencesExt

CONSTANTS
  Char,          (* characters that can be typed                          *)
  Dot,           (* the first character of a command                      *)
  EchoOn,        (* the lines ".echo on"                                  *)
  EchoOff,       (* the lines ".echo off"                                 *)
  BufferSize,    (* KALUMA_REPL_BUFFER_SIZE                               *)
  HistorySize,   (* KALUMA_REPL_HISTORY_SIZE                              *)
  MaxLines       (* bound: lines a session runs                           *)

Line == Seq(Char)

ASSUME ReplAssumption ==
  /\ Dot \in Char
  /\ BufferSize \in Nat \ {0} /\ HistorySize \in Nat \ {0} /\ MaxLines \in Nat
  /\ EchoOn \subseteq Line /\ EchoOff \subseteq Line
  /\ \A line \in EchoOn \cup EchoOff : line # <<>> /\ line[1] = Dot
  /\ EchoOn \cap EchoOff = {}

VARIABLES
  echo,       (* state.echo                                                *)
  buffer,     (* state.buffer up to state.buffer_length                    *)
  position,   (* state.position: characters left of the cursor             *)
  history,    (* state.history up to state.history_size                    *)
  recalled,   (* state.history_position: entries before the one shown      *)
  ran,        (* the lines that were run, in order                         *)
  screen      (* what the terminal shows                                   *)

line == <<buffer, position>>
vars == <<echo, buffer, position, history, recalled, ran, screen>>

-----------------------------------------------------------------------------
(***************************************************************************)
(* The terminal: the text after the prompt and the column of its cursor    *)
(* there, or Garbled when no prompt was printed yet or something else was  *)
(* printed into the line since; the next prompt puts an end to it.         *)
(***************************************************************************)
Garbled == [text |-> <<>>, at |-> -1]

(* Characters replace those under the cursor. *)
Write(s, text) ==
  [text |-> SubSeq(s.text, 1, s.at) \o text
            \o SubSeq(s.text, s.at + Len(text) + 1, Len(s.text)),
   at   |-> s.at + Len(text)]

MoveTo(s, column) == [text |-> s.text, at |-> column]

EraseRight(s) == [text |-> SubSeq(s.text, 1, s.at), at |-> s.at]

(* Back to the saved position, over the prompt, and the line printed again. *)
Redraw(s, text) == Write(MoveTo(s, 0), text)

(* While the echo is off, nothing says where the terminal's cursor is. *)
Shows(s) == screen' = IF echo /\ screen # Garbled THEN s ELSE Garbled

(* km_repl_print_prompt saves the position, prints the line and queries the
   width; in the end the cursor is right after the prompt. *)
Prompt(text) == [text |-> text, at |-> 0]

-----------------------------------------------------------------------------
(* km_repl_init prints the welcome, but neither a prompt nor the escape code
   that saves the position. *)
Init ==
  /\ echo = TRUE /\ buffer = <<>> /\ position = 0
  /\ history = <<>> /\ recalled = 0
  /\ ran = <<>> /\ screen = Garbled

TypeOK ==
  /\ echo \in BOOLEAN
  /\ buffer \in Line /\ Len(buffer) < BufferSize
  /\ position \in 0 .. Len(buffer)
  /\ history \in Seq(Line) /\ Len(history) <= HistorySize
  /\ recalled \in 0 .. Len(history)
  /\ ran \in Seq(Line) /\ Len(ran) <= MaxLines
  /\ screen \in [text : Line, at : Int]

(* A plausible bug: the oldest entry is overwritten where it is. *)
PushOverOldest(cmd) ==
  IF Len(history) < HistorySize THEN Append(history, cmd)
  ELSE [history EXCEPT ![1] = cmd]

(* history_push *)
Pushed(cmd) ==
  IF Len(history) < HistorySize THEN Append(history, cmd)
  ELSE Append(Tail(history), cmd)

(* Carriage return on a line: run_command or run_code.  Of the commands,
   only .echo changes anything here. *)
Run ==
  /\ buffer # <<>> /\ Len(ran) < MaxLines
  /\ ran' = Append(ran, buffer)
  /\ history' = Pushed(buffer)
  /\ recalled' = Len(history')
  /\ buffer' = <<>> /\ position' = 0
  /\ echo' = IF buffer \in EchoOn THEN TRUE
             ELSE IF buffer \in EchoOff THEN FALSE ELSE echo
  /\ screen' = IF echo /\ echo' THEN Prompt(<<>>) ELSE Garbled

(* Carriage return on an empty line: only a new prompt. *)
RunNothing ==
  /\ buffer = <<>>
  /\ screen' = IF echo THEN Prompt(<<>>) ELSE Garbled
  /\ UNCHANGED <<echo, line, history, recalled, ran>>

(* Ctrl+D: a soft reset leaves the line as it is. *)
Reset ==
  /\ screen' = IF echo THEN Prompt(buffer) ELSE Garbled
  /\ UNCHANGED <<echo, line, history, recalled, ran>>

(* Ctrl+A, Ctrl+E, left and right; set_cursor_to_position. *)
GoTo(p) ==
  /\ position' = p
  /\ Shows(MoveTo(screen, p))
  /\ UNCHANGED <<echo, buffer, history, recalled, ran>>

Home  == GoTo(0)
End   == GoTo(Len(buffer))
Left  == position > 0 /\ GoTo(position - 1)
Right == position < Len(buffer) /\ GoTo(position + 1)

(* A plausible bug: what is right of the cursor is not erased. *)
BackspaceKeepsTail ==
  /\ position > 0
  /\ buffer' = RemoveAt(buffer, position)
  /\ position' = position - 1
  /\ Shows(MoveTo(Redraw(MoveTo(screen, screen.at - 1), buffer'), position'))
  /\ UNCHANGED <<echo, history, recalled, ran>>

Backspace ==
  /\ position > 0
  /\ buffer' = RemoveAt(buffer, position)
  /\ position' = position - 1
  /\ Shows(MoveTo(Redraw(EraseRight(MoveTo(screen, screen.at - 1)), buffer'), position'))
  /\ UNCHANGED <<echo, history, recalled, ran>>

Delete ==
  /\ position < Len(buffer)
  /\ buffer' = RemoveAt(buffer, position + 1)
  /\ Shows(MoveTo(Redraw(EraseRight(screen), buffer'), position))
  /\ UNCHANGED <<echo, position, history, recalled, ran>>

(* A plausible bug: the room for the terminating zero is not kept. *)
FitsToTheBrim == Len(buffer) < BufferSize

Fits == Len(buffer) < BufferSize - 1

(* A character at the end of the line is only printed; elsewhere the line is
   printed again. *)
Type(ch) ==
  /\ Fits
  /\ buffer' = InsertAt(buffer, position + 1, ch)
  /\ position' = position + 1
  /\ Shows(IF position = Len(buffer) THEN Write(screen, <<ch>>)
           ELSE MoveTo(Redraw(screen, buffer'), position'))
  /\ UNCHANGED <<echo, history, recalled, ran>>

(* "REPL buffer overflow" *)
Overflow ==
  /\ ~Fits
  /\ screen' = Garbled
  /\ UNCHANGED <<echo, line, history, recalled, ran>>

(* A line of the history, or no line, takes the place of the one edited. *)
Recall(p) ==
  LET cmd == IF p < Len(history) THEN history[p + 1] ELSE <<>> IN
  /\ recalled' = p
  /\ buffer' = cmd /\ position' = Len(cmd)
  /\ Shows([text |-> cmd, at |-> Len(cmd)])
  /\ UNCHANGED <<echo, history, ran>>

Up   == recalled > 0 /\ Recall(recalled - 1)
Down == recalled < Len(history) /\ Recall(recalled + 1)

(* Any other escape sequence is sent back to the terminal; a running timer's
   callback prints. *)
Disturb ==
  /\ screen' = Garbled
  /\ UNCHANGED <<echo, line, history, recalled, ran>>

Edits ==
  \/ \E ch \in Char : Type(ch)
  \/ Backspace \/ Delete \/ Home \/ End \/ Left \/ Right \/ Up \/ Down

(* Ctrl+D is pressed at an empty prompt: on a line it would leave the
   terminal's cursor at the start and the editor's where it was. *)
Next ==
  \/ Edits \/ Overflow \/ Disturb \/ Run \/ RunNothing
  \/ buffer = <<>> /\ Reset

Spec == Init /\ [][Next]_vars

-----------------------------------------------------------------------------
(* From the first prompt on, while the echo is on and nothing else was printed
   since the last prompt, the terminal shows the line the editor holds and its
   cursor stands where the next character will go, so that the line that runs
   is the line the user sees. *)
ShownIsHeld ==
  echo /\ screen # Garbled => screen = [text |-> buffer, at |-> position]

(* However lines are recalled, edited and run again, the history is the last
   lines that were run, unchanged and in order. *)
HistoryIsLog ==
  /\ Len(history) = IF Len(ran) < HistorySize THEN Len(ran) ELSE HistorySize
  /\ \A i \in 1 .. Len(history) : history[i] = ran[Len(ran) - Len(history) + i]
=============================================================================
