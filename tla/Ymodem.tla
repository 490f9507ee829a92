------------------------------- MODULE Ymodem -------------------------------
(***************************************************************************)
(* The upload of a program: .flash -w of the REPL receives files with the  *)
(* YMODEM receiver of ymodem.c and stores them through prog.c.             *)
(*                                                                         *)
(* The receiver is the code's; one step is one turn of its inner loop,     *)
(* from receive_packet to the reply.  The sender is a YMODEM program on    *)
(* the host and the line loses and damages messages; both are modelled     *)
(* from what the receiver expects of them.  A packet's CRC finds every     *)
(* damage.                                                                 *)
(***************************************************************************)
EXTENDS Prog

CONSTANTS
  PAD,         (* what fills up the last block of a file                  *)
  Batches,     (* what the host may send: sequences of file sizes         *)
  BlockSize,   (* data bytes of a packet (128 or 1024)                    *)
  NumberMod,   (* packet numbers are one byte (256)                       *)
  MaxErrors,   (* MAX_ERRORS                                              *)
  MaxLine,     (* bound: messages on their way when a timeout adds one    *)
  MaxMishaps,  (* bound: losses, damages and aborts in one session        *)
  Rough        (* bound: the batches in whose sessions there are any      *)

ASSUME YmodemAssumption ==
  /\ BlockSize \in Nat \ {0} /\ NumberMod \in Nat \ {0, 1} /\ MaxErrors \in Nat
  /\ MaxLine \in Nat /\ MaxMishaps \in Nat
  /\ Batches \subseteq Seq(Nat) /\ Rough \subseteq Batches

(* A program is text: no byte of a file ends the string or looks erased. *)
ASSUME TextAssumption ==
  NUL # ERASED /\ \A byte \in {NUL, ERASED} : byte \notin Nat \X Nat

VARIABLES
  mode,        (* "receiving" in km_ymodem_receive, else "idle"            *)
  result,      (* what km_ymodem_receive returned last                     *)
  received,    (* packets_received                                         *)
  begun,       (* session_begin                                            *)
  errors,      (* errors, saturating above MaxErrors                       *)
  remained,    (* bytes_remained of repl.c                                 *)
  prog,        (* the state of prog.c                                      *)
  file,        (* index of the file whose header was accepted last         *)
  toReceiver, toSender,   (* the line                                      *)
  batch,       (* the files the host sends                                 *)
  sender,      (* where the sender is: its state, file and block           *)
  mishaps

receiver == <<mode, result, received, begun, errors, remained, prog, file>>
line     == <<toReceiver, toSender>>
host     == <<batch, sender>>
vars     == <<receiver, line, host, mishaps>>

(* Packets and control bytes to the receiver. *)
Message == [what : {"header", "data", "end", "EOT", "CA", "bad"},
            number : 0 .. NumberMod - 1, file : Nat, block : Nat]

Control(w)   == [what |-> w, number |-> 0, file |-> 0, block |-> 0]
HeaderOf(f)  == [what |-> "header", number |-> 0, file |-> f, block |-> 0]
DataOf(f, k) == [what |-> "data", number |-> k % NumberMod, file |-> f, block |-> k]

Byte(f, i) == <<f, i>>
Size(f)    == batch[f]
Blocks(f)  == (Size(f) + BlockSize - 1) \div BlockSize

(* The data of a packet; one that is not a data packet holds no byte of a
   file. *)
BytesOf(m) ==
  [j \in 1 .. BlockSize |->
     LET i == (m.block - 1) * BlockSize + j
     IN  IF m.what = "data" /\ i <= Size(m.file) THEN Byte(m.file, i) ELSE PAD]

TypeOK ==
  /\ mode \in {"idle", "receiving"}
  /\ result \in {"none", "OK", "ABORT", "LIMIT", "DATA"}
  /\ received \in Nat /\ begun \in BOOLEAN /\ errors \in 0 .. MaxErrors + 1
  /\ remained \in Nat
  /\ DOMAIN prog.flash = Address
  /\ prog.total \in 0 .. PROG_MAX
  /\ Len(prog.page) <= PageSize
  /\ file \in 0 .. Len(batch)
  /\ toReceiver \in Seq(Message)
  /\ toSender \in Seq({"ACK", "NAK", "C", "CA"})
  /\ batch \in Batches \cup {<<>>}
  /\ sender.state \in {"off", "offer", "header", "ready", "block", "eot", "end"}
  /\ mishaps \in 0 .. MaxMishaps

Off == [state |-> "off", file |-> 0, block |-> 0]

Init ==
  /\ mode = "idle" /\ result = "none"
  /\ received = 0 /\ begun = FALSE /\ errors = 0 /\ remained = 0
  /\ prog = FreshProg /\ file = 0
  /\ toReceiver = <<>> /\ toSender = <<>>
  /\ batch = <<>> /\ sender = Off /\ mishaps = 0

-----------------------------------------------------------------------------
(***************************************************************************)
(* The receiver.                                                           *)
(***************************************************************************)

(* .flash -w, and the host is told to send b. *)
Start(b) ==
  /\ mode = "idle" /\ sender.state = "off"
  /\ mode' = "receiving" /\ result' = "none"
  /\ received' = 0 /\ begun' = FALSE /\ errors' = 0
  /\ file' = 0
  /\ toReceiver' = <<>> /\ toSender' = <<>>
  /\ batch' = b /\ sender' = [state |-> "offer", file |-> 1, block |-> 0]
  /\ mishaps' = 0
  /\ UNCHANGED <<remained, prog>>

(* .flash -e *)
EraseFlash ==
  /\ mode = "idle" /\ sender.state = "off"
  /\ prog' = Cleared(prog) /\ file' = 0 /\ result' = "none"
  /\ UNCHANGED <<mode, received, begun, errors, remained, line, host, mishaps>>

(* km_tty_putc: nobody reads what is sent to a host that has stopped. *)
Reply(rs) ==
  toSender' = IF sender.state = "off" THEN <<>> ELSE toSender \o rs

(* The bound: who has waited in vain sends only into a line that is not too
   full already. *)
Room == Len(toReceiver) + Len(toSender) < MaxLine

Return(r) == mode' = "idle" /\ result' = r
GoesOn    == UNCHANGED <<mode, result>>

(* receive_packet returns KM_YMODEM_OK. *)
Receives(m) ==
  /\ mode = "receiving"
  /\ toReceiver # <<>> /\ m = Head(toReceiver)
  /\ toReceiver' = Tail(toReceiver)
  /\ errors' = 0
  /\ UNCHANGED <<host, mishaps>>

IsBlock(m) == m.what \in {"header", "data", "end"}

SenderAborts(m) ==
  /\ Receives(m) /\ m.what = "CA"
  /\ Reply(<<"ACK">>) /\ Return("ABORT")
  /\ UNCHANGED <<received, begun, remained, prog, file>>

(* A plausible bug: the packets of the next file are counted on. *)
EndOfFileCountsOn(m) ==
  /\ Receives(m) /\ m.what = "EOT"
  /\ Reply(<<"ACK">>) /\ GoesOn
  /\ UNCHANGED <<received, begun, remained, prog, file>>

(* End of a file; the outer loop starts over. *)
EndOfFile(m) ==
  /\ Receives(m) /\ m.what = "EOT"
  /\ Reply(<<"ACK">>) /\ GoesOn
  /\ received' = 0
  /\ UNCHANGED <<begun, remained, prog, file>>

(* A plausible bug: the number is not checked. *)
ExpectedAny(m) == TRUE

Expected(m) == m.number = received % NumberMod

WrongNumber(m) ==
  /\ Receives(m) /\ IsBlock(m) /\ ~Expected(m)
  /\ Reply(<<"NAK">>) /\ GoesOn
  /\ UNCHANGED <<received, begun, remained, prog, file>>

(* header_cb; data read as a header says no size. *)
Header(m) ==
  /\ Receives(m) /\ IsBlock(m) /\ Expected(m) /\ received = 0 /\ m.what # "end"
  /\ prog' = Begun(prog)
  /\ remained' = IF m.what = "header" THEN Size(m.file) ELSE 0
  /\ file' = m.file
  /\ received' = 1 /\ begun' = TRUE
  /\ Reply(<<"ACK", "C">>) /\ GoesOn

(* footer_cb *)
EndOfSession(m) ==
  /\ Receives(m) /\ IsBlock(m) /\ Expected(m) /\ received = 0 /\ m.what = "end"
  /\ prog' = Ended(prog) /\ remained' = 0
  /\ Reply(<<"ACK">>) /\ Return("OK")
  /\ UNCHANGED <<received, begun, file>>

(* A plausible bug: the padding of the last packet is stored as well. *)
WithPadding(m) == BytesOf(m)

(* packet_cb: the packet as far as the file reaches. *)
Wanted(m) == SubSeq(BytesOf(m), 1, IF remained < BlockSize THEN remained ELSE BlockSize)

Data(m) ==
  /\ Receives(m) /\ IsBlock(m) /\ Expected(m) /\ received > 0
  /\ prog' = Written(prog, Wanted(m))
  /\ remained' = remained - Len(Wanted(m))
  /\ received' = received + 1 /\ begun' = TRUE
  /\ IF prog'.quota THEN Reply(<<"CA">>) /\ Return("DATA")
                    ELSE Reply(<<"ACK">>) /\ GoesOn
  /\ UNCHANGED file

(* No packet in time, or a damaged one: ask for a packet, or tell the sender
   to give up; the loop goes on in both cases. *)
Fails ==
  /\ mode = "receiving"
  /\ errors' = IF begun /\ errors <= MaxErrors THEN errors + 1 ELSE errors
  /\ Reply(IF errors' > MaxErrors THEN <<"CA">> ELSE <<"C">>)
  /\ UNCHANGED <<mode, result, received, begun, remained, prog, file, host>>

BadPacket ==
  /\ toReceiver # <<>> /\ Head(toReceiver).what = "bad"
  /\ toReceiver' = Tail(toReceiver)
  /\ Fails
  /\ UNCHANGED mishaps

Timeout == toReceiver = <<>> /\ Room /\ Fails /\ UNCHANGED <<toReceiver, mishaps>>

(* After the return the REPL reads what still arrives. *)
Discard ==
  /\ mode = "idle" /\ toReceiver # <<>>
  /\ toReceiver' = Tail(toReceiver)
  /\ UNCHANGED <<receiver, toSender, host, mishaps>>

Receive(m) ==
  \/ SenderAborts(m) \/ EndOfFile(m) \/ WrongNumber(m)
  \/ Header(m) \/ EndOfSession(m) \/ Data(m)

ReceiverStep == (toReceiver # <<>> /\ Receive(Head(toReceiver))) \/ BadPacket \/ Timeout \/ Discard

-----------------------------------------------------------------------------
(***************************************************************************)
(* The host's sender and the line, external.                               *)
(***************************************************************************)
PacketOf(st, f, k) ==
  CASE st = "header" -> HeaderOf(f)
    [] st = "block"  -> DataOf(f, k)
    [] st = "eot"    -> Control("EOT")
    [] st = "end"    -> Control("end")

Waiting == sender.state \in {"header", "block", "eot", "end"}

(* The sender moves to state st and sends that state's packet. *)
Sends(st, f, k) ==
  /\ sender' = [state |-> st, file |-> f, block |-> k]
  /\ toReceiver' = Append(toReceiver, PacketOf(st, f, k))

NextBlock(f, k) == IF k <= Blocks(f) THEN Sends("block", f, k) ELSE Sends("eot", f, 0)
Moves(st, f) == sender' = [state |-> st, file |-> f, block |-> 0] /\ UNCHANGED toReceiver

SenderReads ==
  /\ sender.state # "off" /\ toSender # <<>>
  /\ LET reply == Head(toSender)
         st == sender.state
         f == sender.file
     IN
     CASE reply = "CA" -> sender' = Off /\ UNCHANGED toReceiver
       [] st = "offer" /\ reply = "C" ->
            IF f <= Len(batch) THEN Sends("header", f, 0) ELSE Sends("end", f, 0)
       [] st = "ready" /\ reply = "C" -> NextBlock(f, 1)
       [] st = "header" /\ reply = "ACK" -> Moves("ready", f)
       [] st = "block" /\ reply = "ACK" -> NextBlock(f, sender.block + 1)
       [] st = "eot" /\ reply = "ACK" -> Moves("offer", f + 1)
       [] st = "end" /\ reply = "ACK" -> sender' = Off /\ UNCHANGED toReceiver
       [] Waiting /\ reply \notin {"ACK", "CA"} -> Sends(st, f, sender.block)
       [] OTHER -> UNCHANGED <<sender, toReceiver>>
  /\ toSender' = IF sender'.state = "off" THEN <<>> ELSE Tail(toSender)
  /\ UNCHANGED <<receiver, batch, mishaps>>

(* No answer: the packet is sent again. *)
SenderRepeats ==
  /\ Waiting /\ toSender = <<>> /\ Room
  /\ Sends(sender.state, sender.file, sender.block)
  /\ UNCHANGED <<receiver, toSender, batch, mishaps>>

SenderStep == SenderReads \/ SenderRepeats

Mishap ==
  /\ mode = "receiving" /\ batch \in Rough
  /\ mishaps < MaxMishaps /\ mishaps' = mishaps + 1

LosePacket ==
  /\ Mishap /\ toReceiver # <<>>
  /\ toReceiver' = Tail(toReceiver)
  /\ UNCHANGED <<receiver, toSender, host>>

DamagePacket ==
  /\ Mishap /\ toReceiver # <<>>
  /\ toReceiver' = <<Control("bad")>> \o Tail(toReceiver)
  /\ UNCHANGED <<receiver, toSender, host>>

LoseReply ==
  /\ Mishap /\ toSender # <<>>
  /\ toSender' = Tail(toSender)
  /\ UNCHANGED <<receiver, toReceiver, host>>

(* The user presses a. *)
UserAborts ==
  /\ Mishap /\ toReceiver = <<>>
  /\ Reply(<<"CA">>) /\ Return("ABORT")
  /\ UNCHANGED <<received, begun, errors, remained, prog, file, toReceiver, host>>

(* The sender gives up, with or without a word. *)
SenderStops ==
  /\ Mishap /\ sender.state # "off"
  /\ sender' = Off /\ toSender' = <<>>
  /\ toReceiver' \in {toReceiver, Append(toReceiver, Control("CA"))}
  /\ UNCHANGED <<receiver, batch>>

Next ==
  \/ \E b \in Batches : Start(b)
  \/ EraseFlash
  \/ ReceiverStep
  \/ SenderStep
  \/ LosePacket \/ DamagePacket \/ LoseReply \/ UserAborts \/ SenderStops

Spec     == Init /\ [][Next]_vars
FairSpec == Spec /\ WF_vars(ReceiverStep) /\ WF_vars(SenderStep)
-----------------------------------------------------------------------------
(* What the flash should hold at a once a file has been stored. *)
Content(f) == [a \in Address |-> IF a < Size(f) THEN Byte(f, a + 1) ELSE NUL]

(* Packets lost, damaged, repeated or late: no byte of the file that is being
   received is ever stored at a wrong place, twice or with another's bits. *)
StoredAsSent ==
  file > 0 => \A a \in Address : prog.flash[a] \in {ERASED, Content(file)[a]}

(* Done is printed only when the last file of the batch can be read back
   from the flash, with its size. *)
DoneMeansStored ==
  result = "OK" =>
    /\ file = Len(batch)
    /\ Size(file) < PROG_MAX
    /\ GetSize(prog) = Size(file)
    /\ \A a \in 0 .. Size(file) : prog.flash[a] = Content(file)[a]

(* An upload is refused only if the file leaves no room for the end of
   string. *)
RefusesOnlyTooLarge == result = "DATA" => Size(file) >= PROG_MAX

(* packet_cb gets the blocks of a file one after the other, each once, though
   packet numbers repeat. *)
InOrder ==
  [][received' = received + 1 =>
       LET m == Head(toReceiver)
       IN  m.block = received /\ (received > 0 => m.file = file)]_vars

(* A byte in the flash stays until the flash is erased, as a second program
   would only clear bits of it; the page of the last byte is programmed once.
   A session that ends before a file began is excepted: its end of string goes
   over what is stored. *)
ProgrammedOnce ==
  [][~ (mode = "receiving" /\ result' = "OK" /\ ~begun) =>
       \A a \in Address : prog.flash[a] # ERASED =>
                            prog'.flash[a] \in {prog.flash[a], ERASED}]_vars

(* A session in which nothing is lost and nobody stops ends with Done, or with
   the refusal of a file that is too large, whoever times out on the way, as
   long as the sender answers before the receiver has counted MAX_ERRORS. *)
Completes ==
  mode = "receiving" ~>
    \/ result = "OK"
    \/ result = "DATA" /\ Size(file) >= PROG_MAX
    \/ mishaps > 0
=============================================================================
