-------------------------------- MODULE Prog --------------------------------
(***************************************************************************)
(* The program memory: prog.c on the flash sectors of the stored script.   *)
(*                                                                         *)
(* A program is written byte by byte into a page buffer that is programmed *)
(* into the flash when it is full.  The state of prog.c is one record, the *)
(* functions of prog.c map it to the next.                                 *)
(***************************************************************************)
EXTENDS Integers, Sequences

CONSTANTS
  PageSize,     (* KALUMA_FLASH_PAGE_SIZE                                *)
  SectorSize,   (* KALUMA_FLASH_SECTOR_SIZE                              *)
  SectorCount,  (* KALUMA_PROG_SECTOR_COUNT                              *)
  NUL, ERASED,  (* the bytes 0x00 and 0xFF                               *)
  GARBLED       (* a byte programmed twice with different bytes          *)

ASSUME ProgAssumption ==
  /\ PageSize \in Nat \ {0} /\ SectorSize \in Nat \ {0} /\ SectorCount \in Nat \ {0}
  /\ SectorSize % PageSize = 0

PROG_MAX == SectorCount * SectorSize
Address  == 0 .. PROG_MAX - 1

ErasedFlash == [a \in Address |-> ERASED]

(* flash, page_buffer up to page_written, total_written, whether page_buffer
   is allocated, and the error of km_prog_write. *)
FreshProg ==
  [flash |-> ErasedFlash, page |-> <<>>, total |-> 0, owned |-> FALSE, quota |-> FALSE]

(* Programming can only clear bits. *)
Programmed(old, byte) ==
  IF old \in {ERASED, byte} THEN byte ELSE IF byte = NUL THEN NUL ELSE GARBLED

(* A plausible bug: the page of the next byte is programmed. *)
FlushNext(p) ==
  LET sector == p.total \div SectorSize
      offset == ((p.total % SectorSize) \div PageSize) * PageSize
      base   == sector * SectorSize + offset
      byte(a) == IF a - base < Len(p.page) THEN p.page[a - base + 1] ELSE NUL
  IN  [p EXCEPT !.flash = [a \in Address |-> IF a \in base .. base + PageSize - 1
                                             THEN Programmed(@[a], byte(a)) ELSE @[a]],
                !.page = <<>>]

(* page_buffer_flush: the page of the last byte counted is programmed; the
   rest of the buffer is zero. *)
Flush(p) ==
  LET sector == (p.total - 1) \div SectorSize
      offset == (((p.total - 1) % SectorSize) \div PageSize) * PageSize
      base   == sector * SectorSize + offset
      byte(a) == IF a - base < Len(p.page) THEN p.page[a - base + 1] ELSE NUL
  IN  [p EXCEPT !.flash = [a \in Address |-> IF a \in base .. base + PageSize - 1
                                             THEN Programmed(@[a], byte(a)) ELSE @[a]],
                !.page = <<>>]

(* A plausible bug: off by one at the quota. *)
PushCautious(p, byte) ==
  LET q == [p EXCEPT !.page = Append(@, byte), !.total = @ + 1]
  IN  IF q.total >= PROG_MAX - 1 THEN [q EXCEPT !.quota = TRUE]
      ELSE IF Len(q.page) >= PageSize THEN Flush(q) ELSE q

(* page_buffer_push: the byte that reaches the quota is an error and is not
   flushed. *)
Push(p, byte) ==
  LET q == [p EXCEPT !.page = Append(@, byte), !.total = @ + 1]
  IN  IF q.total >= PROG_MAX THEN [q EXCEPT !.quota = TRUE]
      ELSE IF Len(q.page) >= PageSize THEN Flush(q) ELSE q

(* A plausible bug: the old program is not erased. *)
BegunUnerased(p) == [FreshProg EXCEPT !.flash = p.flash, !.owned = TRUE]

(* km_prog_clear, km_prog_begin *)
Cleared(p) == [p EXCEPT !.flash = ErasedFlash]
Begun(p)   == [FreshProg EXCEPT !.owned = TRUE]

(* km_prog_write: the loop ends at the first error. *)
Written(p, bytes) ==
  LET after[i \in 0 .. Len(bytes)] ==
        IF i = 0 THEN p
        ELSE LET q == after[i - 1] IN IF q.quota THEN q ELSE Push(q, bytes[i])
  IN  after[Len(bytes)]

(* A plausible bug: the program is not terminated. *)
EndedUnterminated(p) ==
  [(IF p.page # <<>> THEN Flush(p) ELSE p) EXCEPT !.total = 0, !.owned = FALSE]

(* km_prog_end: the end of string is pushed, an error of the push is ignored,
   a started page is flushed. *)
Ended(p) ==
  LET q == Push(p, NUL)
  IN  [(IF q.page # <<>> THEN Flush(q) ELSE q) EXCEPT !.total = 0, !.owned = FALSE]

(* km_prog_get_size as far as the sectors of the program reach: strlen runs
   over erased bytes. *)
Ends(p) == {a \in Address : p.flash[a] = NUL}
GetSize(p) ==
  IF p.flash[0] = ERASED THEN 0
  ELSE IF Ends(p) = {} THEN PROG_MAX
  ELSE CHOOSE a \in Ends(p) : \A b \in Ends(p) : a <= b
=============================================================================
