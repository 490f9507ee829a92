# Kaluma: TLA+ models, model checking and proofs

Kaluma is a JavaScript runtime for microcontrollers: one C program that runs an
io loop, calls a JavaScript engine, and talks to a host over a serial terminal.
This directory models the parts in which order, interruption and failure matter:
the io loop and its handles, the persistent storage, the upload of a program, the
byte rings between interrupt handlers and the loop, the REPL's line editor, the sockets of
the Pico W with their streams, and the queue of AT commands.  Paths below are relative to the
repository; `runtime.c`, `targets/` and the like are under its `src/`.

## 1. The system

One thread of control runs everything: `main` calls `km_io_init`, loads the stored
script and then runs `km_io_run` (`src/io.c`).  A pass of the loop visits timers,
the terminal, watches, UARTs, the idler and the list of closing handles.  JavaScript
runs only inside callbacks of that pass and calls back into C to start and close
handles.  Beside it there are interrupt handlers (USB, UART, the pended interrupt of
the STM32 terminal), the other end of the serial line, and the power switch.

| component | state | operations | modelled in |
|---|---|---|---|
| io loop, `src/io.c`, `src/utils.c` | intrusive doubly linked lists per kind of handle, the closing list, `stop_flag`, `loop.time` | start, stop, close of handles, one traversal per kind, freeing, soft reset | `KmList`, `EventLoop`, `HandleService` |
| JavaScript timers, watches, tones, `src/global.c`; UART handles, `module_uart.c` | the references handles hold on callbacks | set, clear, the callbacks' epilogues | `EventLoop` |
| runtime life cycle, `src/runtime.c`, `main.c` | whether a script is running | boot, load, failure of the loaded script, soft reset | `EventLoop` |
| persistent storage, `src/modules/storage` | slots in flash with a status byte | setItem, removeItem, clear, key, getItem, the sweep | `Storage`, `KeyValue` |
| program memory, `src/prog.c` | flash sectors, the page buffer and its counters | clear, begin, write, end, size | `Prog` |
| YMODEM receiver, `src/ymodem.c`, and `.flash` of `src/repl.c` | packet and error counts, remaining bytes | the receiver's turns, header, packet and footer callbacks | `Ymodem` |
| ring buffer, `src/ringbuffer.c` | two positions and the memory | length, free space, read, write | `RingBuffer`, `ByteQueue` |
| STM32 terminal, `targets/stm32/src/tty.c` | a ring per direction | USB receive, terminal pass, print, pended interrupt | `TtyStm32` |
| RP2 UART, `targets/rp2/src/uart.c` | the hardware FIFO and a ring | interrupt handler, available, read | `UartRp2` |
| REPL editor and history, `src/repl.c` | line, cursor, mode, history | keys, escape sequences, `.echo`, prompt | `Repl` |
| sockets of the network device, `module_pico_cyw43.c`; `net.js`, `stream.js` | the descriptor table, `Socket` and `Server` objects, write buffers and their timers, connections | socket, connect, listen, accept, write, end, flush, finish, close, destroy, the callbacks of lwIP | `Sockets` |
| AT commands, `src/modules/at/at.js` | job queue, receive buffer, the job in flight | send, process, handlers, timeouts, close | `ATCommand` |
| events, HTTP, file system table, buses, graphics, PIO, engine glue | listener lists, parser state, descriptors, registers | emit, parse, open and close, transfers | not modelled, see section 8 |

How they interact.  The terminal's ring is filled by an interrupt (STM32) or by the
loop itself (RP2) and emptied by the terminal pass, which feeds the REPL; `.flash -w`
takes the terminal over until the upload is over; `.reset` and `.load` free the
loop's handles from inside the terminal pass.  UART handles are members of the loop's
lists and read the ring of `uart.c`.  A `Socket` is a stream over an entry of the network
device's table: it writes through timers of the loop, and lwIP calls back into its script.
AT commands are an interval timer and a UART.  Storage is called from scripts only.

What is hard, and what must hold:

* Loop.  A callback may start, clear or close any handle, its own too, while a
  traversal stands on one.  Lists and flags must agree, nothing freed may be
  reachable, nothing allocated may be lost, a callback must be released once, the
  loop must come round and must stop only when it is empty.
* Storage.  Power may be cut between any two flash operations and a slot can be
  erased only with all others.  A key must never have two values, a cut-off call
  must cost no more than its own keys, and only a full store may refuse.
* Upload.  Packets and replies are lost, damaged, repeated and late.  What is in the
  flash must be the file's bytes at their places, and `Done` must mean all of it.
* Rings.  An interrupt comes between any two steps of the reader or the writer.
  Bytes must come out once and in order.
* Sockets.  C entries, JavaScript objects and connections end at different times, a listener
  runs in the middle of a close, and a descriptor may be stale.  The three must agree, and
  every byte must go out once or be reported.
* AT commands.  The modem answers late or never and speaks on its own.  Commands must be
  sent one by one and each must complete; an answer may reach another command than its own
  only as far behind as commands were given up.
* Editor.  It never reads back what the terminal shows; after any sequence of keys the
  two must agree, or another line runs than the one that is seen.

## 2. Plan

Written, in this order: `KmList` → `EventLoop` (with `HandleService` as abstraction)
→ `EventLoopProofs`; `Storage` (with `KeyValue`) and `Prog` → `Ymodem` → `FlashProofs`;
`RingBuffer` → `TtyStm32` (with `ByteQueue`) → `TtyStm32Proofs`, and `UartRp2` →
`UartRp2Proofs`; `Repl` → `ReplProofs`;
`Sockets` → `SocketsProofs`; `ATCommand` → `ATCommandProofs`.

What would add most after this, in this order:

1. The incremental parser of `http.js` over `Sockets`; its chunked bodies, which the code
   does not leave (section 7), have to be settled first.
2. In `Sockets`: resets, a Socket that connects again, UDP.
3. Opening and closing of UARTs in `UartRp2`; the stop flag and Ctrl+C.
4. The debounce of watches with its 32 bit clock; tones and the pin they sound on.
5. Proofs: what holds of the upload of several files over a line that delays but loses
   nothing, where the runs find `DoneMeansStored` to hold; it needs the stages of section 5 to
   be counted over all files of a session.

## 3. The modules

**KmList** is `utils.c` on a heap of records: `head` and `tail` per list, `next` and
`prev` per node.  `Append` and `Remove` are the pointer assignments of
`km_list_append` and `km_list_remove`; a removed node keeps its own pointers, as in
the code, which is what lets the traversals go on or go astray.  `Walk` is the set a
traversal meets.

**EventLoop** has one action per step of `km_io_run` and per native call.  `phase` is
where `km_io_run` is, `cursor` is the local `handle` of the running `*_run` function,
`js` what JavaScript is running.  `Fire*` begins a callback, `CallbackReturns` is the
epilogue in `set_timer_cb`, `set_watch_cb` or `uart_read_cb` together with the read of
`next`; between them any of `SetTimer`, `SetTone`, `SetWatch`, `OpenUart`, `ClearHandle`
may happen.  `FreeClosing` is `km_io_handle_closing`, `Cleanup` is `km_io_cleanup`.
Time is relative (`left` is `clamped_timeout - loop.time`); `MaxTick` bounds the time
between passes, `MaxLag` saturates lateness.  `Next` keeps two rules that the
repository's own scripts keep: a timeout does not clear itself in its own callback, and
a callback that cleared its own handle does not throw.  `NextAny` drops them.

**HandleService** is what scripts may rely on: free, armed, closed; one callback at a
time, only for an armed handle; a timeout at most once.

**Storage** has one action per flash operation, so that a power cut (`CutOff`,
`CutErase`) falls between any two.  `SetItem` retires the old slot, `Place` programs the
new one, `Full`, `Sweep`, `Rewrite`, `SweepEnds`, `FullAgain` are storage.js.
**KeyValue** is the dictionary it implements, with what a cut may cost.

**Prog** gives the functions of `prog.c` as operators on a record; programming a page
that is not erased garbles it.  **Ymodem** has one receiver action per outcome of
`receive_packet` and branch of `km_ymodem_receive`, with the callbacks of `repl.c`
inside; sender and line are external, written from what the receiver expects.  The formulas of
`Storage` carry its name (`StorageSpec`, `StorageTypeOK`), as the proofs about the two users of
the flash are in one module.

**RingBuffer** gives the functions of `ringbuffer.c` as operators.  **TtyStm32** splits
a read or write of the main program into begin, one step per byte, and end, so that the
interrupt actions `UsbReceives` (of a packet that `PacketComes` brought) and `Transmit` come
between.  `BeginRead` is every function that reads: none takes more than there is.  A packet with Ctrl+C is
dropped whole and only sets a flag: it is no step here.  **UartRp2** likewise splits
`__uart_fill_ringbuffer` and `ringbuffer_write` as called from `km_uart_available`,
while `Irq` runs the same function to its end.  **ByteQueue** is what waits to be put into
a queue, the queue, and what came out of it last.

**Repl** has one action per key: `Type`, `Backspace`, `Delete`, the cursor keys, `Up`, `Down`,
`Run` (carriage return with `run_command` or `run_code` and `history_push`), `Reset` (Ctrl+D).
`screen` is what a terminal makes of the characters the REPL prints; it is `Garbled` at first,
as `km_repl_init` prints no prompt, and after a `Disturb`, which is anything else that is printed
into the line, an echoed escape sequence or a script's output, until the next prompt.  `Next` allows Ctrl+D at an empty prompt only: on a
line, `km_repl_print_prompt` shows the line again but puts the terminal's cursor at its start.
The length of an escape sequence and the width of the terminal are abstracted.

**Sockets** is the table of `module_pico_cyw43.c` under the classes of `net.js` and
`stream.js`.  A step is one call, from its beginning to its end or to a listener of the script
inside it; `frames` is the stack of the calls that wait for such a listener, which may write,
end, destroy and close in turn, and `ListenerReturns` is the rest of the call.  `CloseEntry` is
`__net_socket_close`, reached from `destroy`, from `Server.close` and from the peer's close.
`PeerCloses` comes once for every connection, also after the board has closed its side: the
callback of lwIP stays set and names the entry, so it closes whatever is in the entry by then.
`Connect` starts, is refused, or finds no memory for a pcb, when the entry is connected with none.
`Flush`, with `HandsOver` and `Refused`, is `Writable.flush` down to `tcp_write` and
`tcp_output`, `TimerFires` the `setTimeout(() => flush(cb), 0)` of a write while another is going on.  `own`,
`given`, `sent`, `lost`, `failed` and `fin` only record what happened.  The script keeps the
rules named `MayOpen`, `MayWrite`, `MayEnd`, `MayDestroy` and in `CloseServer`: it opens
nothing in a 'close' listener, writes nothing to a Socket in its 'error' listener, ends a
Socket once, does not destroy a Socket that a server gave after its connection is gone, and
closes a server after its Sockets.  Section 7 tells what happens otherwise.  Left out: the data
that arrive and the readable side's 'end', calls before `connect` and a second `connect`, resets, the wait for a name
server, UDP.

**ATCommand** is `at.js`.  `Process` is a whole call of `process()`, up to the first line that
is not dropped: a result (`TakeResult`), a line with a handler (`Handle`), or one whose handler
needs more (`Unpop`); with no line left a job is started, given up, or waits.  The modem is
external: it answers in order, late or never, and sends lines of its own, whole or in two
pieces, one kind of which announces a payload that may read like an answer.

In every module, a definition after a comment "A plausible bug" is a mutated form of the
definition next to it.  They are not part of the specification: each stands for a mistake
that a property is there to catch.

## 4. What is checked

| run | module, cfg | shows | bounds |
|---|---|---|---|
| loop | MCEventLoop, MCEventLoop.cfg | lists, flags, freed memory and callback references agree through every interleaving of callbacks and traversals, soft resets included; the loop implements HandleService and stops only when empty | 3 handles of all kinds: head, middle and tail of a list; finite loop |
| loop_liveness | MCEventLoopLive.cfg | closed handles are freed, due timers called, passes never end; the jobs and polls of an infinite loop | 3 timers |
| loop_own_timeout | MCEventLoopAny.cfg | violation: see finding 1 | 2 timers |
| storage | MCStorage.cfg | one slot per key, refusals, refinement of KeyValue under power cuts | 4 keys, 2 values, 3 slots: full of live items, and full of removed ones |
| upload | MCYmodem, MCYmodem.cfg | flash content, programmed once between erases, order of packets, meaning of Done and of refusals; an undisturbed session of one or two files ends | files of 0, 3, 7 and 8 bytes in a memory of 8, 3 packet numbers, 4 mishaps |
| upload_two_files | MCYmodemTwo.cfg | violation: see finding 2 | |
| tty | MCTtyStm32.cfg | both rings are FIFO queues under interrupts | ring of 3 cells, packets and texts of up to 2 bytes: both positions wrap |
| uart | MCUartRp2.cfg | two writers: no byte comes twice, none is invented | ring of 4 cells, 6 numbered bytes |
| uart_order | MCUartOrder.cfg | violation: see finding 3 | 3 bytes |
| repl | MCRepl.cfg | from the first prompt on the terminal shows the line that will run, the history is the log of what ran | 2 characters, lines of up to 3, a history of 2, 3 lines run |
| net | MCSockets.cfg | table, Sockets and connections agree whatever closes when, late ends of closed connections included; every byte out once, in order, or reported; an ended Socket finishes | table of 2, one connected and one accepted Socket, 2 connections, 2 bytes |
| at | MCATCommand.cfg | one command in flight, in order; how far an answer may be off; handlers get whole lines, once, in order; every job completes and every such line is handled | 3 jobs, 2 lines of the modem's own, a job gives up after one call of `process()` |

Why the bounds are enough. List operations touch a node and its neighbours, so three handles
give every position; a fourth adds no new neighbourhood. Three slots and four keys give a store
full of live items with one more to come. Packet numbers modulo three repeat within a file as
modulo 256 does in a long one; two sectors of two pages have every boundary of page, sector and
quota; the files end inside a page, leave room for the end of string only, and leave none. Four
mishaps are enough for a repeat of a repeat. A ring of three wraps in both positions while a
read is going on. In the editor a line of a few characters has a first, an inner and a last
position, and a short history is shifted, recalled from and run again within one behaviour. A
table of two is full with a server and its client, or with one of them and the Socket of the
script; of two connections the second takes the entry of the first while the first Socket still
holds the descriptor, and the late end of the first finds a server or the other Socket there,
with another entry beside it. Several clients of a server at a time are left to the theorems of
section 5. Two bytes of one or two Sockets can change places, be lost in part or go out twice.
Three jobs let a late answer reach the job behind and the job behind that; two lines of the
modem's own give a header inside, before and after everything else.

Stopping.  `CHECK_DEADLOCK FALSE` is set where the system stops: a finite loop that ends or
exits (`loop`, `loop_own_timeout`), a sequence of bytes that ends while `uart_getc`
waits (`uart*`), a script that has used up its Sockets and bytes (`net`), a queue that was
closed after all jobs and lines (`at`).

Fairness.  In the loop: its own steps, the call of a due timer, the return of callbacks
and scripts are weakly fair, since one thread runs them and no loop of C code waits for
anything; the end of the terminal pass is strongly fair, as its input is what was in the
ring when it looked.  A script that never returns is excluded (there is Ctrl+C for it).
In the upload: receiver and sender go on while they can; nothing makes anyone press a
key or lose a message.  Timeouts of both sides may come at any
moment as long as fewer than `MaxLine` messages are under way; with `MaxErrors = 5` this cannot make
the receiver count past its limit, as the real timeouts of seconds do not.
Sockets: listeners return (`ListenerReturns`) and the loop calls due timers (`TimerFires`);
nothing makes the peer or the script do anything.  AT: the interval timer is served
(`Process`), a line that began is ended (`Rest`) and an announced payload comes
(`SendPayload`), without which no timeout is looked at (`at.js:173`); the modem need not answer.

## 5. What is proved

All theorems hold for every value of the constants under their ASSUMEs.

*Loop* (`EventLoopProofs`).  The inductive invariant `LoopInv` joins `TypeOK`, the list
properties and what makes them inductive: the flags of a handle agree (`FlagsAgree`),
JavaScript runs only in the phases it can (`ScriptPhase`), and a traversal stands on a handle
that is allocated and whose epilogue may still close it (`TraversalSafe`).  The two facts that
carry it are lemmas about `KmList`: appending a node that is on no list, and removing one that
is, keep the lists well linked and every other node reachable.  Reachability is shown
without induction over data: the set of nodes a walk meets is the least closed set, so a
closed set for the new heap gives one for the old.  From `LoopInv` follow `TypeCorrect`,
`ListsAgreeAlways`, `NoUseAfterFree`, `NoHandleLost`, `ReferencesBalance`, `StopsEmpty`;
`LoopImplementsService` is the step simulation of `HandleService`.  They hold for
`Spec`, that is for scripts that keep the two rules; without them `StopsOnlyWhenEmpty` fails
(finding 1).

*Editor* (`ReplProofs`).  `ReplInv` adds to `TypeOK`, `ShownIsHeld` and `HistoryIsLog` that every
recalled line fits the buffer (`HistoryFits`).  Lemmas say what inserting, removing and redrawing
do to a line and its picture: a redraw shows exactly the line when no more than the line was on
the screen, which is why a deletion has to erase first.  It gives `EditorTypeCorrect`,
`ShownIsHeldAlways`, `HistoryIsLogAlways`; the second speaks from the first prompt on, since before
it the screen is `Garbled`.

*Storage* (`FlashProofs`).  `StorageInv` adds to `StorageTypeOK` and `OneSlotPerKey` that the
key being set has no slot in use after it was retired (`Setting`), that while items are
rewritten exactly the others of the cache may be in use (`Swept`), and that a refusal is
seen at rest only (`Returned`).  It needs that `key(i)` names a slot in use for every
`i < length`, which is an induction on the size of finite sets from the library's facts on
cardinality.  It gives `StoreTypeCorrect`, `OneSlotPerKeyAlways`, `RefusedOnlyByFull`.

`SlotsImplementStore` is the step simulation of `KeyValue`.  It needs two more facts
(`TidyInv`): only a running setItem replaces a key, which before the erase has left a slot
(`Replacing`), and while items are rewritten the cache is what the store held, every item
is in a slot or still to be written, and the items to be written, with the key being
replaced, fit in the free slots (`Rewriting`).  The last is why a sweep never throws in the
middle, and it needs that `key(i)` names each key once and all of them (`KeysAll`,
`KeysCount`).

*Upload* (`FlashProofs`).  `UploadTypeCorrect`, `RefusesOnlyTooLargeAlways` and
`ProgrammedOnceAlways` hold for sessions of any number of files.  The second needs that the
bytes counted and those that remain are no more than the file (`RefusalInv`).  The third needs
that from the first header on the page buffer holds the first bytes of a page, from which on
the flash is erased (`Clean`); its exception, a session that ends before a file began, is what
section 7 tells of `src/prog.c:72`.

`StoredAsSentAlways`, `DoneMeansStoredAlways` and `InOrderAlways` assume sessions of one file
(`SingleFile`).  With two files TLC refutes the first two (finding 2: every repeated end of a
file is acknowledged, and the sender takes the second acknowledgement for the next packet's),
and the third once the sender is as many packets ahead as there are packet numbers.
They hold for files, pages, blocks and lines of any size, any
number of mishaps, and any `NumberMod` above one.  The invariant (`UploadInv`) is in two halves.
`Protocol` is about the line: a session has stages, one for each packet; the sender has sent
the packet of the receiver's stage, or only that of the stage before; on the line are only packets of these
two stages, those of the earlier stage first; before the last stage at most one
acknowledgement is on its way, and only of the packet sent last.  So a packet with the number the
receiver waits for is the packet it waits for, though numbers repeat: neighbouring stages have
different ones.  `Kept` is about the flash: at stage `k` the state of `prog.c` is a function of
the file and of the bytes taken so far (`PartProg`), with whole pages in the flash and the rest in the
buffer; each push of a byte gives the next (`PushPart`), the byte that reaches the quota the
last (`FullProg`).  The loop of `km_prog_write` is a recursive function; that it goes from
one of these states to the next is shown by taking the first byte at which it would not
(`UpTo`, `WrittenKeeps`, `WrittenAfter`).  `km_prog_end` leaves the end of string and zeros behind
the file, so that `km_prog_get_size` finds its size (`EndedIs`, `SizeFound`).

*AT commands* (`ATCommandProofs`).  `SequentialAlways` needs no more than itself.  For
`AnswersShiftAlways` the invariant looks at everything that is still to come out of the modem, in
the order it will be processed: the buffer, the half line after it, the payload, and the commands
not yet answered (`Incoming`).  Answers in it ascend, and the earliest is behind the job in
flight by no more than the jobs that gave up so far; each job given up adds one to
both sides, each answer taken moves the earliest on.  The same list gives
`HandledInOrderAlways`: a handled line is older than every line still to come, and a header
is followed by its payload.

*Sockets* (`SocketsProofs`).  `TableInv` adds to `TypeOK`, `TableAgrees` and `SocketsMatch` who holds
an entry: a Socket's connection is in its own entry or nowhere (`OwnsMatch`, `AcceptedHold`), an
entry that is in use has a Socket or a server that knows it (`EntriesKnown`, `ServerHolds`), and
the frame of a running 'close' listener names an entry that is free (`FramesKnown`), which is
where the script's rule to open nothing there is needed.  `ServerHolds` also says that a
listening entry has no connection, so that a late end can take from a connection its Socket only by
closing the server it came from: that is the exception in `SocketsMatch`, and section 7 tells of it.
`BytesInv` keeps, for every byte, where it is: `Placed` (in the one buffer of its Socket, out, or
lost), `InOrder` (a byte in a buffer is newer than every byte of its Socket that is out), and
`BufferEmpty` after the end.  These are stated over constant-level operators, so that the
four things a call does to bytes are four lemmas about sequences.

*Rings* (`RingBuffer`, `TtyStm32Proofs`, `UartRp2Proofs`).  The lemmas about positions are: taking the remainder
on the way makes no difference (`Advance`), and fewer than `N` steps lead to different cells
(`Apart`).  From these, writing no more than the free cells appends to the unread bytes
(`PutAppends`) and skipping drops from their front (`SkipDrops`).  The invariants say how far
the main program is while an interrupt may come: a packet fits and a read has copied the
first of the unread bytes (`Received`); the first bytes of a text are in the free cells from
`w_ptr` on (`Written`).  Each step is then a step of `ByteQueue` or none, for rings, packets and texts of
any length: `ReceivesInOrderAlways`, which assumes a host that leaves one cell free (`Paced`), and
`TransmitsInOrderAlways`, which assumes nothing, as the printer takes a text only when it fits and
drops it otherwise: the queue is of the texts that were taken.
For the UART, where the interrupt handler and the loop write the same ring, `UartInv` says that
what was given, the cells, the FIFO and the byte in hand hold different bytes (`NoRepeats`), and
that the cell the loop is about to write lies between `r_ptr` and `w_ptr`: the late writer may
overwrite a byte or take bytes back, and does not bring a cell out again.  It gives
`UartAtMostOnce`, which assumes `Paced` too.

Only model-checked: the liveness properties (`ClosedIsFreed`, `DueIsCalled`, `PassesForever`,
`Completes`, `Finishes`, `EveryJobCompletes`, `EveryLineHandled`), which are out of the prover's reach, and
of sessions of several files what is said above.  The runs that expect a violation need no
proof.

## 6. Assumptions

* A page is programmed at once or not at all; an erase may stop between sectors, and a
  sector is taken as whole.
* A packet's CRC finds every damage; the bytes after a cut packet are not read as packets.
* A program is text: no byte of a file is 0x00 or 0xFF (`TextAssumption`).  Packet numbers are
  taken modulo more than one (`YmodemAssumption`; 256 in the code).
* A handle's memory comes from malloc and is not reused before it was freed.
* The engine returns from every callback; its heap is not modelled.
* A terminal does what ANSI terminals do with `ESC 7`, `ESC 8`, `ESC [K` and `ESC [2K`; a line fits in
  one row, and what a command or a script prints ends with a new line.
* An interrupt handler is not interrupted by the program and one of the same ring does not
  interrupt itself.  The memory accesses of `ringbuffer.c` happen in program order.
* In the runs of the rings the other side leaves one cell free (`Paced`); section 7 tells
  what happens when it does not.
* lwIP, whose source is not in `src/` (it comes with the Pico SDK), calls back as its API says: the
  peer's end of a connection reaches the `tcp_recv` callback that was set, also after `tcp_close`.
  `tcp_err` is not called.  A peer closes and does not reset.

## 7. Findings

1. `src/global.c:530`: a timeout that clears itself is closed twice and the closing list is
   lost (`loop_own_timeout`).
2. `src/repl.c:468`: the second file of a session may be stored without its end and reported
   as done (`upload_two_files`).
3. `targets/rp2/src/uart.c:213`: the loop and the interrupt handler write the same ring, so
   bytes change their order (`uart_order`).

The models also show, without a run of their own:

* Editor and upload.  Ctrl+D on a line leaves the terminal's cursor at its start and the
  editor's at its place (`src/repl.c:936`).  Past `MAX_ERRORS` the receiver tells the sender to
  cancel but loops on (`src/ymodem.c:293`).  A file that is too large is reported as a failed
  verification, as `header_cb` accepts every size (`src/repl.c:451`).  A packet repeated after a
  lost ACK is answered by NAK for ever (`src/ymodem.c:213`).  A session without a file writes its end
  of string through a buffer that is not there and programs the first page
  (`src/prog.c:72`), though the code is there to flush "if buffer has data".
* Rings.  A packet that fills the free space of the STM32 ring makes it look empty
  (`targets/stm32/src/tty.c:81`): all unread bytes are lost.  `km_uart_available` waits for another
  byte if the interrupt takes the one it saw (`targets/rp2/src/uart.c:54`).
* Sockets.  Connecting in a 'close' listener is given the entry being closed, and loses its new
  object when the listener returns (`module_pico_cyw43.c:722`).  A Socket whose connection is gone
  keeps its descriptor: what it still writes (`BytesAccounted` counts it as out) goes to the connection that reused the entry.  An
  accepted Socket emits no 'close' when its peer closes, and destroying it later closes
  whatever reuses its entry.  A connection is closed with its callback still set
  (`module_pico_cyw43.c:700`), so its late end closes whatever has the entry by then: another
  connection, or a server, when the Socket that was accepted last emits 'close' while its connection
  is still in the table.  Two clients of a server at a time share its `read_cb`, so the data of the
  first are emitted by the second (`net.js:167`, read in the code: what arrives is not modelled).
  Without memory for a pcb 'ready' is emitted for a Socket that can neither send nor receive
  (`module_pico_cyw43.c:951`).  `end()` before the connection is
  established emits an error and never finishes.  If `tcp_output` fails after `tcp_write`, an error
  is emitted for bytes that go out.  'drain' is never emitted,
  as the device calls back before `flush` has cleared the buffer.  A write in an 'error' listener is
  lost when `flush` clears the buffer.
* AT commands.  One answer that comes late shifts all later ones (`at.js:201`), though jobs
  are said to be processed sequentially (`at.js:6`); that is why `AnswersShift` counts.  While a handler waits for
  more data no timeout is looked at (`at.js:173`).

Read in code that is not modelled: `parseBody` of `http.js:78` does not return from a chunked
body when no line end is in the buffer, as after every whole chunk, and `http.js:101` looks up
'Content-Length' among headers it has put in lower case.

## 8. Not modelled

* Vendored libraries (`lib/`) and the engine.  They are most of the lines of the repository and none
  of its own logic.
* The drivers of buses and converters (one blocking call of the hardware each), graphics and the PIO
  assembler (pure computation), encodings, the bodies of the file systems (vendored).
* HTTP.  Its parser is one loop over a string, whose behaviour depends on the text; its chunked
  bodies do not come to an end (above), so that what it should do is not settled by the code.
* `events.js`.  `emit` calls a copy of the listeners one after the other; the effect of a
  listener that runs in the middle of a call is in `Sockets`.
* The table of `fs.js`.  Calls are synchronous and nothing runs between them; the state that
  matters is in the vendored file systems.
* Interrupts that call JavaScript (`attachInterrupt`) depend on the state of the engine.
* The terminals of RP2 and Linux: the ring of the first is written and read by the loop alone, the
  second has none.  The stop flag of Ctrl+C interrupts the engine, which is not modelled.
* Stream handles of `io.c` are initialised but no list of them is run.
* UARTs are open from the start (`UartRp2`); the debounce of watches is reduced to whether the
  callback is due, a tone to its timer (`EventLoop`).

The hazards they bring are in `PROJECT.json` with a note.
