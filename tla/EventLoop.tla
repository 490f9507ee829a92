------------------------------ MODULE EventLoop ------------------------------
(***************************************************************************)
(* The io loop of src/io.c with the JavaScript timers and watches of       *)
(* src/global.c, the UART handles of module_uart.c and the soft reset of   *)
(* src/repl.c and src/runtime.c, on the pointer-level lists of KmList.     *)
(*                                                                         *)
(* One handle is one malloc'ed km_io_handle_t.  Its list is the one of its *)
(* kind from its start until its close, then the closing list until        *)
(* km_io_handle_closing frees it.  JavaScript runs as a sequence of native *)
(* calls between a begin step (a callback is called, a script is run) and  *)
(* a return step, so that the handles a traversal stands on change under   *)
(* it exactly where the code allows it.                                    *)
(*                                                                         *)
(* The clock is kept relative: left[h] is clamped_timeout - loop.time.     *)
(***************************************************************************)
EXTENDS Integers

CONSTANTS
  Handle,    (* the memory cells of the handles                         *)
  NULL,      (* the null pointer                                        *)
  Kinds,     (* the kinds of handle the program creates                 *)
  Delays,    (* the delays scripts ask for (ms)                         *)
  MaxTick,   (* the largest time between two passes of the loop         *)
  MaxLag,    (* bound: an overdue timer's lateness saturates here       *)
  Infinite   (* the argument of km_io_run                               *)

List == {"timer", "watch", "uart", "closing"}

(* A tone's duration is a timer without JavaScript callback. *)
AllKinds == {"timer", "tone", "watch", "uart"}

ASSUME LoopAssumption ==
  /\ NULL \notin Handle
  /\ Kinds \subseteq AllKinds
  /\ Delays \subseteq Nat
  /\ MaxTick \in Nat /\ MaxLag \in Nat
  /\ Infinite \in BOOLEAN

VARIABLES
  phase,     (* where km_io_run is                                      *)
  cursor,    (* the local variable handle of the running *_run function *)
  js,        (* what JavaScript runs: "none", a handle's "callback", ... *)
  heap,      (* the lists                                               *)
  live,      (* h is allocated                                          *)
  kind,      (* the type of h                                           *)
  active,    (* KM_IO_FLAG_ACTIVE                                       *)
  closing,   (* KM_IO_FLAG_CLOSING                                      *)
  ref,       (* references h holds on its JavaScript callback           *)
  repeat,    (* timer: setInterval                                      *)
  interval,  (* timer: interval                                         *)
  left       (* timer: clamped_timeout - loop.time                      *)

control == <<phase, cursor, js>>
timing  == <<repeat, interval, left>>
flags   == <<live, kind, active, closing, ref>>
vars    == <<control, heap, flags, timing>>

L == INSTANCE KmList WITH Node <- Handle

ListOf(k) == IF k = "tone" THEN "timer" ELSE k

(* The list h is on by its flags. *)
Where == [h \in Handle |-> IF ~live[h] THEN "none"
                           ELSE IF closing[h] THEN "closing"
                           ELSE ListOf(kind[h])]

Phases == {"boot", "top", "timer", "tty", "watch", "uart", "idle",
           "closing", "custom", "check", "stopped", "exit"}
Scripts == {"none", "load", "eval", "job", "poll", "callback"}

TypeOK ==
  /\ phase \in Phases
  /\ cursor \in L!Pointer
  /\ js \in Scripts
  /\ heap \in L!Heap
  /\ live \in [Handle -> BOOLEAN]
  /\ kind \in [Handle -> AllKinds]
  /\ active \in [Handle -> BOOLEAN]
  /\ closing \in [Handle -> BOOLEAN]
  /\ ref \in [Handle -> Int]
  /\ repeat \in [Handle -> BOOLEAN]
  /\ interval \in [Handle -> Nat]
  /\ left \in [Handle -> Int]

(* main: km_io_init, then the script is loaded and run before the loop. *)
Init ==
  /\ phase = "boot" /\ cursor = NULL /\ js = "load"
  /\ heap = L!EmptyHeap
  /\ live = [h \in Handle |-> FALSE]
  /\ kind = [h \in Handle |-> "timer"]
  /\ active = [h \in Handle |-> FALSE]
  /\ closing = [h \in Handle |-> FALSE]
  /\ ref = [h \in Handle |-> 0]
  /\ repeat = [h \in Handle |-> FALSE]
  /\ interval = [h \in Handle |-> 0]
  /\ left = [h \in Handle |-> 0]

-----------------------------------------------------------------------------
(***************************************************************************)
(* What JavaScript can ask for while it runs.                              *)
(***************************************************************************)

(* A plausible bug: the interval is one tick short. *)
ShortInterval(h, k, rep, d) ==
  /\ ~live[h]
  /\ live' = [live EXCEPT ![h] = TRUE]
  /\ kind' = [kind EXCEPT ![h] = k]
  /\ active' = [active EXCEPT ![h] = TRUE]
  /\ closing' = [closing EXCEPT ![h] = FALSE]
  /\ ref' = [ref EXCEPT ![h] = IF k = "tone" THEN 0 ELSE 1]
  /\ repeat' = [repeat EXCEPT ![h] = rep]
  /\ interval' = [interval EXCEPT ![h] = d - 1]
  /\ left' = [left EXCEPT ![h] = d]
  /\ heap' = L!Append(heap, ListOf(k), h)
  /\ UNCHANGED control

(* malloc, km_io_handle_init and the *_start function append to the list of
   the kind; the flags, the callback and its reference are set. *)
StartHandle(h, k, rep, d) ==
  /\ ~live[h]
  /\ live' = [live EXCEPT ![h] = TRUE]
  /\ kind' = [kind EXCEPT ![h] = k]
  /\ active' = [active EXCEPT ![h] = TRUE]
  /\ closing' = [closing EXCEPT ![h] = FALSE]
  /\ ref' = [ref EXCEPT ![h] = IF k = "tone" THEN 0 ELSE 1]
  /\ repeat' = [repeat EXCEPT ![h] = rep]
  /\ interval' = [interval EXCEPT ![h] = d]
  /\ left' = [left EXCEPT ![h] = d]
  /\ heap' = L!Append(heap, ListOf(k), h)
  /\ UNCHANGED control

(* setTimeout, setInterval *)
SetTimer(h, rep, d) ==
  js # "none" /\ "timer" \in Kinds /\ StartHandle(h, "timer", rep, d)

(* tone(pin, freq, {duration}) *)
SetTone(h, d) ==
  js # "none" /\ "tone" \in Kinds /\ StartHandle(h, "tone", FALSE, d)

(* setWatch *)
SetWatch(h) ==
  js # "none" /\ "watch" \in Kinds /\ StartHandle(h, "watch", FALSE, 0)

(* new UART(port) *)
OpenUart(h) ==
  js # "none" /\ "uart" \in Kinds /\ StartHandle(h, "uart", FALSE, 0)

(* Plausible bugs: the close without the stop, or before it. *)
CloseOnly(h) ==
  /\ active' = [active EXCEPT ![h] = FALSE]
  /\ closing' = [closing EXCEPT ![h] = TRUE]
  /\ heap' = L!Append(heap, "closing", h)

CloseThenStop(h) ==
  /\ active' = [active EXCEPT ![h] = FALSE]
  /\ closing' = [closing EXCEPT ![h] = TRUE]
  /\ heap' = L!Remove(L!Append(heap, "closing", h), ListOf(kind[h]), h)

(* *_stop(handle) and km_io_handle_close(handle, cb): the handle moves from
   the list of its kind to the closing list. *)
StopAndClose(h) ==
  /\ active' = [active EXCEPT ![h] = FALSE]
  /\ closing' = [closing EXCEPT ![h] = TRUE]
  /\ heap' = L!Append(L!Remove(heap, ListOf(kind[h]), h), "closing", h)

(* A plausible bug: the callback is not released. *)
ClearLeaks(h) ==
  /\ js # "none"
  /\ kind[h] # "tone"
  /\ h \in L!Walk(heap, ListOf(kind[h]))
  /\ StopAndClose(h)
  /\ UNCHANGED <<control, live, kind, ref, timing>>

(* clearTimeout, clearInterval, clearWatch, UART.close: the handle is found
   by walking the list of its kind, its callback is released. *)
ClearHandle(h) ==
  /\ js # "none"
  /\ kind[h] # "tone"
  /\ h \in L!Walk(heap, ListOf(kind[h]))
  /\ ref' = [ref EXCEPT ![h] = @ - 1]
  /\ StopAndClose(h)
  /\ UNCHANGED <<control, live, kind, timing>>

-----------------------------------------------------------------------------
(***************************************************************************)
(* The loop.                                                               *)
(***************************************************************************)
Later(x, d) == IF x - d < -MaxLag THEN -MaxLag ELSE x - d

Goto(p, c) == phase' = p /\ cursor' = c

(* The test of stop_flag, km_io_update_time and the call of km_io_timer_run. *)
StartPass ==
  /\ phase = "top"
  /\ Goto("timer", heap.head["timer"])
  /\ \E d \in 0 .. MaxTick :
       left' = [h \in Handle |-> IF active[h] THEN Later(left[h], d) ELSE left[h]]
  /\ UNCHANGED <<js, heap, flags, repeat, interval>>

(* A plausible bug: only the exact tick counts. *)
DueExactly(h) == kind[h] \in {"timer", "tone"} /\ left[h] = 0

Due(h) == kind[h] \in {"timer", "tone"} /\ left[h] < 0

Visiting(p) == phase = p /\ js = "none" /\ cursor # NULL

(* The traversal steps over the handle. *)
Skip(p, cond) ==
  /\ Visiting(p)
  /\ ~active[cursor] \/ cond
  /\ Goto(p, heap.next[cursor])
  /\ UNCHANGED <<js, heap, flags, timing>>

SkipTimer == Skip("timer", ~Due(cursor))
SkipWatch == Skip("watch", TRUE)        (* no edge, or still bouncing *)
SkipUart  == Skip("uart", TRUE)         (* nothing received *)

(* A due timer: a repeating one is moved on, another one is no longer
   active; then its callback is called. *)
FireTimer ==
  /\ Visiting("timer") /\ active[cursor] /\ Due(cursor)
  /\ kind[cursor] = "timer"
  /\ IF repeat[cursor]
     THEN left' = [left EXCEPT ![cursor] = @ + interval[cursor]] /\ UNCHANGED active
     ELSE active' = [active EXCEPT ![cursor] = FALSE] /\ UNCHANGED left
  /\ js' = "callback"
  /\ UNCHANGED <<phase, cursor, heap, live, kind, closing, ref, repeat, interval>>

(* tone_timeout_cb stops and closes its own timer; km_io_timer_run then
   reads the next pointer of the handle it stands on. *)
FireTone ==
  /\ Visiting("timer") /\ active[cursor] /\ Due(cursor)
  /\ kind[cursor] = "tone"
  /\ StopAndClose(cursor)
  /\ Goto("timer", heap'.next[cursor])
  /\ UNCHANGED <<js, live, kind, ref, timing>>

(* A plausible bug: KM_IO_FLAG_ACTIVE is not tested. *)
CallBackAny(p) ==
  /\ Visiting(p)
  /\ js' = "callback"
  /\ UNCHANGED <<phase, cursor, heap, flags, timing>>

(* A watch whose pin changed, a UART with bytes: the callback is called. *)
CallBack(p) ==
  /\ Visiting(p) /\ active[cursor]
  /\ js' = "callback"
  /\ UNCHANGED <<phase, cursor, heap, flags, timing>>

FireWatch == CallBack("watch")
FireUart  == CallBack("uart")

(***************************************************************************)
(* The callback returned, with an exception or not: the end of             *)
(* set_timer_cb, set_watch_cb or uart_read_cb.  Afterwards the traversal   *)
(* reads the next pointer of its handle, whichever list it is on by now.   *)
(***************************************************************************)
ClosesAtReturn(h, threw) ==
  \/ kind[h] = "timer" /\ (threw \/ ~repeat[h])
  \/ kind[h] = "watch" /\ threw

(* A plausible bug: the traversal does not advance. *)
ReturnsInPlace(threw) ==
  /\ js = "callback"
  /\ IF ClosesAtReturn(cursor, threw)
     THEN ref' = [ref EXCEPT ![cursor] = @ - 1] /\ StopAndClose(cursor)
     ELSE UNCHANGED <<ref, active, closing, heap>>
  /\ js' = "none"
  /\ UNCHANGED <<phase, cursor, live, kind, timing>>

CallbackReturns(threw) ==
  /\ js = "callback"
  /\ IF ClosesAtReturn(cursor, threw)
     THEN ref' = [ref EXCEPT ![cursor] = @ - 1] /\ StopAndClose(cursor)
     ELSE UNCHANGED <<ref, active, closing, heap>>
  /\ js' = "none"
  /\ Goto(phase, heap'.next[cursor])
  /\ UNCHANGED <<live, kind, timing>>

(* The end of a traversal; the next function of km_io_run is called. *)
EndOf(p, successor) ==
  /\ phase = p /\ js = "none" /\ cursor = NULL
  /\ Goto(successor, IF successor \in {"watch", "uart"} THEN heap.head[successor] ELSE NULL)
  /\ UNCHANGED <<js, heap, flags, timing>>

EndTimers  == EndOf("timer", "tty")
EndTty     == EndOf("tty", "watch")
EndWatches == EndOf("watch", "uart")
EndUarts   == EndOf("uart", "idle")

(* A line typed at the REPL, or the jobs of resolved promises (the idler is
   started on the boards only, whose loop is infinite). *)
RunScript(p, s) ==
  /\ phase = p /\ js = "none"
  /\ js' = s
  /\ UNCHANGED <<phase, cursor, heap, flags, timing>>

EvalLine == RunScript("tty", "eval")
RunJobs  == Infinite /\ RunScript("idle", "job")

(* km_custom_infinite_loop polls the network driver, whose callbacks call
   JavaScript; there is no such driver where the loop is not infinite. *)
Poll == Infinite /\ RunScript("custom", "poll")

(* The end of a script: jobs and polling run once in a pass, the loaded
   script once before the loop; the terminal may have more input. *)
ScriptReturns ==
  /\ js \in {"load", "eval", "job", "poll"}
  /\ js' = "none"
  /\ Goto(CASE phase = "boot" -> "top"
            [] phase = "idle" -> "closing"
            [] phase = "custom" -> "check"
            [] OTHER -> phase, NULL)
  /\ UNCHANGED <<heap, flags, timing>>

EndIdle   == EndOf("idle", "closing")
EndCustom == EndOf("custom", "check")

(* A plausible bug: the lists are not reinitialised. *)
CleanupKeepsLists ==
  LET doomed == UNION {L!Walk(heap, l) : l \in List \ {"closing"}} IN
  /\ live' = [h \in Handle |-> live[h] /\ h \notin doomed]
  /\ ref' = [h \in Handle |-> IF h \in doomed THEN 0 ELSE ref[h]]
  /\ active' = [h \in Handle |-> active[h] /\ h \notin doomed]
  /\ UNCHANGED <<kind, closing, timing, heap>>

(* km_io_cleanup: every handle on the timer, watch and uart lists is freed
   and the lists are emptied; the closing list and the terminal stay. *)
Cleanup ==
  LET cleaned == List \ {"closing"}
      doomed  == UNION {L!Walk(heap, l) : l \in cleaned} IN
  /\ live' = [h \in Handle |-> live[h] /\ h \notin doomed]
  /\ ref' = [h \in Handle |-> IF h \in doomed THEN 0 ELSE ref[h]]
  /\ active' = [h \in Handle |-> active[h] /\ h \notin doomed]
  /\ heap' = L!Clear(heap, cleaned)
  /\ UNCHANGED <<kind, closing, timing>>

(* .reset or Ctrl-D; .load runs the program in flash next. *)
SoftReset(s) ==
  /\ phase = "tty" /\ js = "none"
  /\ Cleanup
  /\ js' = s
  /\ UNCHANGED <<phase, cursor>>

Reset == SoftReset("none")
Load  == SoftReset("load")

(* The loaded script threw: km_runtime_load cleans up and starts an empty
   runtime; main of the linux target returns instead. *)
LoadFails ==
  /\ js = "load"
  /\ js' = "none"
  /\ IF phase = "boot" /\ ~Infinite
     THEN Goto("exit", NULL) /\ UNCHANGED <<heap, flags, timing>>
     ELSE Goto(IF phase = "boot" THEN "top" ELSE phase, NULL) /\ Cleanup

(* km_io_handle_closing: the head is removed and freed. *)
FreeClosing ==
  /\ phase = "closing" /\ heap.head["closing"] # NULL
  /\ LET h == heap.head["closing"] IN
     /\ heap' = L!Remove(heap, "closing", h)
     /\ live' = [live EXCEPT ![h] = FALSE]
     /\ closing' = [closing EXCEPT ![h] = FALSE]
  /\ UNCHANGED <<control, kind, active, ref, timing>>

(* A plausible bug: the closing list is not emptied. *)
EndClosingEarly == EndOf("closing", "custom")

EndClosing == heap.head["closing"] = NULL /\ EndOf("closing", "custom")

(* A plausible bug: the test of uart_handles is missing. *)
CheckStopNoUart ==
  /\ phase = "check"
  /\ Goto(IF ~Infinite /\ \A l \in List \ {"uart"} : heap.head[l] = NULL
          THEN "stopped" ELSE "top", NULL)
  /\ UNCHANGED <<js, heap, flags, timing>>

(* The bottom of km_io_run. *)
CheckStop ==
  /\ phase = "check"
  /\ Goto(IF ~Infinite /\ \A l \in List : heap.head[l] = NULL
          THEN "stopped" ELSE "top", NULL)
  /\ UNCHANGED <<js, heap, flags, timing>>

-----------------------------------------------------------------------------
(* Steps of the loop itself, which it always goes on taking. *)
LoopStep ==
  \/ StartPass \/ SkipTimer \/ FireTone \/ EndTimers
  \/ SkipWatch \/ EndWatches \/ SkipUart \/ EndUarts
  \/ EndIdle \/ FreeClosing \/ EndClosing \/ EndCustom \/ CheckStop

Creates ==
  \E h \in Handle :
    \/ \E rep \in BOOLEAN, d \in Delays : SetTimer(h, rep, d)
    \/ \E d \in Delays : SetTone(h, d)
    \/ SetWatch(h)
    \/ OpenUart(h)

Fires == FireTimer \/ FireWatch \/ FireUart

Terminal == EvalLine \/ Reset \/ Load

(***************************************************************************)
(* What every supported script obeys.  A callback may clear its own        *)
(* interval, watch or UART (src/modules/at/at.js and __ujest.js do), but   *)
(* not throw afterwards, and the callback of a timeout does not clear that *)
(* timeout: set_timer_cb closes the handle after the callback whether or   *)
(* not it is closed already (AnyScript below).                             *)
(***************************************************************************)
OwnTimeout(h) == js = "callback" /\ h = cursor /\ kind[h] = "timer" /\ ~repeat[h]

Clears  == \E h \in Handle : ~OwnTimeout(h) /\ ClearHandle(h)
Returns ==
  /\ js = "callback"
  /\ \E threw \in BOOLEAN : (threw => ~closing[cursor]) /\ CallbackReturns(threw)

Next ==
  \/ LoopStep \/ EndTty \/ Fires \/ Terminal \/ RunJobs \/ Poll
  \/ Creates \/ Clears \/ Returns \/ ScriptReturns \/ LoadFails

(* Scripts without that restriction. *)
AnyClears  == \E h \in Handle : ClearHandle(h)
AnyReturns == \E threw \in BOOLEAN : CallbackReturns(threw)

NextAny ==
  \/ LoopStep \/ EndTty \/ Fires \/ Terminal \/ RunJobs \/ Poll
  \/ Creates \/ AnyClears \/ AnyReturns \/ ScriptReturns \/ LoadFails

(***************************************************************************)
(* The loop runs on, callbacks and scripts end, and so does the input the  *)
(* terminal had buffered when km_io_tty_run looked.  Nothing makes the     *)
(* user type, a pin change or a script create a timer.                     *)
(***************************************************************************)
Fairness ==
  /\ WF_vars(LoopStep)
  /\ WF_vars(FireTimer)
  /\ WF_vars(Returns)
  /\ WF_vars(ScriptReturns)
  /\ SF_vars(EndTty)

Spec == Init /\ [][Next]_vars
FairSpec == Spec /\ Fairness
AnyScript == Init /\ [][NextAny]_vars

-----------------------------------------------------------------------------
(* The lists hold exactly the handles whose flags put them there: stop and
   close move a handle atomically with respect to every traversal. *)
ListsAgree == L!WellLinked(heap, Where)

(* No pointer the program can follow leads to freed memory: not the ends of
   the lists, not the links of a live handle, and not the handle a traversal
   stands on while the callback it called clears, closes or resets. *)
NoDangling ==
  LET Sound(p) == p = NULL \/ live[p] IN
  /\ Sound(cursor)
  /\ \A l \in List : Sound(heap.head[l]) /\ Sound(heap.tail[l])
  /\ \A h \in Handle : live[h] => Sound(heap.next[h]) /\ Sound(heap.prev[h])

(* No handle is lost: every allocated handle is met by a walk of the list
   its flags put it on, so it can be called, cleared, freed or cleaned up. *)
NoneLost == \A h \in Handle : live[h] => h \in L!Walk(heap, Where[h])

(* The JavaScript callback is referenced exactly once from the start of its
   handle to its close, and released exactly once: set_timer_cb after a
   one-shot call and clear_timer_fn never both release it. *)
CallbackHeldOnce ==
  \A h \in Handle :
    ref[h] = IF live[h] /\ ~closing[h] /\ kind[h] # "tone" THEN 1 ELSE 0

(* io.c says of the end of km_io_run "quite if there no IO handles": the
   loop stops only when no handle is left, running or waiting for its free. *)
StopsOnlyWhenEmpty == phase = "stopped" => \A h \in Handle : ~live[h]

(* The service scripts rely on: see HandleService. *)
Service ==
  INSTANCE HandleService WITH
    state <- [h \in Handle |-> IF ~live[h] THEN "free"
                               ELSE IF closing[h] THEN "closed" ELSE "armed"],
    once  <- [h \in Handle |-> live[h] /\ kind[h] = "timer" /\ ~repeat[h]],
    busy  <- IF js = "callback" THEN cursor ELSE NULL

(* The handles implement that service: a callback is only ever called for a
   handle nobody has cleared, one at a time, a timeout's at most once, and a
   handle is freed after its close only, and never under a running callback. *)
ImplementsService == Service!Spec

(* Every handle that is closed is freed: km_io_handle_closing gets to it. *)
ClosedIsFreed == \A h \in Handle : closing[h] ~> ~live[h]

(* A due timer is called although a one-shot call ends the traversal: after
   it, the next pointer read is that of the closing list. *)
DueIsCalled ==
  \A h \in Handle :
    (live[h] /\ kind[h] = "timer" /\ active[h] /\ left[h] < 0) ~>
      (~active[h] \/ (js = "callback" /\ cursor = h))

(* The loop always comes round: a traversal ends although its callbacks
   start, clear and close the handles of the very list it walks. *)
PassesForever == []<>(phase = "top")
=============================================================================
