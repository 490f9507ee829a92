----------------------------- MODULE ATCommand -----------------------------
(***************************************************************************)
(* The queue of AT commands of at.js, with a modem at the other end of the *)
(* serial line.                                                            *)
(*                                                                         *)
(* process() is called by an interval timer and runs to its end; the data  *)
(* of the serial line come between two calls.  A callback of the script    *)
(* may call send(), which appends to the queue while process() removes     *)
(* from its front: the two commute, so that send() is a step of its own.   *)
(* The modem answers commands in their order, late or never, and sends     *)
(* lines of its own, for which the script has two handlers: one takes a    *)
(* line, the other a line and the line after it, whatever that reads.      *)
(* Jobs are numbered as they are queued.                                   *)
(***************************************************************************)
EXTENDS Integers, Sequences, FiniteSets

CONSTANTS
  MaxJobs,  (* bound: calls of send()                                      *)
  MaxOwn,   (* bound: lines the modem sends of its own                     *)
  Limit     (* calls of process() after which a job gives up               *)

ASSUME ATAssumption == MaxJobs \in Nat /\ MaxOwn \in Nat /\ Limit \in Nat

VARIABLES
  queue,    (* this.queue                                                  *)
  started,  (* queue[0].started                                            *)
  elapsed,  (* millis() - queue[0].time, in calls of process()             *)
  buffer,   (* this.buffer: its whole lines                                *)
  half,     (* and the line at its end that is not complete                *)
  open,     (* close() was not called                                      *)
  pending,  (* commands the modem has not answered                         *)
  payload,  (* the line of a payload that the modem still has to send      *)
  jobs,     (* how many jobs were queued                                   *)
  came,     (* how many lines of its own the modem sent                    *)
  wrote,    (* the jobs whose command was written                          *)
  done,     (* the jobs that completed, with what their callback was given *)
  handled   (* the lines the handlers were given                           *)

vars == <<queue, started, elapsed, buffer, half, open, pending, payload,
          jobs, came, wrote, done, handled>>

Job  == 1 .. MaxJobs
Own  == 1 .. MaxOwn

(* A job waits for a line that reads OK, or for some time. *)
QueuedJob == [id : Job, waitFor : {"line", "time"}]

(* A line that reads OK is an answer or a payload; a line that a handler is
   there for is a note, or the header of a payload; any other is noise. *)
Line == [kind : {"answer"}, of : Job]
          \cup [kind : {"note", "header", "payload"}, of : Own] \cup [kind : {"noise"}]

Done == [id : Job, result : {"line"}, of : Line] \cup [id : Job, result : {"timeout", "end"}]

TypeOK ==
  /\ queue \in Seq(QueuedJob) /\ started \in BOOLEAN
  /\ elapsed \in 0 .. Limit + 1
  /\ buffer \in Seq(Line) /\ half \in Seq(Line) /\ Len(half) <= 1
  /\ open \in BOOLEAN
  /\ pending \in Seq(Job) /\ payload \in Seq(Line) /\ Len(payload) <= 1
  /\ jobs \in 0 .. MaxJobs /\ came \in 0 .. MaxOwn
  /\ wrote \in Seq(Job) /\ done \in Seq(Done) /\ handled \in Seq(Line)

Init ==
  /\ queue = <<>> /\ started = FALSE /\ elapsed = 0
  /\ buffer = <<>> /\ half = <<>> /\ open = TRUE
  /\ pending = <<>> /\ payload = <<>>
  /\ jobs = 0 /\ came = 0
  /\ wrote = <<>> /\ done = <<>> /\ handled = <<>>

script == <<queue, started, elapsed, open, jobs, wrote, done, handled>>
modem  == <<half, pending, payload, came>>

-----------------------------------------------------------------------------
(* The script. *)

(* A plausible bug: there is no default for what is waited for. *)
SendNoDefault(waitFor) ==
  /\ jobs < MaxJobs
  /\ jobs' = jobs + 1
  /\ \E w \in {waitFor, "undefined"} : queue' = Append(queue, [id |-> jobs + 1, waitFor |-> w])
  /\ UNCHANGED <<started, elapsed, buffer, open, wrote, done, handled, modem>>

Send(waitFor) ==
  /\ jobs < MaxJobs
  /\ jobs' = jobs + 1
  /\ queue' = Append(queue, [id |-> jobs + 1, waitFor |-> waitFor])
  /\ UNCHANGED <<started, elapsed, buffer, open, wrote, done, handled, modem>>

Close ==
  /\ open /\ open' = FALSE
  /\ UNCHANGED <<queue, started, elapsed, buffer, jobs, wrote, done, handled, modem>>

-----------------------------------------------------------------------------
(* process() *)

Waits == queue # <<>> /\ started /\ Head(queue).waitFor = "line"
IsOK(line) == line.kind \in {"answer", "payload"}

IsResult(line)  == Waits /\ IsOK(line)
HasHandler(line) == line.kind \in {"note", "header"}

(* The k-th line of the buffer is the first that is not dropped. *)
First(k) ==
  /\ k \in 1 .. Len(buffer)
  /\ IsResult(buffer[k]) \/ HasHandler(buffer[k])
  /\ \A i \in 1 .. k - 1 : ~IsResult(buffer[i]) /\ ~HasHandler(buffer[i])

After(k) == SubSeq(buffer, k + 1, Len(buffer))

(* A plausible bug: the job stays in the queue. *)
CompleteInPlace(entry) ==
  /\ done' = Append(done, entry)
  /\ queue' = queue /\ started' = FALSE /\ elapsed' = 0

(* _completeJob *)
Complete(entry) ==
  /\ done' = Append(done, entry)
  /\ queue' = Tail(queue) /\ started' = FALSE /\ elapsed' = 0

(* Time that passes while a job is in flight. *)
Later == IF started /\ elapsed <= Limit THEN elapsed + 1 ELSE elapsed

TakeResult(k) ==
  /\ First(k) /\ IsResult(buffer[k])
  /\ buffer' = After(k)
  /\ Complete([id |-> Head(queue).id, result |-> "line", of |-> buffer[k]])
  /\ UNCHANGED <<wrote, pending, handled>>

(* A plausible bug: the payload is left in the buffer. *)
HandleHeaderOnly(k) ==
  /\ First(k) /\ ~IsResult(buffer[k])
  /\ handled' = Append(handled, buffer[k])
  /\ buffer' = After(k)
  /\ elapsed' = Later /\ UNCHANGED <<queue, started, wrote, pending, done>>

(* A plausible bug: a line that was handled stays in the buffer. *)
HandleInPlace(k) ==
  /\ First(k) /\ ~IsResult(buffer[k])
  /\ handled' = Append(handled, buffer[k])
  /\ \/ buffer[k].kind = "note" /\ buffer' = SubSeq(buffer, k, Len(buffer))
     \/ buffer[k].kind = "header" /\ k < Len(buffer) /\ buffer' = After(k + 1)
  /\ elapsed' = Later /\ UNCHANGED <<queue, started, wrote, pending, done>>

(* The handler is done with the line, or has also taken the next line and
   returns what is left of the buffer. *)
Handle(k) ==
  /\ First(k) /\ ~IsResult(buffer[k])
  /\ handled' = Append(handled, buffer[k])
  /\ \/ buffer[k].kind = "note" /\ buffer' = After(k)
     \/ buffer[k].kind = "header" /\ k < Len(buffer) /\ buffer' = After(k + 1)
  /\ elapsed' = Later /\ UNCHANGED <<queue, started, wrote, pending, done>>

(* A plausible bug: the line is not put back. *)
UnpopNothing(k) ==
  /\ First(k) /\ ~IsResult(buffer[k])
  /\ buffer[k].kind = "header" /\ k = Len(buffer)
  /\ buffer' = After(k)
  /\ elapsed' = Later /\ UNCHANGED <<queue, started, wrote, pending, done, handled>>

(* The handler needs more data: the line goes back.  No job is started and
   no timeout looked at. *)
Unpop(k) ==
  /\ First(k) /\ ~IsResult(buffer[k])
  /\ buffer[k].kind = "header" /\ k = Len(buffer)
  /\ buffer' = SubSeq(buffer, k, Len(buffer))
  /\ elapsed' = Later /\ UNCHANGED <<queue, started, wrote, pending, done, handled>>

(* A plausible bug: a job in flight is started again. *)
StartAnyJob ==
  /\ queue # <<>> /\ Len(pending) < MaxJobs
  /\ started' = TRUE /\ elapsed' = 0
  /\ wrote' = Append(wrote, Head(queue).id)
  /\ pending' = Append(pending, Head(queue).id)
  /\ UNCHANGED <<queue, done>>

(* _startJob *)
StartJob ==
  /\ queue # <<>> /\ ~started
  /\ started' = TRUE /\ elapsed' = 0
  /\ wrote' = Append(wrote, Head(queue).id)
  /\ pending' = Append(pending, Head(queue).id)
  /\ UNCHANGED <<queue, done>>

(* A plausible bug: the time of a job that waits for lines is not looked at. *)
GiveUpTimed ==
  /\ queue # <<>> /\ started /\ Later > Limit /\ Head(queue).waitFor = "time"
  /\ Complete([id |-> Head(queue).id, result |-> "end"])
  /\ UNCHANGED <<wrote, pending>>

GiveUp ==
  /\ queue # <<>> /\ started /\ Later > Limit
  /\ Complete([id |-> Head(queue).id,
               result |-> IF Head(queue).waitFor = "time" THEN "end" ELSE "timeout"])
  /\ UNCHANGED <<wrote, pending>>

Wait ==
  /\ queue = <<>> \/ (started /\ Later <= Limit)
  /\ elapsed' = Later /\ UNCHANGED <<queue, started, wrote, pending, done>>

(* No line is left: a job is started or its time is looked at. *)
NoMoreLines ==
  /\ \A k \in DOMAIN buffer : ~First(k)
  /\ buffer' = <<>>
  /\ StartJob \/ GiveUp \/ Wait
  /\ UNCHANGED handled

Process ==
  /\ open
  /\ (\E k \in DOMAIN buffer : TakeResult(k) \/ Handle(k) \/ Unpop(k)) \/ NoMoreLines
  /\ UNCHANGED <<half, open, payload, jobs, came>>

-----------------------------------------------------------------------------
(* The modem and the line: a line comes whole or in two pieces. *)

Sends(line) ==
  /\ half = <<>>
  /\ \/ buffer' = (IF open THEN Append(buffer, line) ELSE buffer) /\ half' = half
     \/ buffer' = buffer /\ half' = <<line>>

Rest ==
  /\ half # <<>>
  /\ buffer' = (IF open THEN Append(buffer, half[1]) ELSE buffer) /\ half' = <<>>
  /\ UNCHANGED <<script, pending, payload, came>>

Answer ==
  /\ pending # <<>> /\ payload = <<>>
  /\ Sends([kind |-> "answer", of |-> Head(pending)])
  /\ pending' = Tail(pending)
  /\ UNCHANGED <<script, payload, came>>

Ignore ==
  /\ pending # <<>> /\ pending' = Tail(pending)
  /\ UNCHANGED <<script, buffer, half, payload, came>>

SendOwn ==
  /\ came < MaxOwn /\ payload = <<>>
  /\ came' = came + 1
  /\ \/ Sends([kind |-> "noise"]) /\ payload' = payload
     \/ Sends([kind |-> "note", of |-> came + 1]) /\ payload' = payload
     \/ /\ Sends([kind |-> "header", of |-> came + 1])
        /\ payload' = <<[kind |-> "payload", of |-> came + 1]>>
  /\ UNCHANGED <<script, pending>>

SendPayload ==
  /\ payload # <<>> /\ Sends(payload[1]) /\ payload' = <<>>
  /\ UNCHANGED <<script, pending, came>>

Modem == Rest \/ Answer \/ Ignore \/ SendOwn \/ SendPayload

Next == (\E w \in {"line", "time"} : Send(w)) \/ Close \/ Process \/ Modem

Spec == Init /\ [][Next]_vars

(* The interval timer is served, and the modem ends a line and sends the
   payload it announced.  It need not answer. *)
FairSpec == Spec /\ WF_vars(Process) /\ WF_vars(Rest) /\ WF_vars(SendPayload)

-----------------------------------------------------------------------------
(* Commands are processed sequentially: they are written in the order they
   were queued, each once, and the next only when the one before completed;
   every callback is called once and in that order. *)
Sequential ==
  /\ \A i \in DOMAIN wrote : wrote[i] = i
  /\ \A i \in DOMAIN done : done[i].id = i
  /\ Len(done) <= Len(wrote) /\ Len(wrote) <= Len(done) + 1
  /\ started <=> Len(wrote) = Len(done) + 1
  /\ \A i \in DOMAIN queue : queue[i].id = Len(done) + i
  /\ jobs = Len(done) + Len(queue)

(* A job is given the answer to its own command, or to an earlier one, and
   then as many jobs before it were given up as it is behind.  (One answer
   that comes late shifts all later ones: nothing brings the two in step.)
   A payload that reads like an answer is never taken for one, however the
   pieces of the line come and however often its header is put back. *)
AnswersShift ==
  \A i \in DOMAIN done : done[i].result = "line" =>
    /\ done[i].of.kind = "answer"
    /\ done[i].of.of \in
         i - Cardinality({k \in 1 .. i - 1 : done[k].result # "line"}) .. i

(* The handlers are given the lines they are for in the order they came, none
   twice. *)
HandledInOrder ==
  \A i, j \in DOMAIN handled : i < j => handled[i].of < handled[j].of

(* Every job completes: with a result, with its timeout, or after its time.
   The modem need not answer, but what it announces must come: no timeout is
   looked at while a handler waits for more data. *)
EveryJobCompletes == \A j \in Job : jobs >= j ~> Len(done) >= j \/ ~open

(* Every line that has a handler reaches it. *)
EveryLineHandled ==
  \A n \in Own :
    (\E i \in DOMAIN buffer : HasHandler(buffer[i]) /\ buffer[i].of = n)
      ~> ~open \/ \E i \in DOMAIN handled : handled[i].of = n
=============================================================================
