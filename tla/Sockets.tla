------------------------------ MODULE Sockets ------------------------------
(***************************************************************************)
(* Sockets of the Pico W: the descriptor table of module_pico_cyw43.c, the *)
(* classes Socket and Server of net.js on it, and the Writable of          *)
(* stream.js a Socket is made of.                                          *)
(*                                                                         *)
(* C and JavaScript run on one thread.  A step is one call, from its       *)
(* beginning to its end or to a listener of the script in the middle of    *)
(* it; `frames' is the stack of the calls that wait for such a listener,   *)
(* which may make further calls.  The loop serves timers and the network   *)
(* (km_io_timer_run, km_cyw43_infinite_loop) when no call is going on.     *)
(* The bytes given to all Sockets are numbered in the order of the writes. *)
(*                                                                         *)
(* The script keeps some rules: see MayOpen and CloseServer.  Addresses    *)
(* are numeric, so that no call waits for a name server; a peer closes a   *)
(* connection and never resets it.  lwIP gives its end to the callback     *)
(* that was set for it also after the board has closed its own side.       *)
(***************************************************************************)
EXTENDS Integers, Sequences

CONSTANTS
  TableSize,  (* KM_MAX_SOCKET_NO                                          *)
  Client,     (* the Sockets that the script connects                      *)
  Accepted,   (* the Sockets that a Server makes                           *)
  Conn,       (* TCP connections; each lives once                          *)
  NONE,
  MaxBytes    (* bound: bytes the script writes                            *)

Sock == Client \cup Accepted

ASSUME SocketsAssumption ==
  /\ TableSize \in Nat \ {0} /\ MaxBytes \in Nat
  /\ Client \cap Accepted = {} /\ NONE \notin Sock \cup Conn

VARIABLES
  tbl,      (* __socket_info.socket                                        *)
  sk,       (* the Sockets                                                 *)
  srv,      (* _fd of the Server in use                                    *)
  timers,   (* the pending setTimeout(() => flush(cb), 0), in their order  *)
  frames,   (* the calls that wait for a listener                          *)
  net,      (* the connections, as lwIP sees them                          *)
  own,      (* the connection a Socket was made for                        *)
  given,    (* the Socket that a byte was written to                       *)
  sent,     (* what went out on a connection                               *)
  lost,     (* the bytes that an 'error' was emitted for                   *)
  failed,   (* the Sockets that emitted an 'error'                         *)
  fin       (* the Socket that shut a connection down                      *)

vars == <<tbl, sk, srv, timers, frames, net, own, given, sent, lost, failed, fin>>

Fd   == 0 .. TableSize - 1
NoFd == -1
Byte == 1 .. MaxBytes

(* A free entry; obj tells whether it refers to a JavaScript object, bound
   is the Socket whose callbacks are set on that object. *)
FreeEntry == [open |-> FALSE, server |-> NoFd, state |-> "closed",
              pcb |-> NONE, obj |-> FALSE, bound |-> NONE]

NewSocket == [fd |-> NoFd, wbuf |-> <<>>, ended |-> FALSE, finished |-> FALSE,
              destroyed |-> FALSE]

Entry == [open : BOOLEAN, server : Fd \cup {NoFd},
          state : {"closed", "connected", "listening"},
          pcb : Conn \cup {NONE}, obj : BOOLEAN, bound : Sock \cup {NONE}]
SocketObject == [fd : Fd \cup {NoFd}, wbuf : Seq(Byte), ended : BOOLEAN,
                 finished : BOOLEAN, destroyed : BOOLEAN]
Timer == [sock : Sock, then : {"nothing", "finish"}]

(* In a 'close' listener: the entry that is being closed and the Socket, if
   any, whose destroy() closes it.  In an 'error' listener: the Socket whose
   flush() failed. *)
Frame == [on : {"close"}, fd : Fd, sock : Sock \cup {NONE}]
           \cup [on : {"error"}, sock : Sock]

TypeOK ==
  /\ tbl \in [Fd -> Entry] /\ sk \in [Sock -> SocketObject]
  /\ srv \in Fd \cup {NoFd}
  /\ timers \in Seq(Timer) /\ frames \in Seq(Frame)
  /\ net \in [Conn -> {"new", "failed", "opening", "open", "ended"}]
  /\ own \in [Sock -> Conn \cup {NONE}]
  /\ given \in Seq(Sock) /\ Len(given) <= MaxBytes
  /\ sent \in [Conn -> Seq(Byte)] /\ lost \subseteq Byte
  /\ failed \subseteq Sock /\ fin \in [Conn -> Sock \cup {NONE}]

Init ==
  /\ tbl = [f \in Fd |-> FreeEntry] /\ sk = [s \in Sock |-> NewSocket]
  /\ srv = NoFd /\ timers = <<>> /\ frames = <<>>
  /\ net = [c \in Conn |-> "new"] /\ own = [s \in Sock |-> NONE]
  /\ given = <<>> /\ sent = [c \in Conn |-> <<>>]
  /\ lost = {} /\ failed = {} /\ fin = [c \in Conn |-> NONE]

-----------------------------------------------------------------------------
(* The rules the script keeps: it opens nothing in a 'close' listener,
   writes nothing to a Socket in its 'error' listener, ends a Socket once,
   and does not destroy a Socket of a server whose connection is gone. *)
MayOpen     == \A i \in DOMAIN frames : frames[i].on # "close"
MayWrite(s) == \A i \in DOMAIN frames : frames[i] # [on |-> "error", sock |-> s]
MayEnd(s)   == ~sk[s].ended
MayDestroy(s) == s \in Accepted => tbl[sk[s].fd].pcb = own[s]

-----------------------------------------------------------------------------
(* Opening. *)

(* km_get_socket_fd: the first entry that is free. *)
IsNext(f) == ~tbl[f].open /\ \A g \in Fd : g < f => tbl[g].open

(* A plausible bug: the callbacks are left as they were. *)
OpenedUnbound(s, c, state) ==
  [open |-> TRUE, server |-> NoFd, state |-> state, pcb |-> c,
   obj |-> TRUE, bound |-> NONE]

(* dev.socket, and the callbacks that Socket._socket sets on its object. *)
Opened(s, c, state) ==
  [open |-> TRUE, server |-> NoFd, state |-> state, pcb |-> c,
   obj |-> TRUE, bound |-> s]

(* A connection and a Socket that were not used yet; which of them does not
   matter. *)
NewConn(c)   == net[c] = "new" /\ c = CHOOSE d \in Conn : net[d] = "new"
NewClient(s) == sk[s].fd = NoFd /\ s = CHOOSE x \in Accepted : sk[x].fd = NoFd

(* A plausible bug: the descriptor of a full table is not checked. *)
ConnectUnchecked(s, c, f) ==
  /\ MayOpen /\ sk[s].fd = NoFd /\ NewConn(c)
  /\ \/ /\ IsNext(f) /\ tbl' = [tbl EXCEPT ![f] = Opened(s, c, "connected")]
        /\ sk' = [sk EXCEPT ![s].fd = f]
     \/ /\ \A g \in Fd : tbl[g].open
        /\ sk' = [sk EXCEPT ![s].fd = TableSize] /\ tbl' = tbl
  /\ net' = [net EXCEPT ![c] = "opening"]
  /\ own' = [own EXCEPT ![s] = c]
  /\ UNCHANGED <<srv, timers, frames, given, sent, lost, failed, fin>>

(* Socket.connect.  tcp_connect either starts, and the entry is connected at
   once, or refuses: then the pcb stays in the entry and 'error' is emitted.
   When there is no memory for a pcb, the entry is connected without one. *)
Connect(s, c, f) ==
  /\ MayOpen /\ sk[s].fd = NoFd /\ NewConn(c) /\ IsNext(f)
  /\ \/ /\ tbl' = [tbl EXCEPT ![f] = Opened(s, c, "connected")]
        /\ net' = [net EXCEPT ![c] = "opening"] /\ failed' = failed
        /\ own' = [own EXCEPT ![s] = c]
     \/ /\ tbl' = [tbl EXCEPT ![f] = Opened(s, c, "closed")]
        /\ net' = [net EXCEPT ![c] = "failed"] /\ failed' = failed \cup {s}
        /\ own' = [own EXCEPT ![s] = c]
     \/ /\ tbl' = [tbl EXCEPT ![f] = Opened(s, NONE, "connected")]
        /\ UNCHANGED <<net, own, failed>>
  /\ sk' = [sk EXCEPT ![s].fd = f]
  /\ UNCHANGED <<srv, timers, frames, given, sent, lost, fin>>

(* Server.listen of a new Server: dev.socket, bind, listen.  If the port is
   taken the entry stays closed. *)
Listen(f) ==
  /\ MayOpen /\ srv = NoFd /\ IsNext(f)
  /\ \E state \in {"listening", "closed"} :
       tbl' = [tbl EXCEPT ![f] = Opened(NONE, NONE, state)]
  /\ srv' = f
  /\ UNCHANGED <<sk, timers, frames, net, own, given, sent, lost, failed, fin>>

-----------------------------------------------------------------------------
(* Writing: Writable of stream.js with the write and shutdown of the device.
   In the operators st is the Socket as far as the call has changed it, and
   ts are the timers. *)

(* tcp_write takes bytes for this entry. *)
Takes(f) ==
  /\ f # NoFd /\ tbl[f].state = "connected"
  /\ tbl[f].pcb # NONE /\ fin[tbl[f].pcb] = NONE

Output(st) == sent' = [sent EXCEPT ![tbl[st.fd].pcb] = @ \o st.wbuf]

(* A plausible bug: the buffer is cleared only by the timer. *)
HandsOverKeeping(s, st, then, ts) ==
  /\ Takes(st.fd) /\ Output(st)
  /\ sk' = [sk EXCEPT ![s] = st]
  /\ timers' = Append(ts, [sock |-> s, then |-> then])
  /\ UNCHANGED <<frames, lost, failed>>

(* A plausible bug: the timer forgets the callback. *)
HandsOverForgets(s, st, then, ts) ==
  /\ Takes(st.fd) /\ Output(st)
  /\ sk' = [sk EXCEPT ![s] = [st EXCEPT !.wbuf = <<>>]]
  /\ timers' = Append(ts, [sock |-> s, then |-> "nothing"])
  /\ UNCHANGED <<frames, lost, failed>>

(* flush: the device calls back inside _write, when the buffer still holds
   what was written, so that another flush is put off to a timer. *)
HandsOver(s, st, then, ts) ==
  /\ Takes(st.fd) /\ Output(st)
  /\ sk' = [sk EXCEPT ![s] = [st EXCEPT !.wbuf = <<>>]]
  /\ timers' = Append(ts, [sock |-> s, then |-> then])
  /\ UNCHANGED <<frames, lost, failed>>

(* flush: the device refuses, which it does also when tcp_output fails after
   tcp_write has taken the bytes. *)
Refused(s, st, ts) ==
  /\ sent' = sent \/ (Takes(st.fd) /\ Output(st))
  /\ sk' = [sk EXCEPT ![s] = [st EXCEPT !.wbuf = <<>>]]
  /\ lost' = lost \cup {st.wbuf[i] : i \in DOMAIN st.wbuf}
  /\ failed' = failed \cup {s}
  /\ frames' = Append(frames, [on |-> "error", sock |-> s])
  /\ timers' = ts

(* tcp_shutdown, or that there is nothing to shut down. *)
MayShutDown(f) ==
  /\ tbl[f].state # "listening"
  /\ tbl[f].pcb # NONE => net[tbl[f].pcb] = "open" /\ fin[tbl[f].pcb] = NONE

(* finish() and _afterFinish.  Without a pcb nothing is shut down, and that is
   no error. *)
Finish(s, st) ==
  \/ /\ ~st.ended \/ st.wbuf # <<>>
     /\ sk' = [sk EXCEPT ![s] = st] /\ UNCHANGED <<fin, failed>>
  \/ /\ st.ended /\ st.wbuf = <<>> /\ MayShutDown(st.fd)
     /\ fin' = [c \in Conn |-> IF c = tbl[st.fd].pcb THEN s ELSE fin[c]]
     /\ sk' = [sk EXCEPT ![s] = [st EXCEPT !.finished = TRUE]] /\ failed' = failed
  \/ /\ st.ended /\ st.wbuf = <<>> /\ ~MayShutDown(st.fd)
     /\ sk' = [sk EXCEPT ![s] = st] /\ failed' = failed \cup {s} /\ fin' = fin

(* flush(cb), cb being finish() or nothing. *)
Flush(s, st, then, ts) ==
  \/ /\ ~st.finished /\ st.wbuf # <<>>
     /\ HandsOver(s, st, then, ts) \/ Refused(s, st, ts)
     /\ fin' = fin
  \/ /\ st.finished \/ st.wbuf = <<>>
     /\ IF then = "finish"
          THEN Finish(s, st)
          ELSE sk' = [sk EXCEPT ![s] = st] /\ UNCHANGED <<fin, failed>>
     /\ timers' = ts /\ UNCHANGED <<frames, sent, lost>>

Added(s) == [sk[s] EXCEPT !.wbuf = Append(@, Len(given) + 1)]

(* A plausible bug: bytes are taken after end(). *)
WriteAfterEnd(s) ==
  /\ MayWrite(s) /\ sk[s].fd # NoFd /\ Len(given) < MaxBytes
  /\ sk' = [sk EXCEPT ![s] = Added(s)]
  /\ given' = Append(given, s)
  /\ timers' = Append(timers, [sock |-> s, then |-> "nothing"])
  /\ UNCHANGED <<tbl, srv, frames, net, own, sent, lost, failed, fin>>

(* Writable.write *)
Write(s) ==
  /\ MayWrite(s) /\ sk[s].fd # NoFd /\ ~sk[s].ended /\ Len(given) < MaxBytes
  /\ sk' = [sk EXCEPT ![s] = Added(s)]
  /\ given' = Append(given, s)
  /\ timers' = Append(timers, [sock |-> s, then |-> "nothing"])
  /\ UNCHANGED <<tbl, srv, frames, net, own, sent, lost, failed, fin>>

(* Writable.end: without a chunk, and with one. *)
End(s) ==
  /\ MayEnd(s) /\ sk[s].fd # NoFd
  /\ Flush(s, [sk[s] EXCEPT !.ended = TRUE], "finish", timers)
  /\ UNCHANGED <<tbl, srv, net, own, given>>

EndWith(s) ==
  /\ MayEnd(s) /\ MayWrite(s) /\ sk[s].fd # NoFd /\ Len(given) < MaxBytes
  /\ given' = Append(given, s)
  /\ Flush(s, [Added(s) EXCEPT !.ended = TRUE], "finish", timers)
  /\ UNCHANGED <<tbl, srv, net, own>>

TimerFires ==
  /\ timers # <<>> /\ frames = <<>>
  /\ LET t == Head(timers) IN Flush(t.sock, sk[t.sock], t.then, Tail(timers))
  /\ UNCHANGED <<tbl, srv, net, own, given>>

-----------------------------------------------------------------------------
(* Closing. *)

(* A plausible bug: an entry without a connection is not closed. *)
MayCloseConnected(f) == tbl[f].state # "closed"

(* pico_cyw43_network_close: there is something to close. *)
MayClose(f) == tbl[f].state # "closed" \/ tbl[f].obj

(* _afterDestroy of a Socket that is not destroyed yet. *)
AfterDestroy(s) == [sk EXCEPT ![s].destroyed = TRUE]

(* A plausible bug: the pcb is closed but not forgotten. *)
ClosingKeepsConnection(f) ==
  [open |-> FALSE, server |-> NoFd, state |-> "closed",
   pcb |-> tbl[f].pcb, obj |-> tbl[f].obj, bound |-> tbl[f].bound]

Closing(f) ==
  [open |-> FALSE, server |-> NoFd, state |-> "closed",
   pcb |-> NONE, obj |-> tbl[f].obj, bound |-> tbl[f].bound]

(* __net_socket_close, for the destroy() of s or for NONE.  The close_cb of
   the entry's object destroys the Socket it was set for, whose 'close'
   listener runs before the object is freed; then the caller goes on. *)
CloseEntry(f, s) ==
  LET b == tbl[f].bound IN
  IF tbl[f].obj /\ b # NONE /\ ~sk[b].destroyed
    THEN /\ tbl' = [tbl EXCEPT ![f] = Closing(f)]
         /\ sk' = AfterDestroy(b)
         /\ frames' = Append(frames, [on |-> "close", fd |-> f, sock |-> s])
    ELSE /\ tbl' = [tbl EXCEPT ![f] = FreeEntry]
         /\ sk' = (IF s = NONE THEN sk ELSE AfterDestroy(s))
         /\ frames' = frames

(* __Stream.destroy and Socket._destroy *)
Destroy(s) ==
  /\ sk[s].fd # NoFd /\ ~sk[s].destroyed /\ MayDestroy(s)
  /\ IF MayClose(sk[s].fd)
       THEN CloseEntry(sk[s].fd, s)
       ELSE sk' = AfterDestroy(s) /\ UNCHANGED <<tbl, frames>>
  /\ UNCHANGED <<srv, timers, net, own, given, sent, lost, failed, fin>>

(* Server.close.  The script closes a server after the Sockets it gave, and
   makes a new Server to listen again. *)
CloseServer ==
  /\ srv # NoFd /\ \A f \in Fd : tbl[f].server # srv
  /\ IF MayClose(srv) THEN CloseEntry(srv, NONE) ELSE UNCHANGED <<tbl, sk, frames>>
  /\ srv' = NoFd
  /\ UNCHANGED <<timers, net, own, given, sent, lost, failed, fin>>

Freed(f) ==
  [open |-> tbl[f].open, server |-> tbl[f].server, state |-> tbl[f].state,
   pcb |-> tbl[f].pcb, obj |-> FALSE, bound |-> NONE]

(* The listener returns: __net_socket_close frees the object that is now in
   the entry and destroy() goes on; flush() clears the buffer. *)
ListenerReturns ==
  /\ frames # <<>>
  /\ LET top == frames[Len(frames)] IN
       \/ /\ top.on = "close"
          /\ tbl' = [tbl EXCEPT ![top.fd] = Freed(top.fd)]
          /\ sk' = (IF top.sock = NONE THEN sk ELSE AfterDestroy(top.sock))
       \/ /\ top.on = "error"
          /\ sk' = [sk EXCEPT ![top.sock].wbuf = <<>>] /\ tbl' = tbl
  /\ frames' = SubSeq(frames, 1, Len(frames) - 1)
  /\ UNCHANGED <<srv, timers, net, own, given, sent, lost, failed, fin>>

-----------------------------------------------------------------------------
(* The network, served by the loop. *)

(* __net_client_connect_cb *)
Connected(f) ==
  /\ frames = <<>> /\ tbl[f].pcb # NONE /\ net[tbl[f].pcb] = "opening"
  /\ net' = [net EXCEPT ![tbl[f].pcb] = "open"]
  /\ UNCHANGED <<tbl, sk, srv, timers, frames, own, given, sent, lost, failed, fin>>

(* __tcp_server_accept_cb and Server's accept_cb, which sets the callbacks
   of the new Socket on the object of the server's entry. *)
Accept(s, c, f) ==
  /\ frames = <<>> /\ srv # NoFd /\ tbl[srv].state = "listening"
  /\ NewClient(s) /\ NewConn(c) /\ IsNext(f)
  /\ tbl' = [tbl EXCEPT
       ![f] = [open |-> TRUE, server |-> srv, state |-> "connected",
               pcb |-> c, obj |-> TRUE, bound |-> NONE],
       ![srv].bound = s]
  /\ sk' = [sk EXCEPT ![s].fd = f]
  /\ net' = [net EXCEPT ![c] = "open"] /\ own' = [own EXCEPT ![s] = c]
  /\ UNCHANGED <<srv, timers, frames, given, sent, lost, failed, fin>>

(* The table is full: the connection is refused. *)
Refuse(c) ==
  /\ frames = <<>> /\ srv # NoFd /\ tbl[srv].state = "listening"
  /\ NewConn(c) /\ \A f \in Fd : tbl[f].open
  /\ net' = [net EXCEPT ![c] = "failed"]
  /\ UNCHANGED <<tbl, sk, srv, timers, frames, own, given, sent, lost, failed, fin>>

(* The peer closes, which lwIP tells once.  The argument of the callback is the
   field fd of the entry that the connection had, which tcp_close leaves set:
   whatever is in the entry by then is closed.  Of a free entry the field is -1,
   and __net_socket_close refuses it. *)
PeerCloses(s) ==
  /\ frames = <<>> /\ own[s] # NONE /\ net[own[s]] = "open"
  /\ net' = [net EXCEPT ![own[s]] = "ended"]
  /\ IF tbl[sk[s].fd].open /\ MayClose(sk[s].fd)
       THEN CloseEntry(sk[s].fd, NONE)
       ELSE UNCHANGED <<tbl, sk, frames>>
  /\ UNCHANGED <<srv, timers, own, given, sent, lost, failed, fin>>

-----------------------------------------------------------------------------
Next ==
  \/ \E s \in Sock : Write(s) \/ End(s) \/ EndWith(s) \/ Destroy(s) \/ PeerCloses(s)
  \/ \E s \in Client, c \in Conn, f \in Fd : Connect(s, c, f)
  \/ \E f \in Fd : Listen(f)
  \/ CloseServer \/ ListenerReturns \/ TimerFires
  \/ \E f \in Fd : Connected(f)
  \/ \E s \in Accepted, c \in Conn, f \in Fd : Accept(s, c, f)
  \/ \E c \in Conn : Refuse(c)

Spec == Init /\ [][Next]_vars

(* Listeners return, and the loop calls the timers that are due. *)
Fairness == WF_vars(ListenerReturns) /\ WF_vars(TimerFires)

FairSpec == Spec /\ Fairness

-----------------------------------------------------------------------------
(* The table agrees with itself: no two entries hold one connection, an
   entry with a connection is in use, and it has an object, without which
   data and the end of the connection are dropped (__net_socket_close
   marks an entry free before the 'close' listener runs and frees its object
   after it). *)
TableAgrees ==
  /\ \A f, g \in Fd : tbl[f].pcb = tbl[g].pcb /\ tbl[f].pcb # NONE => f = g
  /\ \A f \in Fd :
       /\ tbl[f].pcb # NONE => tbl[f].open
       /\ tbl[f].open => tbl[f].obj
       /\ tbl[f].obj /\ ~tbl[f].open =>
            \E i \in DOMAIN frames : frames[i].on = "close" /\ frames[i].fd = f

Listens(f) == tbl[f].state = "listening"

(* Sockets and entries belong to each other, whoever closed entries meanwhile:
   a Socket that the script connects and that is not destroyed has its entry
   and its connection, so that its 'close' is never missing; and a connection
   in the table has its Socket, which can still close it unless the server it
   was accepted by was closed before it. *)
SocketsMatch ==
  /\ \A s \in Client : sk[s].fd # NoFd /\ ~sk[s].destroyed =>
       LET e == tbl[sk[s].fd] IN e.open /\ e.pcb = own[s] /\ e.bound = s
  /\ \A f \in Fd : tbl[f].pcb # NONE =>
       \E s \in Sock :
         /\ own[s] = tbl[f].pcb /\ sk[s].fd = f
         /\ sk[s].destroyed => tbl[f].server # NoFd /\ ~Listens(tbl[f].server)

Given(s) == {b \in DOMAIN given : given[b] = s}
Held(s)  == {sk[s].wbuf[i] : i \in DOMAIN sk[s].wbuf}
Out      == UNION {{sent[c][i] : i \in DOMAIN sent[c]} : c \in Conn}

(* Through the timers of several writes and an end(), every byte of a Socket
   is waiting in its buffer, or went out, or an 'error' was emitted for it;
   none goes out twice, or before an earlier one of its Socket; and nothing
   waits once the Socket has emitted 'finish' or sent the end of its side. *)
BytesAccounted ==
  /\ \A s \in Sock :
       /\ Given(s) \ (Out \cup lost) = Held(s)
       /\ sk[s].finished \/ (\E c \in Conn : fin[c] = s) => Held(s) = {}
  /\ \A c, d \in Conn : \A i \in DOMAIN sent[c], j \in DOMAIN sent[d] :
       /\ sent[c][i] = sent[d][j] => c = d /\ i = j
       /\ c = d /\ i < j /\ given[sent[c][i]] = given[sent[c][j]] => sent[c][i] < sent[c][j]

(* A Socket that was ended finishes, unless an error was emitted or it was
   destroyed. *)
Finishes ==
  \A s \in Sock :
    sk[s].ended ~> sk[s].finished \/ sk[s].destroyed \/ s \in failed
=============================================================================
