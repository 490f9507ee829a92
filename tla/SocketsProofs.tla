---------------------------- MODULE SocketsProofs ----------------------------
(***************************************************************************)
(* Theorems about Sockets: the table, its Sockets and their bytes agree,   *)
(* for any size of the table and any number of Sockets, connections and    *)
(* bytes.                                                                  *)
(***************************************************************************)
EXTENDS Sockets, SequenceTheorems, TLAPS

(* A Socket has a connection only after it has a descriptor; a Socket of a
   server is given both together. *)
OwnsMatch ==
  \A s \in Sock :
    /\ sk[s].fd = NoFd => own[s] = NONE /\ ~sk[s].destroyed
    /\ s \in Accepted /\ sk[s].fd # NoFd => own[s] # NONE
    /\ own[s] # NONE => net[own[s]] # "new"

(* Only the entry of the server in use listens; it has no connection, and no
   callbacks but those of the server's Sockets. *)
ServerHolds ==
  \A f \in Fd : Listens(f) =>
    /\ f = srv /\ tbl[f].open /\ tbl[f].pcb = NONE /\ tbl[f].server = NoFd
    /\ tbl[f].bound \in Accepted \cup {NONE}

(* What an entry of each kind may be. *)
EntriesKnown ==
  \A f \in Fd :
    /\ tbl[f].pcb # NONE => net[tbl[f].pcb] # "new"
    /\ tbl[f].server # NoFd => /\ tbl[f].server = srv /\ tbl[f].pcb # NONE
                               /\ tbl[f].bound = NONE
    /\ tbl[f].bound # NONE => sk[tbl[f].bound].fd # NoFd
    /\ tbl[f].bound \in Client => sk[tbl[f].bound].fd = f
    /\ tbl[f].open /\ tbl[f].bound \in Accepted => f = srv
    /\ ~tbl[f].open /\ tbl[f].bound # NONE => sk[tbl[f].bound].destroyed

(* A Socket of a server has an entry of that server while it has the
   connection. *)
AcceptedHold ==
  \A s \in Accepted :
    sk[s].fd # NoFd /\ tbl[sk[s].fd].pcb = own[s] => tbl[sk[s].fd].server # NoFd

(* While a 'close' listener runs, its entry is free and its Socket destroyed. *)
FramesKnown ==
  \A i \in 1 .. Len(frames) : frames[i].on = "close" =>
    /\ ~tbl[frames[i].fd].open
    /\ frames[i].sock # NONE => sk[frames[i].sock].destroyed

(* The inductive invariant of the table. *)
TableInv ==
  /\ TypeOK /\ TableAgrees /\ SocketsMatch
  /\ OwnsMatch /\ ServerHolds /\ EntriesKnown /\ AcceptedHold /\ FramesKnown

(* The bytes, for what was given g, what was sent sn, the bytes lo that an
   error was emitted for, and the buffers w of the Sockets. *)
IsSent(sn, b) == \E c \in Conn : \E i \in 1 .. Len(sn[c]) : sn[c][i] = b

Placed(g, sn, lo, w) ==
  /\ \A b \in 1 .. Len(g) : IsSent(sn, b) \/ b \in lo \/ \E i \in 1 .. Len(w[g[b]]) : w[g[b]][i] = b
  /\ \A x \in Sock : \A i \in 1 .. Len(w[x]) :
       /\ w[x][i] \in 1 .. Len(g) /\ g[w[x][i]] = x
       /\ w[x][i] \notin lo /\ ~IsSent(sn, w[x][i])
  /\ \A c \in Conn : \A i \in 1 .. Len(sn[c]) : sn[c][i] \in 1 .. Len(g)
  /\ \A b \in lo : b \in 1 .. Len(g)

InOrder(g, sn, w) ==
  /\ \A c, d \in Conn : \A i \in 1 .. Len(sn[c]), j \in 1 .. Len(sn[d]) :
       sn[c][i] = sn[d][j] => c = d /\ i = j
  /\ \A c \in Conn : \A i, j \in 1 .. Len(sn[c]) :
       i < j /\ g[sn[c][i]] = g[sn[c][j]] => sn[c][i] < sn[c][j]
  /\ \A x \in Sock : \A i, j \in 1 .. Len(w[x]) : i < j => w[x][i] < w[x][j]
  /\ \A c \in Conn : \A i \in 1 .. Len(sn[c]) : \A x \in Sock : \A j \in 1 .. Len(w[x]) :
       g[sn[c][i]] = x => sn[c][i] < w[x][j]

BytesTyped(g, sn, lo, w) ==
  /\ g \in Seq(Sock) /\ sn \in [Conn -> Seq(Byte)] /\ lo \subseteq Byte
  /\ w \in [Sock -> Seq(Byte)]

Bytes(g, sn, lo, w) == BytesTyped(g, sn, lo, w) /\ Placed(g, sn, lo, w) /\ InOrder(g, sn, w)

Buffers == [x \in Sock |-> sk[x].wbuf]

(* Nothing is in the buffer of a Socket that finished, nor while its 'error'
   listener runs. *)
BufferEmpty ==
  /\ \A s \in Sock : sk[s].finished \/ (\E c \in Conn : fin[c] = s) => sk[s].ended /\ sk[s].wbuf = <<>>
  /\ \A i \in 1 .. Len(frames) : frames[i].on = "error" => sk[frames[i].sock].wbuf = <<>>

(* The inductive invariant of the bytes. *)
BytesInv == Bytes(given, sent, lost, Buffers) /\ BufferEmpty

-----------------------------------------------------------------------------
(* Records and types. *)

LEMMA Names ==
  /\ NoFd \notin Fd /\ Fd \subseteq Nat
  /\ NONE \notin Sock /\ NONE \notin Conn
  /\ Sock = Client \cup Accepted
  /\ \A s \in Client : s \notin Accepted
  /\ MaxBytes \in Nat
BY SocketsAssumption DEF NoFd, Fd, Sock

LEMMA EntryTypes ==
  /\ FreeEntry \in Entry
  /\ \A s \in Sock \cup {NONE}, c \in Conn \cup {NONE}, state \in {"closed", "connected", "listening"} :
       Opened(s, c, state) \in Entry
  /\ TypeOK => \A f \in Fd : Closing(f) \in Entry /\ Freed(f) \in Entry /\ tbl[f] \in Entry
<1>1. FreeEntry \in Entry
  BY DEF FreeEntry, Entry
<1>2. \A s \in Sock \cup {NONE}, c \in Conn \cup {NONE}, state \in {"closed", "connected", "listening"} :
        Opened(s, c, state) \in Entry
  BY DEF Opened, Entry
<1>3. ASSUME TypeOK, NEW f \in Fd PROVE Closing(f) \in Entry /\ Freed(f) \in Entry /\ tbl[f] \in Entry
  <2>1. tbl[f] \in Entry
    BY <1>3 DEF TypeOK
  <2>2. /\ tbl[f].open \in BOOLEAN /\ tbl[f].server \in Fd \cup {NoFd} /\ tbl[f].obj \in BOOLEAN
        /\ tbl[f].state \in {"closed", "connected", "listening"}
        /\ tbl[f].pcb \in Conn \cup {NONE} /\ tbl[f].bound \in Sock \cup {NONE}
    BY <2>1 DEF Entry
  <2>3. Closing(f) \in Entry
    BY <2>2 DEF Closing, Entry
  <2>4. Freed(f) \in Entry
    BY <2>2 DEF Freed, Entry
  <2> QED BY <2>1, <2>3, <2>4
<1> QED BY <1>1, <1>2, <1>3

(* Changing one field of a Socket. *)
LEMMA SocketFields ==
  ASSUME NEW st \in SocketObject
  PROVE  /\ st.fd \in Fd \cup {NoFd} /\ st.wbuf \in Seq(Byte)
         /\ [st EXCEPT !.ended = TRUE] \in SocketObject
         /\ [st EXCEPT !.ended = TRUE].fd = st.fd
         /\ [st EXCEPT !.ended = TRUE].wbuf = st.wbuf
         /\ [st EXCEPT !.ended = TRUE].ended = TRUE
         /\ [st EXCEPT !.ended = TRUE].finished = st.finished
         /\ [st EXCEPT !.ended = TRUE].destroyed = st.destroyed
         /\ [st EXCEPT !.finished = TRUE] \in SocketObject
         /\ [st EXCEPT !.finished = TRUE].fd = st.fd
         /\ [st EXCEPT !.finished = TRUE].wbuf = st.wbuf
         /\ [st EXCEPT !.finished = TRUE].ended = st.ended
         /\ [st EXCEPT !.finished = TRUE].finished = TRUE
         /\ [st EXCEPT !.finished = TRUE].destroyed = st.destroyed
         /\ [st EXCEPT !.wbuf = <<>>] \in SocketObject
         /\ [st EXCEPT !.wbuf = <<>>].fd = st.fd
         /\ [st EXCEPT !.wbuf = <<>>].wbuf = <<>>
         /\ [st EXCEPT !.wbuf = <<>>].ended = st.ended
         /\ [st EXCEPT !.wbuf = <<>>].finished = st.finished
         /\ [st EXCEPT !.wbuf = <<>>].destroyed = st.destroyed
<1>1. st.fd \in Fd \cup {NoFd} /\ st.wbuf \in Seq(Byte)
  BY DEF SocketObject
<1>2. /\ [st EXCEPT !.ended = TRUE] \in SocketObject
      /\ [st EXCEPT !.ended = TRUE].fd = st.fd
      /\ [st EXCEPT !.ended = TRUE].wbuf = st.wbuf
      /\ [st EXCEPT !.ended = TRUE].ended = TRUE
      /\ [st EXCEPT !.ended = TRUE].finished = st.finished
      /\ [st EXCEPT !.ended = TRUE].destroyed = st.destroyed
  BY DEF SocketObject
<1>3. /\ [st EXCEPT !.finished = TRUE] \in SocketObject
      /\ [st EXCEPT !.finished = TRUE].fd = st.fd
      /\ [st EXCEPT !.finished = TRUE].wbuf = st.wbuf
      /\ [st EXCEPT !.finished = TRUE].ended = st.ended
      /\ [st EXCEPT !.finished = TRUE].finished = TRUE
      /\ [st EXCEPT !.finished = TRUE].destroyed = st.destroyed
  BY DEF SocketObject
<1>4. /\ [st EXCEPT !.wbuf = <<>>] \in SocketObject
      /\ [st EXCEPT !.wbuf = <<>>].fd = st.fd
      /\ [st EXCEPT !.wbuf = <<>>].wbuf = <<>>
      /\ [st EXCEPT !.wbuf = <<>>].ended = st.ended
      /\ [st EXCEPT !.wbuf = <<>>].finished = st.finished
      /\ [st EXCEPT !.wbuf = <<>>].destroyed = st.destroyed
  <2>1. <<>> \in Seq(Byte)
    OBVIOUS
  <2> QED BY <2>1 DEF SocketObject
<1> QED BY <1>1, <1>2, <1>3, <1>4

LEMMA AddedFields ==
  ASSUME TypeOK, NEW s \in Sock, Len(given) < MaxBytes
  PROVE  /\ Added(s) \in SocketObject /\ Len(given) \in Nat /\ Len(given) + 1 \in Byte
         /\ Added(s).wbuf = Append(sk[s].wbuf, Len(given) + 1)
         /\ Added(s).fd = sk[s].fd /\ Added(s).ended = sk[s].ended
         /\ Added(s).finished = sk[s].finished /\ Added(s).destroyed = sk[s].destroyed
<1>1. Len(given) \in Nat
  BY LenProperties DEF TypeOK
<1>2. Len(given) + 1 \in Byte
  BY <1>1, Names DEF Byte
<1>3. sk[s] \in SocketObject
  BY DEF TypeOK
<1>4. sk[s].wbuf \in Seq(Byte)
  BY <1>3 DEF SocketObject
<1>5. Append(sk[s].wbuf, Len(given) + 1) \in Seq(Byte)
  BY <1>2, <1>4, AppendProperties
<1> DEFINE b == Append(sk[s].wbuf, Len(given) + 1)
<1>6. Added(s) = [sk[s] EXCEPT !.wbuf = b]
  BY DEF Added
<1> HIDE DEF b
<1>7. b \in Seq(Byte)
  BY <1>5 DEF b
<1>8. /\ Added(s) \in SocketObject /\ Added(s).wbuf = b
      /\ Added(s).fd = sk[s].fd /\ Added(s).ended = sk[s].ended
      /\ Added(s).finished = sk[s].finished /\ Added(s).destroyed = sk[s].destroyed
  BY <1>3, <1>6, <1>7 DEF SocketObject
<1> QED BY <1>1, <1>2, <1>8 DEF b

(* AfterDestroy changes one flag of one Socket. *)
LEMMA Destroyed ==
  ASSUME TypeOK, NEW s \in Sock
  PROVE  /\ AfterDestroy(s) \in [Sock -> SocketObject]
         /\ AfterDestroy(s)[s].destroyed
         /\ \A x \in Sock : x # s => AfterDestroy(s)[x] = sk[x]
         /\ \A x \in Sock : /\ AfterDestroy(s)[x].fd = sk[x].fd
                            /\ AfterDestroy(s)[x].wbuf = sk[x].wbuf
                            /\ AfterDestroy(s)[x].ended = sk[x].ended
                            /\ AfterDestroy(s)[x].finished = sk[x].finished
<1> DEFINE d == [sk[s] EXCEPT !.destroyed = TRUE]
<1>1. sk \in [Sock -> SocketObject] /\ sk[s] \in SocketObject
  BY DEF TypeOK
<1>2. /\ d \in SocketObject /\ d.destroyed /\ d.fd = sk[s].fd /\ d.wbuf = sk[s].wbuf
      /\ d.ended = sk[s].ended /\ d.finished = sk[s].finished
  BY <1>1 DEF SocketObject
<1>3. AfterDestroy(s) = [sk EXCEPT ![s] = d]
  BY DEF AfterDestroy
<1> HIDE DEF d
<1> QED BY <1>1, <1>2, <1>3

(* The operators of stream.js keep the types. *)
LEMMA FlushTypes ==
  ASSUME TypeOK, NEW s \in Sock, NEW st \in SocketObject,
         NEW then \in {"nothing", "finish"}, NEW ts \in Seq(Timer),
         Flush(s, st, then, ts), UNCHANGED <<tbl, srv, net, own>>,
         given' \in Seq(Sock), Len(given') <= MaxBytes
  PROVE  /\ TypeOK'
         /\ \A x \in Sock : x # s => sk'[x] = sk[x]
         /\ sk'[s].fd = st.fd /\ sk'[s].destroyed = st.destroyed
         /\ frames' = frames \/ frames' = Append(frames, [on |-> "error", sock |-> s])
<1> DEFINE Kept == /\ sk' \in [Sock -> SocketObject]
                   /\ \A x \in Sock : x # s => sk'[x] = sk[x]
                   /\ sk'[s].fd = st.fd /\ sk'[s].destroyed = st.destroyed
<1>1. sk \in [Sock -> SocketObject] /\ timers \in Seq(Timer) /\ frames \in Seq(Frame)
      /\ sent \in [Conn -> Seq(Byte)] /\ lost \subseteq Byte /\ failed \subseteq Sock
      /\ fin \in [Conn -> Sock \cup {NONE}]
  BY DEF TypeOK
<1>2. st.wbuf \in Seq(Byte)
  BY SocketFields
<1>3. /\ \A e \in SocketObject : e.fd = st.fd /\ e.destroyed = st.destroyed =>
            ([sk EXCEPT ![s] = e] \in [Sock -> SocketObject]
               /\ (\A x \in Sock : x # s => [sk EXCEPT ![s] = e][x] = sk[x])
               /\ [sk EXCEPT ![s] = e][s].fd = st.fd /\ [sk EXCEPT ![s] = e][s].destroyed = st.destroyed)
  BY <1>1
<1>4. ASSUME Output(st) PROVE sent' \in [Conn -> Seq(Byte)]
  <2>1. \A c \in Conn : sent[c] \o st.wbuf \in Seq(Byte)
    BY <1>1, <1>2, ConcatProperties
  <2> DEFINE c == tbl[st.fd].pcb
             v == sent[c] \o st.wbuf
  <2>2. sent' = [sent EXCEPT ![c] = v]
    BY <1>4 DEF Output
  <2>3. c \in Conn => v \in Seq(Byte)
    BY <2>1
  <2> HIDE DEF c, v
  <2> QED BY <1>1, <2>2, <2>3
<1>5. ASSUME HandsOver(s, st, then, ts) PROVE Kept /\ timers' \in Seq(Timer) /\ sent' \in [Conn -> Seq(Byte)]
                                              /\ UNCHANGED <<frames, lost, failed>>
  <2> DEFINE e == [st EXCEPT !.wbuf = <<>>]
             m == [sock |-> s, then |-> then]
  <2>1. /\ e \in SocketObject /\ e.fd = st.fd /\ e.destroyed = st.destroyed /\ m \in Timer
    BY SocketFields DEF Timer
  <2>2. sk' = [sk EXCEPT ![s] = e] /\ timers' = Append(ts, m) /\ Output(st) /\ UNCHANGED <<frames, lost, failed>>
    BY <1>5 DEF HandsOver
  <2> HIDE DEF e, m
  <2>3. timers' \in Seq(Timer)
    BY <2>1, <2>2, AppendProperties
  <2> QED BY <1>3, <1>4, <2>1, <2>2, <2>3
<1>6. ASSUME Refused(s, st, ts)
      PROVE  /\ Kept /\ timers' \in Seq(Timer) /\ sent' \in [Conn -> Seq(Byte)] /\ lost' \subseteq Byte
             /\ failed' \subseteq Sock /\ frames' \in Seq(Frame)
             /\ frames' = Append(frames, [on |-> "error", sock |-> s])
  <2> DEFINE e == [st EXCEPT !.wbuf = <<>>]
             m == [on |-> "error", sock |-> s]
  <2>1. /\ e \in SocketObject /\ e.fd = st.fd /\ e.destroyed = st.destroyed /\ m \in Frame
    BY SocketFields DEF Frame
  <2>2. sk' = [sk EXCEPT ![s] = e] /\ timers' = ts /\ frames' = Append(frames, m)
        /\ lost' = lost \cup {st.wbuf[i] : i \in DOMAIN st.wbuf} /\ failed' = failed \cup {s}
        /\ (sent' = sent \/ Output(st))
    BY <1>6 DEF Refused
  <2>3. lost' \subseteq Byte
    <3>1. \A i \in DOMAIN st.wbuf : st.wbuf[i] \in Byte
      BY <1>2, LenProperties, ElementOfSeq
    <3> QED BY <1>1, <2>2, <3>1
  <2> HIDE DEF e
  <2>4. frames' \in Seq(Frame)
    <3> HIDE DEF m
    <3> QED BY <1>1, <2>1, <2>2, AppendProperties
  <2>5. sent' \in [Conn -> Seq(Byte)]
    BY <1>1, <1>4, <2>2
  <2>6. failed' \subseteq Sock
    BY <1>1, <2>2
  <2> QED BY <1>3, <2>1, <2>2, <2>3, <2>4, <2>5, <2>6
<1>7. ASSUME Finish(s, st) PROVE Kept /\ fin' \in [Conn -> Sock \cup {NONE}] /\ failed' \subseteq Sock
  <2> DEFINE e == [st EXCEPT !.finished = TRUE]
  <2>1. e \in SocketObject /\ e.fd = st.fd /\ e.destroyed = st.destroyed
    BY SocketFields
  <2>2. sk' = [sk EXCEPT ![s] = e] \/ sk' = [sk EXCEPT ![s] = st]
    BY <1>7 DEF Finish
  <2>3. failed' \subseteq Sock
    BY <1>1, <1>7 DEF Finish
  <2>4. fin' \in [Conn -> Sock \cup {NONE}]
    BY <1>1, <1>7 DEF Finish
  <2> HIDE DEF e
  <2> QED BY <1>3, <2>1, <2>2, <2>3, <2>4
<1>8. ASSUME sk' = [sk EXCEPT ![s] = st] PROVE Kept
  BY <1>3, <1>8
<1> HIDE DEF Kept
<1>9. /\ Kept /\ timers' \in Seq(Timer) /\ sent' \in [Conn -> Seq(Byte)] /\ lost' \subseteq Byte
      /\ failed' \subseteq Sock /\ frames' \in Seq(Frame) /\ fin' \in [Conn -> Sock \cup {NONE}]
      /\ (frames' = frames \/ frames' = Append(frames, [on |-> "error", sock |-> s]))
  <2>1. CASE HandsOver(s, st, then, ts) /\ fin' = fin
    BY <1>1, <1>5, <2>1
  <2>2. CASE Refused(s, st, ts) /\ fin' = fin
    BY <1>1, <1>6, <2>2
  <2>3. CASE /\ Finish(s, st) \/ (sk' = [sk EXCEPT ![s] = st] /\ UNCHANGED <<fin, failed>>)
             /\ timers' = ts /\ UNCHANGED <<frames, sent, lost>>
    BY <1>1, <1>7, <1>8, <2>3
  <2> QED BY <2>1, <2>2, <2>3 DEF Flush
<1>10. TypeOK'
  <2>1. sk' \in [Sock -> SocketObject]
    BY <1>9 DEF Kept
  <2> QED BY <1>9, <2>1 DEF TypeOK
<1> QED BY <1>9, <1>10 DEF Kept

-----------------------------------------------------------------------------
(* The table and its Sockets. *)

LEMMA TableFacts ==
  ASSUME TableInv
  PROVE  /\ \A f \in Fd : tbl[f] \in Entry /\ tbl[f].pcb \in Conn \cup {NONE}
                          /\ tbl[f].bound \in Sock \cup {NONE} /\ tbl[f].server \in Fd \cup {NoFd}
         /\ \A s \in Sock : sk[s] \in SocketObject /\ sk[s].fd \in Fd \cup {NoFd}
                            /\ own[s] \in Conn \cup {NONE}
         /\ Len(frames) \in Nat /\ DOMAIN frames = 1 .. Len(frames)
         /\ \A i \in 1 .. Len(frames) : frames[i] \in Frame
         /\ \A f \in Fd : ~tbl[f].open =>
              /\ tbl[f].pcb = NONE /\ ~Listens(f) /\ tbl[f].server = NoFd
              /\ \A s \in Client : sk[s].fd = f => sk[s].destroyed
         /\ \A f \in Fd, c \in Conn : net[c] = "new" => tbl[f].pcb # c
         /\ \A s \in Sock, c \in Conn : net[c] = "new" => own[s] # c
<1>1. /\ \A f \in Fd : tbl[f] \in Entry
      /\ \A s \in Sock : sk[s] \in SocketObject /\ own[s] \in Conn \cup {NONE}
  BY DEF TableInv, TypeOK
<1>2. /\ \A f \in Fd : /\ tbl[f].pcb \in Conn \cup {NONE}
                       /\ tbl[f].bound \in Sock \cup {NONE} /\ tbl[f].server \in Fd \cup {NoFd}
      /\ \A s \in Sock : sk[s].fd \in Fd \cup {NoFd}
  BY <1>1 DEF Entry, SocketObject
<1>3. Len(frames) \in Nat /\ DOMAIN frames = 1 .. Len(frames) /\ \A i \in 1 .. Len(frames) : frames[i] \in Frame
  BY LenProperties, ElementOfSeq DEF TableInv, TypeOK
<1>4. ASSUME NEW f \in Fd, ~tbl[f].open
      PROVE  /\ tbl[f].pcb = NONE /\ ~Listens(f) /\ tbl[f].server = NoFd
             /\ \A s \in Client : sk[s].fd = f => sk[s].destroyed
  <2>1. tbl[f].pcb = NONE
    BY <1>4 DEF TableInv, TableAgrees
  <2>2. ~Listens(f)
    BY <1>4 DEF TableInv, ServerHolds
  <2>3. tbl[f].server = NoFd
    BY <2>1 DEF TableInv, EntriesKnown
  <2>4. ASSUME NEW s \in Client, sk[s].fd = f PROVE sk[s].destroyed
    BY <1>4, <2>4, Names DEF TableInv, SocketsMatch
  <2> QED BY <2>1, <2>2, <2>3, <2>4
<1>5. /\ \A f \in Fd, c \in Conn : net[c] = "new" => tbl[f].pcb # c
      /\ \A s \in Sock, c \in Conn : net[c] = "new" => own[s] # c
  BY Names DEF TableInv, EntriesKnown, OwnsMatch
<1> QED BY <1>1, <1>2, <1>3, <1>4, <1>5

(* The Socket of a connection: if it is destroyed, the server is closed. *)
LEMMA Holder ==
  ASSUME TableInv, NEW g \in Fd, tbl[g].pcb # NONE
  PROVE  \E x \in Sock : /\ own[x] = tbl[g].pcb /\ sk[x].fd = g
                         /\ sk[x].destroyed => /\ tbl[g].server = srv /\ srv \in Fd
                                               /\ tbl[srv].state # "listening"
<1>1. PICK x \in Sock : /\ own[x] = tbl[g].pcb /\ sk[x].fd = g
                        /\ sk[x].destroyed => tbl[g].server # NoFd /\ ~Listens(tbl[g].server)
  BY DEF TableInv, SocketsMatch
<1>2. tbl[g].server # NoFd => tbl[g].server = srv /\ srv \in Fd
  BY TableFacts DEF TableInv, EntriesKnown
<1> QED BY <1>1, <1>2 DEF Listens

(* Writing leaves the table as it is. *)
LEMMA TableSame ==
  ASSUME TableInv, TypeOK', UNCHANGED <<tbl, srv, own>>,
         \A c \in Conn : net[c] # "new" => net'[c] # "new",
         \A x \in Sock : sk'[x].fd = sk[x].fd /\ (sk'[x].destroyed <=> sk[x].destroyed),
         \/ frames' = frames
         \/ \E s \in Sock : frames' = Append(frames, [on |-> "error", sock |-> s])
  PROVE  TableInv'
<1>0. Len(frames) \in Nat /\ DOMAIN frames = 1 .. Len(frames) /\ frames \in Seq(Frame)
  BY TableFacts DEF TableInv, TypeOK
<1>1. /\ DOMAIN frames' = 1 .. Len(frames') /\ Len(frames') \in Nat
      /\ \A i \in 1 .. Len(frames) : i \in 1 .. Len(frames') /\ frames'[i] = frames[i]
      /\ \A i \in 1 .. Len(frames') : i \in 1 .. Len(frames) \/ frames'[i].on = "error"
  <2>1. CASE frames' = frames
    BY <1>0, <2>1
  <2>2. ASSUME NEW s \in Sock, frames' = Append(frames, [on |-> "error", sock |-> s])
        PROVE  /\ DOMAIN frames' = 1 .. Len(frames') /\ Len(frames') \in Nat
               /\ \A i \in 1 .. Len(frames) : i \in 1 .. Len(frames') /\ frames'[i] = frames[i]
               /\ \A i \in 1 .. Len(frames') : i \in 1 .. Len(frames) \/ frames'[i].on = "error"
    <3> DEFINE e == [on |-> "error", sock |-> s]
    <3>1. e \in Frame /\ e.on = "error"
      BY DEF Frame
    <3> HIDE DEF e
    <3>2. frames' = Append(frames, e) /\ frames' \in Seq(Frame)
      BY <1>0, <2>2, <3>1, AppendProperties DEF e
    <3>3. /\ Len(frames') = Len(frames) + 1 /\ frames'[Len(frames) + 1] = e
          /\ \A i \in 1 .. Len(frames) : frames'[i] = frames[i]
      <4>1. /\ Len(Append(frames, e)) = Len(frames) + 1 /\ Append(frames, e)[Len(frames) + 1] = e
            /\ \A i \in 1 .. Len(frames) : Append(frames, e)[i] = frames[i]
        BY <1>0, <3>1, AppendProperties
      <4> QED BY <3>2, <4>1
    <3>4. DOMAIN frames' = 1 .. Len(frames')
      BY <3>2, LenProperties
    <3> QED BY <1>0, <3>1, <3>3, <3>4
  <2> QED BY <2>1, <2>2
<1>2. TableAgrees'
  BY <1>0, <1>1 DEF TableInv, TableAgrees
<1>3. SocketsMatch'
  <2>1. \A x \in Client : sk'[x].fd # NoFd /\ ~sk'[x].destroyed =>
          LET e == tbl'[sk'[x].fd] IN e.open /\ e.pcb = own'[x] /\ e.bound = x
    BY Names DEF TableInv, SocketsMatch
  <2>2. \A g \in Fd : tbl'[g].pcb # NONE =>
          \E x \in Sock : /\ own'[x] = tbl'[g].pcb /\ sk'[x].fd = g
                          /\ sk'[x].destroyed => /\ tbl'[g].server # NoFd
                                                 /\ tbl'[tbl'[g].server].state # "listening"
    BY DEF TableInv, SocketsMatch, Listens
  <2> QED BY <2>1, <2>2 DEF SocketsMatch, Listens
<1>4. OwnsMatch'
  BY TableFacts, Names DEF TableInv, OwnsMatch
<1>5. ServerHolds' /\ AcceptedHold'
  BY Names DEF TableInv, ServerHolds, AcceptedHold, Listens
<1>6. EntriesKnown'
  BY TableFacts, Names DEF TableInv, EntriesKnown
<1>7. FramesKnown'
  <2> SUFFICES ASSUME NEW i \in 1 .. Len(frames'), frames'[i].on = "close"
               PROVE  /\ ~tbl'[frames'[i].fd].open
                      /\ frames'[i].sock # NONE => sk'[frames'[i].sock].destroyed
    BY DEF FramesKnown
  <2>1. i \in 1 .. Len(frames) /\ frames'[i] = frames[i]
    BY <1>1
  <2>2. frames[i] \in [on : {"close"}, fd : Fd, sock : Sock \cup {NONE}]
    BY <2>1, TableFacts DEF Frame
  <2>3. frames[i].sock \in Sock \cup {NONE}
    BY <2>2
  <2> QED BY <2>1, <2>3 DEF TableInv, FramesKnown
<1> QED BY <1>2, <1>3, <1>4, <1>5, <1>6, <1>7 DEF TableInv

LEMMA ConnectKeeps ==
  ASSUME TableInv, NEW s \in Client, NEW c \in Conn, NEW f \in Fd, Connect(s, c, f)
  PROVE  TableInv'
<1>0. s \in Sock /\ s \notin Accepted /\ NONE \notin Sock /\ NONE \notin Conn
  BY Names
<1>1. PICK state \in {"connected", "closed"}, p \in {c, NONE} :
        /\ tbl' = [tbl EXCEPT ![f] = Opened(s, p, state)]
        /\ own' = [own EXCEPT ![s] = p]
        /\ \/ \E n \in {"opening", "failed"} : net' = [net EXCEPT ![c] = n]
           \/ p = NONE /\ net' = net
        /\ failed' \subseteq failed \cup {s}
  <2>1. own[s] = NONE /\ own \in [Sock -> Conn \cup {NONE}]
    BY <1>0 DEF Connect, TableInv, TypeOK, OwnsMatch
  <2>2. own = [own EXCEPT ![s] = NONE]
    BY <1>0, <2>1
  <2> QED BY <2>2 DEF Connect
<1> DEFINE e == Opened(s, p, state)
<1>2. /\ e \in Entry /\ e.open /\ e.obj /\ e.pcb = p /\ e.bound = s /\ e.server = NoFd /\ e.state = state
  BY <1>0, EntryTypes DEF Opened
<1>3. /\ ~tbl[f].open /\ sk[s].fd = NoFd /\ net[c] = "new" /\ sk' = [sk EXCEPT ![s].fd = f]
      /\ own' = [own EXCEPT ![s] = p] /\ UNCHANGED <<srv, timers, frames, given, sent, lost, fin>>
      /\ MayOpen
  BY <1>1 DEF Connect, IsNext, NewConn
<1>4. tbl'[f] = e /\ \A g \in Fd : g # f => tbl'[g] = tbl[g]
  BY <1>1 DEF TableInv, TypeOK
<1> HIDE DEF e
<1>5. (p # NONE => net'[c] # "new") /\ net' \in [Conn -> {"new", "failed", "opening", "open", "ended"}]
      /\ \A d \in Conn : net[d] # "new" => net'[d] # "new"
  BY <1>1 DEF TableInv, TypeOK
<1>6. own'[s] = p /\ own' \in [Sock -> Conn \cup {NONE}] /\ \A x \in Sock : x # s => own'[x] = own[x]
  BY <1>0, <1>1, <1>3 DEF TableInv, TypeOK
<1>7. /\ sk' \in [Sock -> SocketObject] /\ sk'[s].fd = f /\ (sk'[s].destroyed <=> sk[s].destroyed)
      /\ \A x \in Sock : x # s => sk'[x] = sk[x]
  <2> DEFINE m == [sk[s] EXCEPT !.fd = f]
  <2>1. sk[s] \in SocketObject /\ sk \in [Sock -> SocketObject]
    BY <1>0 DEF TableInv, TypeOK
  <2>2. m \in SocketObject /\ m.fd = f /\ m.destroyed = sk[s].destroyed
    BY <2>1 DEF SocketObject
  <2>3. sk' = [sk EXCEPT ![s] = m]
    BY <1>3
  <2> HIDE DEF m
  <2> QED BY <1>0, <2>1, <2>2, <2>3
<1>8. TypeOK'
  <2>1. tbl' \in [Fd -> Entry]
    BY <1>1, <1>2 DEF TableInv, TypeOK, e
  <2>2. failed' \subseteq Sock
    BY <1>0, <1>1 DEF TableInv, TypeOK
  <2> QED BY <1>3, <1>5, <1>6, <1>7, <2>1, <2>2 DEF TableInv, TypeOK
<1>9. /\ tbl[f].pcb = NONE /\ \A x \in Client : sk[x].fd = f => sk[x].destroyed
      /\ \A g \in Fd : tbl[g].pcb # c
      /\ \A x \in Sock : own[x] # c
  BY <1>3, TableFacts
<1>10. ~sk[s].destroyed /\ f # NoFd
  BY <1>0, <1>3, Names DEF TableInv, OwnsMatch
<1>11. TableAgrees'
  <2>1. \A g, h \in Fd : tbl'[g].pcb = tbl'[h].pcb /\ tbl'[g].pcb # NONE => g = h
    BY <1>2, <1>4, <1>9 DEF TableInv, TableAgrees
  <2>2. \A g \in Fd : /\ tbl'[g].pcb # NONE => tbl'[g].open
                      /\ tbl'[g].open => tbl'[g].obj
                      /\ tbl'[g].obj /\ ~tbl'[g].open =>
                           \E i \in DOMAIN frames : frames[i].on = "close" /\ frames[i].fd = g
    BY <1>2, <1>4 DEF TableInv, TableAgrees
  <2> QED BY <1>3, <2>1, <2>2 DEF TableAgrees
<1>12. SocketsMatch'
  <2>1. ASSUME NEW x \in Client, sk'[x].fd # NoFd, ~sk'[x].destroyed
        PROVE  tbl'[sk'[x].fd].open /\ tbl'[sk'[x].fd].pcb = own'[x] /\ tbl'[sk'[x].fd].bound = x
    <3>1. CASE x = s
      BY <1>2, <1>4, <1>6, <1>7, <3>1
    <3>2. CASE x # s
      <4>1. sk'[x] = sk[x] /\ own'[x] = own[x] /\ x \in Sock
        BY <1>6, <1>7, <3>2, Names
      <4>2. sk[x].fd \in Fd /\ sk[x].fd # f
        BY <1>9, <2>1, <4>1, TableFacts
      <4> QED BY <1>4, <2>1, <4>1, <4>2 DEF TableInv, SocketsMatch
    <3> QED BY <3>1, <3>2
  <2>2. ASSUME NEW g \in Fd, tbl'[g].pcb # NONE
        PROVE  \E x \in Sock : /\ own'[x] = tbl'[g].pcb /\ sk'[x].fd = g
                               /\ sk'[x].destroyed => /\ tbl'[g].server # NoFd
                                                      /\ tbl'[tbl'[g].server].state # "listening"
    <3>1. CASE g = f
      BY <1>0, <1>2, <1>4, <1>6, <1>7, <1>10, <3>1
    <3>2. CASE g # f
      <4>1. PICK x \in Sock : /\ own[x] = tbl[g].pcb /\ sk[x].fd = g
                              /\ sk[x].destroyed => /\ tbl[g].server = srv /\ srv \in Fd
                                                    /\ tbl[srv].state # "listening"
        <5>1. tbl[g].pcb # NONE
          BY <1>4, <2>2, <3>2
        <5> QED BY <5>1, Holder
      <4>2. x # s
        BY <1>3, <4>1, Names
      <4>3. tbl'[g] = tbl[g] /\ sk'[x] = sk[x] /\ own'[x] = own[x]
        BY <1>4, <1>6, <1>7, <3>2, <4>2
      <4>4. srv \in Fd /\ tbl[srv].state # "listening" => tbl'[srv].state # "listening"
        BY <1>2, <1>4
      <4>5. srv \in Fd => srv # NoFd
        BY Names
      <4>6. /\ own'[x] = tbl'[g].pcb /\ sk'[x].fd = g
            /\ sk'[x].destroyed => /\ tbl'[g].server # NoFd
                                   /\ tbl'[tbl'[g].server].state # "listening"
        BY <4>1, <4>3, <4>4, <4>5
      <4> QED BY <4>6
    <3> QED BY <3>1, <3>2
  <2> QED BY <2>1, <2>2 DEF SocketsMatch, Listens
<1>13. OwnsMatch'
  <2> SUFFICES ASSUME NEW x \in Sock
               PROVE  /\ sk'[x].fd = NoFd => own'[x] = NONE /\ ~sk'[x].destroyed
                      /\ x \in Accepted /\ sk'[x].fd # NoFd => own'[x] # NONE
                      /\ own'[x] # NONE => net'[own'[x]] # "new"
    BY DEF OwnsMatch
  <2>1. CASE x = s
    BY <1>0, <1>5, <1>6, <1>7, <1>10, <2>1
  <2>2. CASE x # s
    BY <1>5, <1>6, <1>7, <2>2, TableFacts DEF TableInv, OwnsMatch
  <2> QED BY <2>1, <2>2
<1>14. ServerHolds'
  <2> SUFFICES ASSUME NEW g \in Fd, tbl'[g].state = "listening"
               PROVE  /\ g = srv' /\ tbl'[g].open /\ tbl'[g].pcb = NONE /\ tbl'[g].server = NoFd
                      /\ tbl'[g].bound \in Accepted \cup {NONE}
    BY DEF ServerHolds, Listens
  <2>1. tbl'[g] = tbl[g]
    BY <1>2, <1>4
  <2> QED BY <1>3, <2>1 DEF TableInv, ServerHolds, Listens
<1>15. EntriesKnown'
  <2> SUFFICES ASSUME NEW g \in Fd
               PROVE  /\ tbl'[g].pcb # NONE => net'[tbl'[g].pcb] # "new"
                      /\ tbl'[g].server # NoFd => /\ tbl'[g].server = srv' /\ tbl'[g].pcb # NONE
                                                  /\ tbl'[g].bound = NONE
                      /\ tbl'[g].bound # NONE => sk'[tbl'[g].bound].fd # NoFd
                      /\ tbl'[g].bound \in Client => sk'[tbl'[g].bound].fd = g
                      /\ tbl'[g].open /\ tbl'[g].bound \in Accepted => g = srv'
                      /\ ~tbl'[g].open /\ tbl'[g].bound # NONE => sk'[tbl'[g].bound].destroyed
    BY DEF EntriesKnown
  <2>1. CASE g = f
    BY <1>0, <1>2, <1>4, <1>5, <1>7, <1>10, <2>1
  <2>2. CASE g # f
    <3>1. tbl'[g] = tbl[g] /\ tbl[g].bound # s /\ tbl[g].bound \in Sock \cup {NONE} /\ tbl[g].pcb \in Conn \cup {NONE}
      BY <1>0, <1>3, <1>4, <2>2, TableFacts DEF TableInv, EntriesKnown
    <3> QED BY <1>0, <1>3, <1>5, <1>7, <3>1, Names DEF TableInv, EntriesKnown
  <2> QED BY <2>1, <2>2
<1>16. AcceptedHold'
  <2> SUFFICES ASSUME NEW x \in Accepted, sk'[x].fd # NoFd, tbl'[sk'[x].fd].pcb = own'[x]
               PROVE  tbl'[sk'[x].fd].server # NoFd
    BY DEF AcceptedHold
  <2>1. x # s /\ x \in Sock /\ sk'[x] = sk[x] /\ own'[x] = own[x]
    BY <1>0, <1>6, <1>7, Names
  <2>2. sk[x].fd \in Fd /\ own[x] # NONE
    BY <2>1, TableFacts DEF TableInv, OwnsMatch
  <2>3. sk[x].fd # f
    BY <1>2, <1>4, <1>9, <2>1, <2>2
  <2> QED BY <1>4, <2>1, <2>2, <2>3 DEF TableInv, AcceptedHold
<1>17. FramesKnown'
  <2> SUFFICES ASSUME NEW i \in 1 .. Len(frames), frames[i].on = "close" PROVE FALSE
    BY <1>3 DEF FramesKnown
  <2> QED BY <1>3, TableFacts DEF MayOpen
<1> QED BY <1>8, <1>11, <1>12, <1>13, <1>14, <1>15, <1>16, <1>17 DEF TableInv

LEMMA ListenKeeps ==
  ASSUME TableInv, NEW f \in Fd, Listen(f)
  PROVE  TableInv'
<1>1. PICK state \in {"listening", "closed"} : tbl' = [tbl EXCEPT ![f] = Opened(NONE, NONE, state)]
  BY DEF Listen
<1> DEFINE e == Opened(NONE, NONE, state)
<1>2. /\ e \in Entry /\ e.open /\ e.obj /\ e.pcb = NONE /\ e.bound = NONE /\ e.server = NoFd
      /\ NoFd \notin Fd
  BY EntryTypes, Names DEF Opened
<1>3. /\ ~tbl[f].open /\ srv = NoFd /\ srv' = f /\ MayOpen
      /\ UNCHANGED <<sk, timers, frames, net, own, given, sent, lost, failed, fin>>
  BY DEF Listen, IsNext
<1>4. tbl'[f] = e /\ \A g \in Fd : g # f => tbl'[g] = tbl[g]
  BY <1>1 DEF TableInv, TypeOK
<1>5. TypeOK'
  <2>1. tbl' \in [Fd -> Entry]
    BY <1>1, <1>2 DEF TableInv, TypeOK, e
  <2> QED BY <1>3, <2>1 DEF TableInv, TypeOK
<1> HIDE DEF e
<1>6. tbl[f].pcb = NONE /\ \A x \in Client : sk[x].fd = f => sk[x].destroyed
  BY <1>3, TableFacts
<1>7. TableAgrees'
  <2>1. \A g, h \in Fd : tbl'[g].pcb = tbl'[h].pcb /\ tbl'[g].pcb # NONE => g = h
    BY <1>2, <1>4 DEF TableInv, TableAgrees
  <2>2. \A g \in Fd : /\ tbl'[g].pcb # NONE => tbl'[g].open
                      /\ tbl'[g].open => tbl'[g].obj
                      /\ tbl'[g].obj /\ ~tbl'[g].open =>
                           \E i \in DOMAIN frames : frames[i].on = "close" /\ frames[i].fd = g
    BY <1>2, <1>4 DEF TableInv, TableAgrees
  <2> QED BY <1>3, <2>1, <2>2 DEF TableAgrees
<1>8. SocketsMatch'
  <2>1. ASSUME NEW x \in Client, sk[x].fd # NoFd, ~sk[x].destroyed
        PROVE  tbl'[sk[x].fd].open /\ tbl'[sk[x].fd].pcb = own[x] /\ tbl'[sk[x].fd].bound = x
    <3>1. sk[x].fd \in Fd /\ sk[x].fd # f
      BY <1>6, <2>1, TableFacts, Names
    <3> QED BY <1>4, <2>1, <3>1 DEF TableInv, SocketsMatch
  <2>2. ASSUME NEW g \in Fd, tbl'[g].pcb # NONE
        PROVE  \E x \in Sock : own[x] = tbl'[g].pcb /\ sk[x].fd = g /\ ~sk[x].destroyed
    <3>1. tbl'[g] = tbl[g]
      BY <1>2, <1>4, <2>2
    <3> QED BY <1>2, <1>3, <2>2, <3>1, Holder
  <2> QED BY <1>3, <2>1, <2>2 DEF SocketsMatch
<1>9. OwnsMatch'
  BY <1>3 DEF TableInv, OwnsMatch
<1>10. ServerHolds'
  <2> SUFFICES ASSUME NEW g \in Fd, tbl'[g].state = "listening"
               PROVE  /\ g = f /\ tbl'[g].open /\ tbl'[g].pcb = NONE /\ tbl'[g].server = NoFd
                      /\ tbl'[g].bound \in Accepted \cup {NONE}
    BY <1>3 DEF ServerHolds, Listens
  <2>1. CASE g = f
    BY <1>2, <1>4, <2>1
  <2>2. CASE g # f
    BY <1>2, <1>3, <1>4, <2>2 DEF TableInv, ServerHolds, Listens
  <2> QED BY <2>1, <2>2
<1>11. EntriesKnown'
  <2> SUFFICES ASSUME NEW g \in Fd
               PROVE  /\ tbl'[g].pcb # NONE => net[tbl'[g].pcb] # "new"
                      /\ tbl'[g].server # NoFd => /\ tbl'[g].server = f /\ tbl'[g].pcb # NONE
                                                  /\ tbl'[g].bound = NONE
                      /\ tbl'[g].bound # NONE => sk[tbl'[g].bound].fd # NoFd
                      /\ tbl'[g].bound \in Client => sk[tbl'[g].bound].fd = g
                      /\ tbl'[g].open /\ tbl'[g].bound \in Accepted => g = f
                      /\ ~tbl'[g].open /\ tbl'[g].bound # NONE => sk[tbl'[g].bound].destroyed
    BY <1>3 DEF EntriesKnown
  <2>1. CASE g = f
    BY <1>2, <1>4, <2>1, Names
  <2>2. CASE g # f
    BY <1>3, <1>4, <2>2, Names DEF TableInv, EntriesKnown
  <2> QED BY <2>1, <2>2
<1>12. AcceptedHold'
  <2> SUFFICES ASSUME NEW x \in Accepted, sk[x].fd # NoFd, tbl'[sk[x].fd].pcb = own[x]
               PROVE  tbl'[sk[x].fd].server # NoFd
    BY <1>3 DEF AcceptedHold
  <2>1. sk[x].fd \in Fd /\ own[x] # NONE
    BY TableFacts, Names DEF TableInv, OwnsMatch
  <2>2. sk[x].fd # f
    BY <1>2, <1>4, <2>1
  <2> QED BY <1>4, <2>1, <2>2 DEF TableInv, AcceptedHold
<1>13. FramesKnown'
  <2> SUFFICES ASSUME NEW i \in 1 .. Len(frames), frames[i].on = "close" PROVE FALSE
    BY <1>3 DEF FramesKnown
  <2> QED BY <1>3, TableFacts DEF MayOpen
<1> QED BY <1>5, <1>7, <1>8, <1>9, <1>10, <1>11, <1>12, <1>13 DEF TableInv

(* What accept does to the Sockets and the table. *)
LEMMA AcceptEffect ==
  ASSUME TypeOK, NEW s \in Accepted, NEW c \in Conn, NEW f \in Fd, Accept(s, c, f), f # srv
  PROVE  /\ srv \in Fd /\ s \in Sock
         /\ tbl' \in [Fd -> Entry]
         /\ tbl'[f].open /\ tbl'[f].obj /\ tbl'[f].pcb = c /\ tbl'[f].bound = NONE
         /\ tbl'[f].server = srv /\ tbl'[f].state = "connected"
         /\ tbl'[srv].bound = s /\ tbl'[srv].open = tbl[srv].open /\ tbl'[srv].pcb = tbl[srv].pcb
         /\ tbl'[srv].obj = tbl[srv].obj /\ tbl'[srv].server = tbl[srv].server
         /\ tbl'[srv].state = tbl[srv].state
         /\ \A g \in Fd : g # f /\ g # srv => tbl'[g] = tbl[g]
         /\ sk' \in [Sock -> SocketObject] /\ sk'[s].fd = f /\ (sk'[s].destroyed <=> sk[s].destroyed)
         /\ sk'[s].wbuf = sk[s].wbuf /\ sk'[s].ended = sk[s].ended /\ sk'[s].finished = sk[s].finished
         /\ \A x \in Sock : x # s => sk'[x] = sk[x]
         /\ net' = [net EXCEPT ![c] = "open"] /\ own' = [own EXCEPT ![s] = c]
         /\ UNCHANGED <<srv, timers, frames, given, sent, lost, failed, fin>>
<1> USE DEF Accept
<1>1. srv \in Fd /\ s \in Sock
  BY Names DEF TypeOK
<1> DEFINE e == [open |-> TRUE, server |-> srv, state |-> "connected",
                 pcb |-> c, obj |-> TRUE, bound |-> NONE]
           o == tbl[srv]
           b == [o EXCEPT !.bound = s]
           m == [sk[s] EXCEPT !.fd = f]
<1>2. /\ e \in Entry /\ e.open /\ e.obj /\ e.pcb = c /\ e.bound = NONE /\ e.server = srv
      /\ e.state = "connected"
  BY <1>1 DEF Entry
<1>3. o \in Entry /\ tbl \in [Fd -> Entry]
  BY <1>1 DEF TypeOK
<1>4. /\ b \in Entry /\ b.bound = s /\ b.open = o.open /\ b.pcb = o.pcb /\ b.obj = o.obj
      /\ b.server = o.server /\ b.state = o.state
  BY <1>1, <1>3 DEF Entry
<1>5. tbl' = [tbl EXCEPT ![f] = e, ![srv] = b]
  OBVIOUS
<1>6. sk[s] \in SocketObject /\ sk \in [Sock -> SocketObject]
  BY <1>1 DEF TypeOK
<1>7. /\ m \in SocketObject /\ m.fd = f /\ m.destroyed = sk[s].destroyed
      /\ m.wbuf = sk[s].wbuf /\ m.ended = sk[s].ended /\ m.finished = sk[s].finished
  BY <1>6 DEF SocketObject
<1>8. sk' = [sk EXCEPT ![s] = m]
  OBVIOUS
<1>9. /\ net' = [net EXCEPT ![c] = "open"] /\ own' = [own EXCEPT ![s] = c]
      /\ UNCHANGED <<srv, timers, frames, given, sent, lost, failed, fin>>
  OBVIOUS
<1> HIDE DEF e, b, m, Accept
<1>10. /\ tbl' \in [Fd -> Entry] /\ tbl'[f] = e /\ tbl'[srv] = b
       /\ \A g \in Fd : g # f /\ g # srv => tbl'[g] = tbl[g]
  BY <1>1, <1>2, <1>3, <1>4, <1>5
<1>11. sk' \in [Sock -> SocketObject] /\ sk'[s] = m /\ \A x \in Sock : x # s => sk'[x] = sk[x]
  BY <1>1, <1>6, <1>7, <1>8
<1> QED BY <1>1, <1>2, <1>4, <1>7, <1>9, <1>10, <1>11

LEMMA AcceptKeeps ==
  ASSUME TableInv, NEW s \in Accepted, NEW c \in Conn, NEW f \in Fd, Accept(s, c, f)
  PROVE  TableInv'
<1>1. /\ ~tbl[f].open /\ sk[s].fd = NoFd /\ net[c] = "new" /\ srv # NoFd /\ frames = <<>>
      /\ tbl[srv].state = "listening" /\ srv \in Fd
  BY DEF Accept, IsNext, NewConn, NewClient, TableInv, TypeOK
<1>9. /\ tbl[srv].open /\ tbl[srv].pcb = NONE /\ tbl[srv].server = NoFd
      /\ tbl[srv].bound \in Accepted \cup {NONE}
  BY <1>1 DEF TableInv, ServerHolds, Listens
<1>2. /\ tbl[f].pcb = NONE /\ f # srv /\ \A x \in Client : sk[x].fd = f => sk[x].destroyed
      /\ \A g \in Fd : tbl[g].pcb # c
      /\ \A x \in Sock : own[x] # c
  BY <1>1, <1>9, TableFacts
<1>0. s \notin Client /\ NONE \notin Sock /\ NONE \notin Conn /\ TypeOK
  BY Names DEF TableInv
<1>3. /\ srv \in Fd /\ s \in Sock /\ s \notin Client /\ NONE \notin Sock /\ NONE \notin Conn
      /\ tbl' \in [Fd -> Entry] /\ tbl'[f].open /\ tbl'[f].obj /\ tbl'[f].pcb = c /\ tbl'[f].bound = NONE
      /\ tbl'[f].server = srv /\ tbl'[f].state = "connected"
      /\ tbl'[srv].bound = s /\ tbl'[srv].open = tbl[srv].open /\ tbl'[srv].pcb = tbl[srv].pcb
      /\ tbl'[srv].obj = tbl[srv].obj /\ tbl'[srv].server = tbl[srv].server
      /\ tbl'[srv].state = tbl[srv].state
      /\ \A g \in Fd : g # f /\ g # srv => tbl'[g] = tbl[g]
      /\ sk' \in [Sock -> SocketObject] /\ sk'[s].fd = f /\ (sk'[s].destroyed <=> sk[s].destroyed)
      /\ \A x \in Sock : x # s => sk'[x] = sk[x]
      /\ UNCHANGED <<srv, timers, frames, given, sent, lost, failed, fin>>
  BY <1>2, <1>0, AcceptEffect
<1>4. /\ net' = [net EXCEPT ![c] = "open"] /\ own' = [own EXCEPT ![s] = c]
  BY DEF Accept
<1>5. net'[c] # "new" /\ net' \in [Conn -> {"new", "failed", "opening", "open", "ended"}]
      /\ \A d \in Conn : net[d] # "new" => net'[d] # "new"
  BY <1>4 DEF TableInv, TypeOK
<1>6. own'[s] = c /\ own' \in [Sock -> Conn \cup {NONE}] /\ \A x \in Sock : x # s => own'[x] = own[x]
  BY <1>3, <1>4 DEF TableInv, TypeOK
<1>7. TypeOK'
  BY <1>3, <1>5, <1>6 DEF TableInv, TypeOK
<1>8. ~sk[s].destroyed /\ f # NoFd
  BY <1>1, <1>3, Names DEF TableInv, OwnsMatch
<1>10. \A g \in Fd : g # f => /\ tbl'[g].open = tbl[g].open /\ tbl'[g].pcb = tbl[g].pcb
                              /\ tbl'[g].obj = tbl[g].obj /\ tbl'[g].server = tbl[g].server
                              /\ tbl'[g].state = tbl[g].state
  <2> TAKE g \in Fd
  <2>1. CASE g = srv
    BY <1>3, <2>1
  <2>2. CASE g # srv
    BY <1>3, <2>2
  <2> QED BY <2>1, <2>2
<1>11. TableAgrees'
  <2>1. \A g, h \in Fd : tbl'[g].pcb = tbl'[h].pcb /\ tbl'[g].pcb # NONE => g = h
    BY <1>2, <1>3, <1>10 DEF TableInv, TableAgrees
  <2>2. \A g \in Fd : /\ tbl'[g].pcb # NONE => tbl'[g].open
                      /\ tbl'[g].open => tbl'[g].obj
                      /\ tbl'[g].obj /\ ~tbl'[g].open =>
                           \E i \in DOMAIN frames : frames[i].on = "close" /\ frames[i].fd = g
    BY <1>3, <1>10 DEF TableInv, TableAgrees
  <2> QED BY <1>3, <2>1, <2>2 DEF TableAgrees
<1>12. SocketsMatch'
  <2>1. ASSUME NEW x \in Client, sk'[x].fd # NoFd, ~sk'[x].destroyed
        PROVE  tbl'[sk'[x].fd].open /\ tbl'[sk'[x].fd].pcb = own'[x] /\ tbl'[sk'[x].fd].bound = x
    <3>1. sk'[x] = sk[x] /\ own'[x] = own[x] /\ x \in Sock
      BY <1>3, <1>6, Names
    <3>2. /\ sk[x].fd \in Fd /\ sk[x].fd # f /\ tbl[sk[x].fd].open
          /\ tbl[sk[x].fd].pcb = own[x] /\ tbl[sk[x].fd].bound = x
      BY <1>2, <2>1, <3>1, TableFacts DEF TableInv, SocketsMatch
    <3>3. sk[x].fd # srv
      BY <1>3, <1>9, <3>1, <3>2, Names
    <3> QED BY <1>3, <3>1, <3>2, <3>3
  <2>2. ASSUME NEW g \in Fd, tbl'[g].pcb # NONE
        PROVE  \E x \in Sock : /\ own'[x] = tbl'[g].pcb /\ sk'[x].fd = g
                               /\ sk'[x].destroyed => /\ tbl'[g].server # NoFd
                                                      /\ tbl'[tbl'[g].server].state # "listening"
    <3>1. CASE g = f
      BY <1>3, <1>6, <1>8, <3>1
    <3>2. CASE g # f
      <4>1. PICK x \in Sock : /\ own[x] = tbl[g].pcb /\ sk[x].fd = g
                              /\ sk[x].destroyed => /\ tbl[g].server = srv /\ srv \in Fd
                                                    /\ tbl[srv].state # "listening"
        <5>1. tbl[g].pcb # NONE
          BY <1>10, <2>2, <3>2
        <5> QED BY <5>1, Holder
      <4>2. x # s
        BY <1>1, <4>1, Names
      <4>3. ~sk[x].destroyed
        BY <1>1, <4>1
      <4> QED BY <1>3, <1>6, <1>10, <3>2, <4>1, <4>2, <4>3
    <3> QED BY <3>1, <3>2
  <2> QED BY <2>1, <2>2 DEF SocketsMatch, Listens
<1>13. OwnsMatch'
  <2> SUFFICES ASSUME NEW x \in Sock
               PROVE  /\ sk'[x].fd = NoFd => own'[x] = NONE /\ ~sk'[x].destroyed
                      /\ x \in Accepted /\ sk'[x].fd # NoFd => own'[x] # NONE
                      /\ own'[x] # NONE => net'[own'[x]] # "new"
    BY DEF OwnsMatch
  <2>1. CASE x = s
    BY <1>3, <1>5, <1>6, <1>8, <2>1
  <2>2. CASE x # s
    BY <1>3, <1>5, <1>6, <2>2, TableFacts DEF TableInv, OwnsMatch
  <2> QED BY <2>1, <2>2
<1>14. ServerHolds'
  <2> SUFFICES ASSUME NEW g \in Fd, tbl'[g].state = "listening"
               PROVE  /\ g = srv /\ tbl'[g].open /\ tbl'[g].pcb = NONE /\ tbl'[g].server = NoFd
                      /\ tbl'[g].bound \in Accepted \cup {NONE}
    BY <1>3 DEF ServerHolds, Listens
  <2>1. CASE g = srv
    BY <1>3, <1>9, <2>1
  <2>2. CASE g # srv
    <3>1. g # f /\ tbl'[g] = tbl[g]
      BY <1>3, <2>2
    <3> QED BY <2>2, <3>1 DEF TableInv, ServerHolds, Listens
  <2> QED BY <2>1, <2>2
<1>15. EntriesKnown'
  <2> SUFFICES ASSUME NEW g \in Fd
               PROVE  /\ tbl'[g].pcb # NONE => net'[tbl'[g].pcb] # "new"
                      /\ tbl'[g].server # NoFd => /\ tbl'[g].server = srv' /\ tbl'[g].pcb # NONE
                                                  /\ tbl'[g].bound = NONE
                      /\ tbl'[g].bound # NONE => sk'[tbl'[g].bound].fd # NoFd
                      /\ tbl'[g].bound \in Client => sk'[tbl'[g].bound].fd = g
                      /\ tbl'[g].open /\ tbl'[g].bound \in Accepted => g = srv'
                      /\ ~tbl'[g].open /\ tbl'[g].bound # NONE => sk'[tbl'[g].bound].destroyed
    BY DEF EntriesKnown
  <2>1. CASE g = f
    BY <1>3, <1>5, <2>1, Names
  <2>2. CASE g = srv
    BY <1>2, <1>3, <1>8, <1>9, <2>2
  <2>3. CASE g # f /\ g # srv
    <3>1. tbl'[g] = tbl[g] /\ tbl[g].bound # s /\ tbl[g].bound \in Sock \cup {NONE} /\ tbl[g].pcb \in Conn \cup {NONE}
      BY <1>1, <1>3, <2>3, TableFacts DEF TableInv, EntriesKnown
    <3> QED BY <1>3, <1>5, <3>1, Names DEF TableInv, EntriesKnown
  <2> QED BY <2>1, <2>2, <2>3
<1>16. AcceptedHold'
  <2> SUFFICES ASSUME NEW x \in Accepted, sk'[x].fd # NoFd, tbl'[sk'[x].fd].pcb = own'[x]
               PROVE  tbl'[sk'[x].fd].server # NoFd
    BY DEF AcceptedHold
  <2>1. CASE x = s
    BY <1>1, <1>3, <2>1
  <2>2. CASE x # s
    <3>1. x \in Sock /\ sk'[x] = sk[x] /\ own'[x] = own[x]
      BY <1>3, <1>6, <2>2, Names
    <3>2. sk[x].fd \in Fd /\ sk[x].fd # f
      BY <1>2, <1>3, <3>1, TableFacts
    <3> QED BY <1>10, <3>1, <3>2 DEF TableInv, AcceptedHold
  <2> QED BY <2>1, <2>2
<1>17. FramesKnown'
  BY <1>1, <1>3 DEF FramesKnown
<1> QED BY <1>7, <1>11, <1>12, <1>13, <1>14, <1>15, <1>16, <1>17 DEF TableInv

(* An entry is closed: of a Socket that destroys itself, of a server without
   clients, or whatever a late end of a connection finds in the entry. *)
LEMMA CloseEntryKeeps ==
  ASSUME TableInv, NEW f \in Fd, NEW x \in Sock \cup {NONE}, CloseEntry(f, x),
         UNCHANGED <<own, timers, given, sent, lost, failed, fin>>,
         net' \in [Conn -> {"new", "failed", "opening", "open", "ended"}],
         \A c \in Conn : net[c] # "new" => net'[c] # "new",
         srv' = srv \/ (f = srv /\ srv' = NoFd /\ \A g \in Fd : tbl[g].server # srv),
         x # NONE => /\ sk[x].fd = f
                     /\ x \in Client => tbl[f].bound = x
                     /\ x \in Accepted => tbl[f].bound = NONE
  PROVE  /\ TableInv'
         /\ \A y \in Sock : /\ sk'[y].wbuf = sk[y].wbuf /\ sk'[y].ended = sk[y].ended
                            /\ sk'[y].finished = sk[y].finished
         /\ \/ frames' = frames
            \/ frames' = Append(frames, [on |-> "close", fd |-> f, sock |-> x])
<1> DEFINE b == tbl[f].bound
           e == [on |-> "close", fd |-> f, sock |-> x]
<1>1. /\ b \in Sock \cup {NONE} /\ NONE \notin Sock /\ NONE \notin Conn
      /\ b \in Client => sk[b].fd = f
      /\ tbl[f].open /\ b \in Accepted => f = srv
      /\ b # NONE /\ ~sk[b].destroyed => tbl[f].open /\ tbl[f].obj
      /\ b # NONE => sk[b].fd # NoFd
      /\ Len(frames) \in Nat /\ DOMAIN frames = 1 .. Len(frames) /\ frames \in Seq(Frame)
  BY TableFacts, Names DEF TableInv, TypeOK, TableAgrees, EntriesKnown
<1>2. e \in Frame /\ e.on = "close" /\ e.fd = f /\ e.sock = x
  BY DEF Frame
<1>3. \/ /\ b # NONE /\ ~sk[b].destroyed /\ tbl' = [tbl EXCEPT ![f] = Closing(f)]
         /\ sk' = AfterDestroy(b) /\ frames' = Append(frames, e)
      \/ /\ b = NONE \/ sk[b].destroyed
         /\ tbl' = [tbl EXCEPT ![f] = FreeEntry] /\ frames' = frames
         /\ sk' = (IF x = NONE THEN sk ELSE AfterDestroy(x))
  BY <1>1 DEF CloseEntry
<1> HIDE DEF e
<1>4. /\ Append(frames, e) \in Seq(Frame) /\ Len(Append(frames, e)) = Len(frames) + 1
      /\ Append(frames, e)[Len(frames) + 1] = e
      /\ \A i \in 1 .. Len(frames) : Append(frames, e)[i] = frames[i]
      /\ DOMAIN Append(frames, e) = 1 .. Len(frames) + 1
  BY <1>1, <1>2, AppendProperties, LenProperties
<1>5. /\ frames' \in Seq(Frame) /\ DOMAIN frames' = 1 .. Len(frames') /\ Len(frames') \in Nat
      /\ \A i \in 1 .. Len(frames) : i \in 1 .. Len(frames') /\ frames'[i] = frames[i]
      /\ \A i \in 1 .. Len(frames') : i \in 1 .. Len(frames) \/ frames'[i] = e
      /\ frames' = Append(frames, e) => \E i \in 1 .. Len(frames') : frames'[i] = e
  <2>1. /\ frames \in Seq(Frame) /\ DOMAIN frames = 1 .. Len(frames) /\ Len(frames) \in Nat
        /\ frames # Append(frames, e)
    <3> DEFINE n == Len(frames)
               m == Len(Append(frames, e))
    <3>1. n \in Nat /\ m = n + 1
      BY <1>1, <1>4
    <3> HIDE DEF n, m
    <3>2. n # m
      BY <3>1
    <3> QED BY <1>1, <3>2 DEF n, m
  <2>2. /\ Append(frames, e) \in Seq(Frame)
        /\ DOMAIN Append(frames, e) = 1 .. Len(Append(frames, e))
        /\ Len(Append(frames, e)) \in Nat
    BY <1>1, <1>4
  <2>3. Len(frames) + 1 \in 1 .. Len(Append(frames, e))
    BY <1>1, <1>4
  <2>4. \A i \in 1 .. Len(frames) : i \in 1 .. Len(Append(frames, e)) /\ Append(frames, e)[i] = frames[i]
    BY <1>1, <1>4
  <2>5. \A i \in 1 .. Len(Append(frames, e)) : i \in 1 .. Len(frames) \/ Append(frames, e)[i] = e
    <3>1. \A i \in 1 .. Len(Append(frames, e)) : i \in 1 .. Len(frames) \/ i = Len(frames) + 1
      BY <1>1, <1>4
    <3> QED BY <1>4, <3>1
  <2>6. \E i \in 1 .. Len(Append(frames, e)) : Append(frames, e)[i] = e
    BY <1>4, <2>3
  <2>7. CASE frames' = frames
    BY <2>1, <2>7
  <2>8. CASE frames' = Append(frames, e)
    BY <2>2, <2>4, <2>5, <2>6, <2>8
  <2> QED BY <1>3, <2>7, <2>8
<1>6. /\ tbl' \in [Fd -> Entry]
      /\ ~tbl'[f].open /\ tbl'[f].server = NoFd /\ tbl'[f].state = "closed" /\ tbl'[f].pcb = NONE
      /\ tbl'[f].bound = b \/ tbl'[f].bound = NONE
      /\ tbl'[f].obj => frames' = Append(frames, e)
      /\ \A g \in Fd : g # f => tbl'[g] = tbl[g]
  <2>1. tbl \in [Fd -> Entry] /\ Closing(f) \in Entry /\ FreeEntry \in Entry
    BY EntryTypes DEF TableInv, TypeOK
  <2>2. /\ ~Closing(f).open /\ Closing(f).server = NoFd /\ Closing(f).state = "closed"
        /\ Closing(f).pcb = NONE /\ Closing(f).bound = b
    BY DEF Closing
  <2>3. /\ ~FreeEntry.open /\ FreeEntry.server = NoFd /\ FreeEntry.state = "closed"
        /\ FreeEntry.pcb = NONE /\ FreeEntry.bound = NONE /\ ~FreeEntry.obj
    BY DEF FreeEntry
  <2>4. CASE tbl' = [tbl EXCEPT ![f] = Closing(f)] /\ frames' = Append(frames, e)
    BY <2>1, <2>2, <2>4
  <2>5. CASE tbl' = [tbl EXCEPT ![f] = FreeEntry]
    BY <2>1, <2>3, <2>5
  <2> QED BY <1>3, <2>4, <2>5
<1>7. /\ sk' \in [Sock -> SocketObject]
      /\ \A y \in Sock : y # b /\ y # x => sk'[y] = sk[y]
      /\ \A y \in Sock : sk'[y].fd = sk[y].fd /\ (sk[y].destroyed => sk'[y].destroyed)
                         /\ sk'[y].wbuf = sk[y].wbuf /\ sk'[y].ended = sk[y].ended
                         /\ sk'[y].finished = sk[y].finished
      /\ b # NONE => sk'[b].destroyed
      /\ x # NONE => sk'[x].destroyed
      /\ x # NONE => x = b \/ b = NONE
  <2>1. sk \in [Sock -> SocketObject] /\ TypeOK
    BY DEF TableInv, TypeOK
  <2>2. x # NONE => x = b \/ b = NONE
    BY Names
  <2>3. ASSUME b # NONE, sk' = AfterDestroy(b)
        PROVE  /\ sk' \in [Sock -> SocketObject] /\ sk'[b].destroyed
               /\ \A y \in Sock : y # b => sk'[y] = sk[y]
               /\ \A y \in Sock : sk'[y].fd = sk[y].fd /\ (sk[y].destroyed => sk'[y].destroyed)
                         /\ sk'[y].wbuf = sk[y].wbuf /\ sk'[y].ended = sk[y].ended
                         /\ sk'[y].finished = sk[y].finished
    BY <1>1, <2>1, <2>3, Destroyed
  <2>4. ASSUME x # NONE, sk' = AfterDestroy(x)
        PROVE  /\ sk' \in [Sock -> SocketObject] /\ sk'[x].destroyed
               /\ \A y \in Sock : y # x => sk'[y] = sk[y]
               /\ \A y \in Sock : sk'[y].fd = sk[y].fd /\ (sk[y].destroyed => sk'[y].destroyed)
                         /\ sk'[y].wbuf = sk[y].wbuf /\ sk'[y].ended = sk[y].ended
                         /\ sk'[y].finished = sk[y].finished
    BY <1>1, <2>1, <2>4, Destroyed
  <2> HIDE DEF b
  <2>5. CASE b # NONE /\ sk' = AfterDestroy(b)
    BY <1>1, <2>2, <2>3, <2>5
  <2>6. CASE (b = NONE \/ sk[b].destroyed) /\ x # NONE /\ sk' = AfterDestroy(x)
    BY <1>1, <2>2, <2>4, <2>6
  <2>7. CASE (b = NONE \/ sk[b].destroyed) /\ x = NONE /\ sk' = sk
    BY <1>1, <2>1, <2>7
  <2> QED BY <1>3, <2>5, <2>6, <2>7
<1>8. srv' = srv \/ (f = srv /\ srv' = NoFd)
  OBVIOUS
<1>9. TypeOK'
  BY <1>5, <1>6, <1>7, <1>8, Names DEF TableInv, TypeOK
<1>10. TableAgrees'
  <2>1. \A g, h \in Fd : tbl'[g].pcb = tbl'[h].pcb /\ tbl'[g].pcb # NONE => g = h
    BY <1>6 DEF TableInv, TableAgrees
  <2>2. ASSUME NEW g \in Fd
        PROVE  /\ tbl'[g].pcb # NONE => tbl'[g].open
               /\ tbl'[g].open => tbl'[g].obj
               /\ tbl'[g].obj /\ ~tbl'[g].open =>
                    \E i \in 1 .. Len(frames') : frames'[i].on = "close" /\ frames'[i].fd = g
    <3>1. CASE g = f
      <4>1. tbl'[f].obj => \E i \in 1 .. Len(frames') : frames'[i] = e
        BY <1>5, <1>6
      <4>2. tbl'[f].pcb = NONE /\ ~tbl'[f].open
        BY <1>6
      <4>3. \A i \in 1 .. Len(frames') : frames'[i] = e => frames'[i].on = "close" /\ frames'[i].fd = f
        BY <1>2
      <4>4. tbl'[g].obj => \E i \in 1 .. Len(frames') : frames'[i].on = "close" /\ frames'[i].fd = g
        BY <3>1, <4>1, <4>3
      <4> QED BY <3>1, <4>2, <4>4
    <3>2. CASE g # f
      <4>1. tbl'[g] = tbl[g]
        BY <1>6, <3>2
      <4>2. /\ tbl[g].pcb # NONE => tbl[g].open
            /\ tbl[g].open => tbl[g].obj
            /\ tbl[g].obj /\ ~tbl[g].open =>
                 \E i \in 1 .. Len(frames) : frames[i].on = "close" /\ frames[i].fd = g
        BY <1>1 DEF TableInv, TableAgrees
      <4>3. (\E i \in 1 .. Len(frames) : frames[i].on = "close" /\ frames[i].fd = g)
              => \E i \in 1 .. Len(frames') : frames'[i].on = "close" /\ frames'[i].fd = g
        <5>1. \A i \in 1 .. Len(frames) : i \in 1 .. Len(frames') /\ frames'[i] = frames[i]
          BY <1>5
        <5> HIDE DEF b
        <5> QED BY <5>1
      <4> QED BY <4>1, <4>2, <4>3
    <3> QED BY <3>1, <3>2
  <2> QED BY <1>5, <2>1, <2>2 DEF TableAgrees
<1>11. SocketsMatch'
  <2>1. ASSUME NEW y \in Client, sk'[y].fd # NoFd, ~sk'[y].destroyed
        PROVE  tbl'[sk'[y].fd].open /\ tbl'[sk'[y].fd].pcb = own[y] /\ tbl'[sk'[y].fd].bound = y
    <3>1. y \in Sock /\ sk'[y].fd = sk[y].fd /\ ~sk[y].destroyed /\ sk[y].fd \in Fd
      BY <1>7, <2>1, TableFacts, Names
    <3>2. tbl[sk[y].fd].open /\ tbl[sk[y].fd].pcb = own[y] /\ tbl[sk[y].fd].bound = y
      BY <2>1, <3>1 DEF TableInv, SocketsMatch
    <3>3. sk[y].fd # f
      BY <1>1, <1>7, <2>1, <3>1, <3>2
    <3> QED BY <1>6, <3>1, <3>2, <3>3
  <2>2. ASSUME NEW g \in Fd, tbl'[g].pcb # NONE
        PROVE  \E y \in Sock : /\ own[y] = tbl'[g].pcb /\ sk'[y].fd = g
                               /\ sk'[y].destroyed => /\ tbl'[g].server # NoFd
                                                      /\ tbl'[tbl'[g].server].state # "listening"
    <3>1. g # f /\ tbl'[g] = tbl[g]
      BY <1>6, <2>2
    <3>2. PICK y \in Sock : /\ own[y] = tbl[g].pcb /\ sk[y].fd = g
                            /\ sk[y].destroyed => /\ tbl[g].server = srv /\ srv \in Fd
                                                  /\ tbl[srv].state # "listening"
      BY <2>2, <3>1, Holder
    <3>3. y # x
      BY <1>1, <3>1, <3>2
    <3>4. srv \in Fd /\ tbl[srv].state # "listening" => tbl'[srv].state # "listening" /\ srv # NoFd
      BY <1>6, Names
    <3>5. CASE sk'[y].destroyed = sk[y].destroyed
      BY <1>7, <3>1, <3>2, <3>4, <3>5
    <3>6. CASE sk'[y].destroyed # sk[y].destroyed
      <4>1. y = b /\ ~sk[y].destroyed
        BY <1>1, <1>7, <3>3, <3>6, TableFacts DEF SocketObject
      <4>2. y \in Accepted /\ f = srv
        BY <1>1, <3>1, <3>2, <4>1, Names
      <4>3. tbl[g].server # NoFd
        BY <3>2, <4>2, Names DEF TableInv, AcceptedHold
      <4>4. tbl[g].server = srv
        BY <4>3 DEF TableInv, EntriesKnown
      <4>5. tbl'[srv].state # "listening"
        BY <1>6, <4>2
      <4> QED BY <1>7, <3>1, <3>2, <4>3, <4>4, <4>5
    <3> QED BY <3>5, <3>6
  <2> QED BY <2>1, <2>2 DEF SocketsMatch, Listens
<1>12. OwnsMatch'
  <2> SUFFICES ASSUME NEW y \in Sock
               PROVE  /\ sk'[y].fd = NoFd => own[y] = NONE /\ ~sk'[y].destroyed
                      /\ y \in Accepted /\ sk'[y].fd # NoFd => own[y] # NONE
                      /\ own[y] # NONE => net'[own[y]] # "new"
    BY DEF OwnsMatch
  <2>1. sk'[y].fd = sk[y].fd
    BY <1>7
  <2>2. sk[y].fd = NoFd => sk'[y] = sk[y]
    <3>1. sk[y].fd = NoFd => y # b /\ y # x
      BY <1>1, Names
    <3> QED BY <1>7, <3>1
  <2> QED BY <2>1, <2>2, TableFacts DEF TableInv, OwnsMatch
<1>13. ServerHolds'
  <2> SUFFICES ASSUME NEW g \in Fd, tbl'[g].state = "listening"
               PROVE  /\ g = srv' /\ tbl'[g].open /\ tbl'[g].pcb = NONE /\ tbl'[g].server = NoFd
                      /\ tbl'[g].bound \in Accepted \cup {NONE}
    BY DEF ServerHolds, Listens
  <2>1. g # f /\ tbl'[g] = tbl[g]
    BY <1>6
  <2>2. /\ g = srv /\ tbl[g].open /\ tbl[g].pcb = NONE /\ tbl[g].server = NoFd
        /\ tbl[g].bound \in Accepted \cup {NONE}
    BY <2>1 DEF TableInv, ServerHolds, Listens
  <2> QED BY <1>8, <2>1, <2>2
<1>14. EntriesKnown'
  <2> SUFFICES ASSUME NEW g \in Fd
               PROVE  /\ tbl'[g].pcb # NONE => net'[tbl'[g].pcb] # "new"
                      /\ tbl'[g].server # NoFd => /\ tbl'[g].server = srv' /\ tbl'[g].pcb # NONE
                                                  /\ tbl'[g].bound = NONE
                      /\ tbl'[g].bound # NONE => sk'[tbl'[g].bound].fd # NoFd
                      /\ tbl'[g].bound \in Client => sk'[tbl'[g].bound].fd = g
                      /\ tbl'[g].open /\ tbl'[g].bound \in Accepted => g = srv'
                      /\ ~tbl'[g].open /\ tbl'[g].bound # NONE => sk'[tbl'[g].bound].destroyed
    BY DEF EntriesKnown
  <2>1. CASE g = f
    <3>1. /\ tbl'[f].bound # NONE => b # NONE /\ tbl'[f].bound = b /\ sk'[b].fd = sk[b].fd
          /\ NONE \notin Client
      BY <1>1, <1>6, <1>7, Names
    <3> QED BY <1>1, <1>6, <1>7, <2>1, <3>1
  <2>2. CASE g # f
    <3>1. /\ tbl'[g] = tbl[g] /\ tbl[g].bound \in Sock \cup {NONE}
          /\ tbl[g].pcb \in Conn \cup {NONE}
      BY <1>6, <2>2, TableFacts
    <3>2. /\ tbl[g].pcb # NONE => net[tbl[g].pcb] # "new"
          /\ tbl[g].server # NoFd => /\ tbl[g].server = srv /\ tbl[g].pcb # NONE
                                     /\ tbl[g].bound = NONE
          /\ tbl[g].bound # NONE => sk[tbl[g].bound].fd # NoFd
          /\ tbl[g].bound \in Client => sk[tbl[g].bound].fd = g
          /\ tbl[g].open /\ tbl[g].bound \in Accepted => g = srv
          /\ ~tbl[g].open /\ tbl[g].bound # NONE => sk[tbl[g].bound].destroyed
      BY DEF TableInv, EntriesKnown
    <3>3. \A y \in Sock : sk'[y].fd = sk[y].fd /\ (sk[y].destroyed => sk'[y].destroyed)
      BY <1>7
    <3>4. tbl[g].bound # NONE => /\ tbl[g].bound \in Sock /\ sk'[tbl[g].bound].fd = sk[tbl[g].bound].fd
                                 /\ sk[tbl[g].bound].destroyed => sk'[tbl[g].bound].destroyed
      BY <3>1, <3>3
    <3>5. tbl[g].bound \in Client => tbl[g].bound # NONE
      BY Names
    <3>6. tbl[g].pcb # NONE => net'[tbl[g].pcb] # "new"
      BY <3>1, <3>2
    <3>7. tbl[g].open /\ tbl[g].bound \in Accepted => g = srv'
      BY <1>8, <2>2, <3>2
    <3>8. tbl[g].server # NoFd => tbl[g].server = srv'
      BY <1>8, <3>2
    <3> QED BY <3>1, <3>2, <3>4, <3>5, <3>6, <3>7, <3>8
  <2> QED BY <2>1, <2>2
<1>15. AcceptedHold'
  <2> SUFFICES ASSUME NEW y \in Accepted, sk'[y].fd # NoFd, tbl'[sk'[y].fd].pcb = own[y]
               PROVE  tbl'[sk'[y].fd].server # NoFd
    BY DEF AcceptedHold
  <2>1. y \in Sock /\ sk'[y].fd = sk[y].fd /\ sk[y].fd \in Fd /\ own[y] # NONE
    BY <1>7, TableFacts, Names DEF TableInv, OwnsMatch
  <2>2. sk[y].fd # f
    BY <1>6, <2>1
  <2> QED BY <1>6, <2>1, <2>2, Names DEF TableInv, AcceptedHold
<1>16. FramesKnown'
  <2> SUFFICES ASSUME NEW i \in 1 .. Len(frames'), frames'[i].on = "close"
               PROVE  /\ ~tbl'[frames'[i].fd].open
                      /\ frames'[i].sock # NONE => sk'[frames'[i].sock].destroyed
    BY DEF FramesKnown
  <2>1. CASE frames'[i] = e
    BY <1>2, <1>6, <1>7, <2>1
  <2>2. CASE i \in 1 .. Len(frames)
    <3>1. frames'[i] = frames[i] /\ frames[i] \in [on : {"close"}, fd : Fd, sock : Sock \cup {NONE}]
      BY <1>5, <2>2, TableFacts DEF Frame
    <3>2. frames[i].sock \in Sock \cup {NONE} /\ frames[i].fd \in Fd
      BY <3>1
    <3>3. ~tbl[frames[i].fd].open /\ (frames[i].sock # NONE => sk[frames[i].sock].destroyed)
      BY <2>2, <3>1 DEF TableInv, FramesKnown
    <3> QED BY <1>6, <1>7, <3>1, <3>2, <3>3
  <2> QED BY <1>5, <2>1, <2>2
<1>17. TableInv'
  BY <1>9, <1>10, <1>11, <1>12, <1>13, <1>14, <1>15, <1>16 DEF TableInv
<1> QED BY <1>3, <1>7, <1>17 DEF e

(* What a step that closes an entry does to the bytes: nothing. *)
BytesSame ==
  /\ UNCHANGED <<given, sent, lost, fin>>
  /\ \A y \in Sock : sk'[y].wbuf = sk[y].wbuf /\ sk'[y].ended = sk[y].ended
                     /\ sk'[y].finished = sk[y].finished

LEMMA ClosingKeeps ==
  ASSUME TableInv, CloseServer \/ \E s \in Sock : Destroy(s) \/ PeerCloses(s)
  PROVE  /\ TableInv' /\ BytesSame
         /\ \/ frames' = frames
            \/ \E f \in Fd, x \in Sock \cup {NONE} :
                 frames' = Append(frames, [on |-> "close", fd |-> f, sock |-> x])
<1> DEFINE Goal == /\ TableInv' /\ BytesSame
                   /\ \/ frames' = frames
                      \/ \E f \in Fd, x \in Sock \cup {NONE} :
                           frames' = Append(frames, [on |-> "close", fd |-> f, sock |-> x])
           Net == /\ net' \in [Conn -> {"new", "failed", "opening", "open", "ended"}]
                  /\ \A c \in Conn : net[c] # "new" => net'[c] # "new"
<1>0. net' = net => Net
  BY DEF TableInv, TypeOK
<1>1. ASSUME NEW f \in Fd, tbl[f].open PROVE MayClose(f)
  BY <1>1 DEF MayClose, TableInv, TableAgrees
<1>2. ASSUME NEW f \in Fd, NEW x \in Sock \cup {NONE}, CloseEntry(f, x), Net,
             UNCHANGED <<own, timers, given, sent, lost, failed, fin>>,
             srv' = srv \/ (f = srv /\ srv' = NoFd /\ \A g \in Fd : tbl[g].server # srv),
             x # NONE => /\ sk[x].fd = f
                         /\ x \in Client => tbl[f].bound = x
                         /\ x \in Accepted => tbl[f].bound = NONE
      PROVE  Goal
  <2>1. /\ TableInv' /\ \A y \in Sock : sk'[y].wbuf = sk[y].wbuf /\ sk'[y].ended = sk[y].ended
                                       /\ sk'[y].finished = sk[y].finished
        /\ \/ frames' = frames
           \/ frames' = Append(frames, [on |-> "close", fd |-> f, sock |-> x])
    BY <1>2, CloseEntryKeeps
  <2>2. BytesSame
    BY <1>2, <2>1 DEF BytesSame
  <2> QED BY <2>1, <2>2
<1>3. ASSUME Net, UNCHANGED <<tbl, sk, srv, frames, own, timers, given, sent, lost, failed, fin>>
      PROVE  Goal
  <2>1. TypeOK'
    BY <1>3 DEF TableInv, TypeOK
  <2>2. TableInv'
    BY <1>3, <2>1, TableSame
  <2> QED BY <1>3, <2>2 DEF BytesSame
<1> HIDE DEF Net
<1>4. ASSUME CloseServer PROVE Goal
  <2>1. /\ srv \in Fd /\ srv' = NoFd /\ (\A g \in Fd : tbl[g].server # srv)
        /\ UNCHANGED <<net, own, timers, given, sent, lost, failed, fin>>
    BY <1>4 DEF CloseServer, TableInv, TypeOK
  <2>2. CASE CloseEntry(srv, NONE)
    <3> HIDE DEF Goal
    <3> QED BY <1>0, <1>2, <2>1, <2>2
  <2>3. CASE ~MayClose(srv) /\ UNCHANGED <<tbl, sk, frames>>
    <3>1. tbl[srv].state # "listening" /\ ~tbl[srv].open
      BY <1>1, <2>1, <2>3 DEF MayClose
    <3>2. /\ \A g \in Fd : ~Listens(g)
          /\ \A g \in Fd : tbl[g].server = NoFd
          /\ \A g \in Fd : tbl[g].open => tbl[g].bound \notin Accepted
      BY <2>1, <3>1 DEF TableInv, ServerHolds, EntriesKnown, Listens
    <3>3. TypeOK'
      BY <2>1, <2>3 DEF TableInv, TypeOK
    <3>4. TableAgrees' /\ OwnsMatch' /\ AcceptedHold' /\ FramesKnown'
      BY <2>1, <2>3 DEF TableInv, TableAgrees, OwnsMatch, AcceptedHold, FramesKnown
    <3>5. SocketsMatch'
      BY <2>1, <2>3 DEF TableInv, SocketsMatch, Listens
    <3>6. ServerHolds'
      BY <2>3, <3>2 DEF ServerHolds, Listens
    <3>7. EntriesKnown'
      BY <2>1, <2>3, <3>2 DEF TableInv, EntriesKnown
    <3>8. TableInv'
      BY <3>3, <3>4, <3>5, <3>6, <3>7 DEF TableInv
    <3> QED BY <2>1, <2>3, <3>8 DEF BytesSame
  <2> QED BY <1>4, <2>2, <2>3 DEF CloseServer
<1>5. ASSUME NEW s \in Sock, PeerCloses(s) PROVE Goal
  <2> DEFINE f == sk[s].fd
  <2>1. f \in Fd
    BY <1>5, TableFacts DEF PeerCloses, TableInv, OwnsMatch
  <2>2. Net
    BY <1>5 DEF PeerCloses, Net, TableInv, TypeOK
  <2>3. UNCHANGED <<srv, timers, own, given, sent, lost, failed, fin>>
    BY <1>5 DEF PeerCloses
  <2>4. CloseEntry(f, NONE) \/ UNCHANGED <<tbl, sk, frames>>
    BY <1>5 DEF PeerCloses
  <2> HIDE DEF Goal, f
  <2>5. CASE CloseEntry(f, NONE)
    BY <1>2, <2>1, <2>2, <2>3, <2>5
  <2>6. CASE UNCHANGED <<tbl, sk, frames>>
    BY <1>3, <2>2, <2>3, <2>6
  <2> QED BY <2>4, <2>5, <2>6
<1>6. ASSUME NEW s \in Sock, Destroy(s) PROVE Goal
  <2> DEFINE f == sk[s].fd
  <2>1. f \in Fd /\ s # NONE
    BY <1>6, TableFacts, Names DEF Destroy
  <2>2. /\ tbl[f].open /\ (s \in Client => tbl[f].bound = s)
        /\ s \in Accepted => tbl[f].bound = NONE
    <3>1. CASE s \in Client
      BY <1>6, <3>1, Names DEF Destroy, TableInv, SocketsMatch
    <3>2. CASE s \in Accepted
      <4>1. tbl[f].pcb = own[s] /\ own[s] # NONE /\ s \notin Client
        BY <1>6, <2>1, <3>2, Names DEF Destroy, MayDestroy, TableInv, OwnsMatch
      <4>2. tbl[f].open /\ tbl[f].bound = NONE
        BY <2>1, <3>2, <4>1, Names DEF TableInv, TableAgrees, AcceptedHold, EntriesKnown
      <4> QED BY <4>1, <4>2
    <3> QED BY <3>1, <3>2, Names
  <2>3. CloseEntry(f, s) /\ srv' = srv
        /\ UNCHANGED <<net, own, timers, given, sent, lost, failed, fin>>
    BY <1>1, <1>6, <2>1, <2>2 DEF Destroy
  <2>4. sk[s].fd = f
    OBVIOUS
  <2> HIDE DEF Goal, f
  <2> QED BY <1>0, <1>2, <2>1, <2>2, <2>3, <2>4
<1> QED BY <1>4, <1>5, <1>6

(* The stack without its top. *)
LEMMA FramesPopped ==
  ASSUME TableInv, frames # <<>>, frames' = SubSeq(frames, 1, Len(frames) - 1)
  PROVE  /\ Len(frames) \in 1 .. Len(frames) /\ frames' \in Seq(Frame)
         /\ Len(frames') = Len(frames) - 1 /\ DOMAIN frames' = 1 .. Len(frames')
         /\ \A i \in 1 .. Len(frames') : i \in 1 .. Len(frames) /\ frames'[i] = frames[i]
         /\ \A i \in 1 .. Len(frames) : i # Len(frames) => i \in 1 .. Len(frames')
<1>1. frames \in Seq(Frame) /\ Len(frames) \in Nat
  BY TableFacts DEF TableInv, TypeOK
<1>2. Len(frames) > 0
  BY <1>1, EmptySeq, LenProperties
<1> DEFINE n == Len(frames)
<1>3. n \in 1 .. n /\ n - 1 \in 0 .. n
  BY <1>1, <1>2
<1>4. /\ SubSeq(frames, 1, n - 1) \in Seq(Frame) /\ Len(SubSeq(frames, 1, n - 1)) = n - 1
      /\ \A i \in 1 .. n - 1 : SubSeq(frames, 1, n - 1)[i] = frames[i]
  <2>1. \A i \in 1 .. n : frames[i] \in Frame
    BY <1>1, ElementOfSeq
  <2> HIDE DEF n
  <2>2. 1 \in Int /\ n - 1 \in Int /\ n \in Nat /\ n > 0 /\ \A i \in 1 .. n - 1 : frames[i] \in Frame
    BY <1>3, <2>1
  <2>3. /\ SubSeq(frames, 1, n - 1) \in Seq(Frame)
        /\ Len(SubSeq(frames, 1, n - 1)) = IF 1 <= n - 1 THEN (n - 1) - 1 + 1 ELSE 0
        /\ \A i \in 1 .. (n - 1) - 1 + 1 : SubSeq(frames, 1, n - 1)[i] = frames[1 + i - 1]
    BY <2>2, SubSeqProperties
  <2>4. (IF 1 <= n - 1 THEN (n - 1) - 1 + 1 ELSE 0) = n - 1 /\ (n - 1) - 1 + 1 = n - 1
    BY <2>2
  <2>5. \A i \in 1 .. n - 1 : 1 + i - 1 = i
    BY <2>2
  <2> QED BY <2>3, <2>4, <2>5
<1>5. frames' \in Seq(Frame) /\ Len(frames') = n - 1 /\ \A i \in 1 .. n - 1 : frames'[i] = frames[i]
  BY <1>4
<1>6. DOMAIN frames' = 1 .. Len(frames')
  BY <1>5, LenProperties
<1> HIDE DEF n
<1>7. /\ \A i \in 1 .. n - 1 : i \in 1 .. n
      /\ \A i \in 1 .. n : i # n => i \in 1 .. n - 1
  BY <1>3
<1> QED BY <1>3, <1>5, <1>6, <1>7 DEF n

LEMMA ListenerKeeps ==
  ASSUME TableInv, ListenerReturns
  PROVE  TableInv'
<1> DEFINE n == Len(frames)
           top == frames[n]
<1>1. /\ n \in 1 .. n /\ frames' \in Seq(Frame) /\ top \in Frame
      /\ DOMAIN frames' = 1 .. Len(frames')
      /\ \A i \in 1 .. Len(frames') : i \in 1 .. n /\ frames'[i] = frames[i]
      /\ \A i \in 1 .. n : i # n => i \in 1 .. Len(frames')
      /\ DOMAIN frames = 1 .. n
  BY FramesPopped, TableFacts DEF ListenerReturns
<1>2. /\ UNCHANGED <<srv, timers, net, own, given, sent, lost, failed, fin>>
      /\ \/ /\ top.on = "close"
            /\ tbl' = [tbl EXCEPT ![top.fd] = Freed(top.fd)]
            /\ sk' = (IF top.sock = NONE THEN sk ELSE AfterDestroy(top.sock))
         \/ /\ top.on = "error"
            /\ sk' = [sk EXCEPT ![top.sock].wbuf = <<>>] /\ tbl' = tbl
  BY DEF ListenerReturns
<1> HIDE DEF n
<1>3. /\ sk' \in [Sock -> SocketObject] /\ tbl' \in [Fd -> Entry]
      /\ \A x \in Sock : sk'[x].fd = sk[x].fd /\ (sk'[x].destroyed <=> sk[x].destroyed)
      /\ \A g \in Fd : \/ tbl'[g] = tbl[g] /\ (top.on = "close" => g # top.fd)
                       \/ /\ top.on = "close" /\ g = top.fd
                          /\ ~tbl[g].open /\ ~tbl'[g].open /\ tbl'[g].server = NoFd
                          /\ tbl'[g].pcb = NONE /\ ~tbl'[g].obj /\ tbl'[g].bound = NONE
                          /\ tbl'[g].state # "listening"
  <2>0. sk \in [Sock -> SocketObject] /\ tbl \in [Fd -> Entry] /\ TypeOK
    BY DEF TableInv, TypeOK
  <2>1. CASE top.on = "close"
    <3>1. top.fd \in Fd /\ top.sock \in Sock \cup {NONE}
      BY <1>1, <2>1 DEF Frame
    <3>2. ~tbl[top.fd].open /\ (top.sock # NONE => sk[top.sock].destroyed)
      BY <1>1, <2>1 DEF TableInv, FramesKnown
    <3>3. /\ sk' \in [Sock -> SocketObject]
          /\ \A x \in Sock : sk'[x].fd = sk[x].fd /\ (sk'[x].destroyed <=> sk[x].destroyed)
      <4>1. CASE top.sock = NONE
        BY <1>2, <2>0, <2>1, <4>1
      <4>2. CASE top.sock \in Sock
        <5> DEFINE s == top.sock
        <5>1. sk' = AfterDestroy(s) /\ s \in Sock /\ sk[s].destroyed
          BY <1>2, <2>1, <3>2, <4>2, Names
        <5> HIDE DEF s
        <5>2. /\ sk' \in [Sock -> SocketObject] /\ sk'[s].destroyed
              /\ \A x \in Sock : x # s => sk'[x] = sk[x]
              /\ \A x \in Sock : sk'[x].fd = sk[x].fd
          BY <2>0, <5>1, Destroyed
        <5> QED BY <5>1, <5>2
      <4> QED BY <3>1, <4>1, <4>2
    <3> DEFINE f == top.fd
               e == Freed(f)
    <3>4. /\ e \in Entry /\ ~e.obj /\ e.bound = NONE /\ e.open = tbl[f].open /\ e.server = tbl[f].server
          /\ e.state = tbl[f].state /\ e.pcb = tbl[f].pcb
      BY <2>0, <3>1, EntryTypes DEF Freed
    <3>5. tbl[f].server = NoFd /\ tbl[f].pcb = NONE /\ tbl[f].state # "listening"
      BY <3>1, <3>2, TableFacts DEF Listens
    <3>6. tbl' = [tbl EXCEPT ![f] = e]
      BY <1>2, <2>1
    <3> HIDE DEF e
    <3>7. tbl'[f] = e /\ tbl' \in [Fd -> Entry] /\ \A g \in Fd : g # f => tbl'[g] = tbl[g]
      BY <2>0, <3>1, <3>4, <3>6
    <3> QED BY <2>1, <3>2, <3>3, <3>4, <3>5, <3>7
  <2>2. CASE top.on = "error"
    <3> DEFINE s == top.sock
               m == [sk[s] EXCEPT !.wbuf = <<>>]
    <3>1. s \in Sock
      BY <1>1, <2>2 DEF Frame
    <3>2. m \in SocketObject /\ m.fd = sk[s].fd /\ m.destroyed = sk[s].destroyed
      BY <2>0, <3>1, SocketFields
    <3>3. sk' = [sk EXCEPT ![s] = m] /\ tbl' = tbl
      BY <1>2, <2>2
    <3> HIDE DEF s, m
    <3>4. sk' \in [Sock -> SocketObject] /\ \A x \in Sock : x # s => sk'[x] = sk[x]
      BY <2>0, <3>1, <3>2, <3>3
    <3>5. sk'[s] = m
      BY <2>0, <3>1, <3>3
    <3>6. \A x \in Sock : sk'[x].fd = sk[x].fd /\ (sk'[x].destroyed <=> sk[x].destroyed)
      BY <3>2, <3>4, <3>5
    <3> QED BY <2>0, <2>2, <3>3, <3>4, <3>6
  <2> QED BY <1>2, <2>1, <2>2
<1>4. TypeOK'
  BY <1>1, <1>2, <1>3 DEF TableInv, TypeOK
<1>5. TableAgrees'
  <2>1. \A g, h \in Fd : tbl'[g].pcb = tbl'[h].pcb /\ tbl'[g].pcb # NONE => g = h
    BY <1>3 DEF TableInv, TableAgrees
  <2>2. ASSUME NEW g \in Fd
        PROVE  /\ tbl'[g].pcb # NONE => tbl'[g].open
               /\ tbl'[g].open => tbl'[g].obj
               /\ tbl'[g].obj /\ ~tbl'[g].open =>
                    \E i \in 1 .. Len(frames') : frames'[i].on = "close" /\ frames'[i].fd = g
    <3>1. CASE tbl'[g] = tbl[g] /\ (top.on = "close" => g # top.fd)
      <4>1. /\ tbl[g].pcb # NONE => tbl[g].open
            /\ tbl[g].open => tbl[g].obj
            /\ tbl[g].obj /\ ~tbl[g].open =>
                 \E i \in 1 .. n : frames[i].on = "close" /\ frames[i].fd = g
        BY <1>1 DEF TableInv, TableAgrees
      <4>2. ASSUME NEW i \in 1 .. n, frames[i].on = "close", frames[i].fd = g
            PROVE  \E j \in 1 .. Len(frames') : frames'[j].on = "close" /\ frames'[j].fd = g
        <5>1. i # n
          BY <3>1, <4>2
        <5> QED BY <1>1, <4>2, <5>1
      <4> HIDE DEF top
      <4> QED BY <3>1, <4>1, <4>2
    <3>2. CASE ~tbl'[g].open /\ tbl'[g].pcb = NONE /\ ~tbl'[g].obj
      BY <3>2
    <3> QED BY <1>3, <3>1, <3>2
  <2> QED BY <1>1, <2>1, <2>2 DEF TableAgrees
<1> HIDE DEF top
<1>6. SocketsMatch'
  <2>1. ASSUME NEW y \in Client, sk'[y].fd # NoFd, ~sk'[y].destroyed
        PROVE  tbl'[sk'[y].fd].open /\ tbl'[sk'[y].fd].pcb = own[y] /\ tbl'[sk'[y].fd].bound = y
    <3>1. y \in Sock /\ sk'[y].fd = sk[y].fd /\ ~sk[y].destroyed /\ sk[y].fd \in Fd
      BY <1>3, <2>1, TableFacts, Names
    <3>2. tbl[sk[y].fd].open /\ tbl[sk[y].fd].pcb = own[y] /\ tbl[sk[y].fd].bound = y
      BY <2>1, <3>1 DEF TableInv, SocketsMatch
    <3> QED BY <1>3, <3>1, <3>2
  <2>2. ASSUME NEW g \in Fd, tbl'[g].pcb # NONE
        PROVE  \E y \in Sock : /\ own[y] = tbl'[g].pcb /\ sk'[y].fd = g
                               /\ sk'[y].destroyed => /\ tbl'[g].server # NoFd
                                                      /\ tbl'[tbl'[g].server].state # "listening"
    <3>1. tbl'[g] = tbl[g]
      BY <1>3, <2>2
    <3>2. PICK y \in Sock : /\ own[y] = tbl[g].pcb /\ sk[y].fd = g
                            /\ sk[y].destroyed => /\ tbl[g].server = srv /\ srv \in Fd
                                                  /\ tbl[srv].state # "listening"
      BY <2>2, <3>1, Holder
    <3>3. srv \in Fd /\ tbl[srv].state # "listening" => tbl'[srv].state # "listening" /\ srv # NoFd
      BY <1>3, Names
    <3>4. sk'[y].fd = sk[y].fd /\ (sk'[y].destroyed <=> sk[y].destroyed)
      BY <1>3, <3>2
    <3>5. /\ own[y] = tbl'[g].pcb /\ sk'[y].fd = g
          /\ sk'[y].destroyed => /\ tbl'[g].server # NoFd
                                 /\ tbl'[tbl'[g].server].state # "listening"
      BY <3>1, <3>2, <3>3, <3>4
    <3> QED BY <3>5
  <2> QED BY <1>2, <2>1, <2>2 DEF SocketsMatch, Listens
<1>7. OwnsMatch'
  BY <1>2, <1>3 DEF TableInv, OwnsMatch
<1>8. ServerHolds'
  <2>1. \A g \in Fd : tbl'[g].state = "listening" => tbl'[g] = tbl[g]
    BY <1>3
  <2> QED BY <1>2, <2>1 DEF TableInv, ServerHolds, Listens
<1>9. EntriesKnown'
  <2> SUFFICES ASSUME NEW g \in Fd
               PROVE  /\ tbl'[g].pcb # NONE => net[tbl'[g].pcb] # "new"
                      /\ tbl'[g].server # NoFd => /\ tbl'[g].server = srv /\ tbl'[g].pcb # NONE
                                                  /\ tbl'[g].bound = NONE
                      /\ tbl'[g].bound # NONE => sk'[tbl'[g].bound].fd # NoFd
                      /\ tbl'[g].bound \in Client => sk'[tbl'[g].bound].fd = g
                      /\ tbl'[g].open /\ tbl'[g].bound \in Accepted => g = srv
                      /\ ~tbl'[g].open /\ tbl'[g].bound # NONE => sk'[tbl'[g].bound].destroyed
    BY <1>2 DEF EntriesKnown
  <2>1. CASE tbl'[g] = tbl[g]
    <3>1. tbl[g].bound # NONE => /\ sk'[tbl[g].bound].fd = sk[tbl[g].bound].fd
                                 /\ sk'[tbl[g].bound].destroyed <=> sk[tbl[g].bound].destroyed
      BY <1>3, TableFacts
    <3>2. tbl[g].bound \in Client => tbl[g].bound # NONE
      BY Names
    <3>3. /\ tbl[g].pcb # NONE => net[tbl[g].pcb] # "new"
          /\ tbl[g].server # NoFd => /\ tbl[g].server = srv /\ tbl[g].pcb # NONE
                                     /\ tbl[g].bound = NONE
          /\ tbl[g].bound # NONE => sk[tbl[g].bound].fd # NoFd
          /\ tbl[g].bound \in Client => sk[tbl[g].bound].fd = g
          /\ tbl[g].open /\ tbl[g].bound \in Accepted => g = srv
          /\ ~tbl[g].open /\ tbl[g].bound # NONE => sk[tbl[g].bound].destroyed
      BY DEF TableInv, EntriesKnown
    <3> QED BY <2>1, <3>1, <3>2, <3>3
  <2>2. CASE /\ ~tbl'[g].open /\ tbl'[g].server = NoFd /\ tbl'[g].pcb = NONE
             /\ tbl'[g].bound = NONE
    BY <2>2, Names
  <2> QED BY <1>3, <2>1, <2>2
<1>10. AcceptedHold'
  <2> SUFFICES ASSUME NEW y \in Accepted, sk'[y].fd # NoFd, tbl'[sk'[y].fd].pcb = own[y]
               PROVE  tbl'[sk'[y].fd].server # NoFd
    BY <1>2 DEF AcceptedHold
  <2>1. y \in Sock /\ sk'[y].fd = sk[y].fd /\ sk[y].fd \in Fd /\ own[y] # NONE
    BY <1>3, TableFacts, Names DEF TableInv, OwnsMatch
  <2>2. tbl'[sk[y].fd] = tbl[sk[y].fd]
    BY <1>3, <2>1
  <2> QED BY <2>1, <2>2 DEF TableInv, AcceptedHold
<1>11. FramesKnown'
  <2> SUFFICES ASSUME NEW i \in 1 .. Len(frames'), frames'[i].on = "close"
               PROVE  /\ ~tbl'[frames'[i].fd].open
                      /\ frames'[i].sock # NONE => sk'[frames'[i].sock].destroyed
    BY DEF FramesKnown
  <2>1. i \in 1 .. n /\ frames'[i] = frames[i] /\ frames[i] \in Frame
    BY <1>1, TableFacts DEF n
  <2>2. frames[i].sock \in Sock \cup {NONE} /\ frames[i].fd \in Fd
    BY <2>1 DEF Frame
  <2>3. ~tbl[frames[i].fd].open /\ (frames[i].sock # NONE => sk[frames[i].sock].destroyed)
    BY <2>1 DEF TableInv, FramesKnown, n
  <2>4. ~tbl'[frames[i].fd].open
    BY <1>3, <2>2, <2>3
  <2> QED BY <1>3, <2>1, <2>2, <2>3, <2>4
<1> QED BY <1>4, <1>5, <1>6, <1>7, <1>8, <1>9, <1>10, <1>11 DEF TableInv

(* A connection is made or refused. *)
LEMMA NetworkKeeps ==
  ASSUME TableInv, (\E f \in Fd : Connected(f)) \/ \E c \in Conn : Refuse(c)
  PROVE  TableInv' /\ BytesSame /\ frames' = frames
<1>1. PICK c \in Conn, n \in {"open", "failed"} : net' = [net EXCEPT ![c] = n]
  <2>1. ASSUME NEW f \in Fd, Connected(f) PROVE tbl[f].pcb \in Conn /\ net' = [net EXCEPT ![tbl[f].pcb] = "open"]
    BY <2>1, TableFacts DEF Connected
  <2>2. ASSUME NEW d \in Conn, Refuse(d) PROVE net' = [net EXCEPT ![d] = "failed"]
    BY <2>2 DEF Refuse
  <2> QED BY <2>1, <2>2
<1>2. UNCHANGED <<tbl, sk, srv, timers, frames, own, given, sent, lost, failed, fin>>
  BY DEF Connected, Refuse
<1>3. TypeOK' /\ \A d \in Conn : net[d] # "new" => net'[d] # "new"
  BY <1>1, <1>2 DEF TableInv, TypeOK
<1>4. BytesSame
  BY <1>2 DEF BytesSame
<1> QED BY <1>2, <1>3, <1>4, TableSame

(* The calls that write, as one form: st is the Socket before flush(). *)
LEMMA FlushCalls ==
  ASSUME TypeOK,
         TimerFires \/ \E s \in Sock : End(s) \/ EndWith(s)
  PROVE  \E s \in Sock, st \in SocketObject, then \in {"nothing", "finish"}, ts \in Seq(Timer) :
           /\ Flush(s, st, then, ts) /\ UNCHANGED <<tbl, srv, net, own>>
           /\ st.fd = sk[s].fd /\ st.destroyed = sk[s].destroyed /\ st.finished = sk[s].finished
           /\ \/ /\ TimerFires /\ given' = given /\ st = sk[s]
              \/ /\ End(s) /\ given' = given
                 /\ st.wbuf = sk[s].wbuf /\ st.ended = TRUE
              \/ /\ EndWith(s) /\ given' = Append(given, s) /\ Len(given) < MaxBytes
                 /\ st.wbuf = Append(sk[s].wbuf, Len(given) + 1) /\ st.ended = TRUE
                 /\ MayWrite(s) /\ ~sk[s].ended
<1>0. sk \in [Sock -> SocketObject] /\ timers \in Seq(Timer)
  BY DEF TypeOK
<1> DEFINE Goal(s, st, then, ts) ==
             /\ Flush(s, st, then, ts) /\ UNCHANGED <<tbl, srv, net, own>>
             /\ st.fd = sk[s].fd /\ st.destroyed = sk[s].destroyed /\ st.finished = sk[s].finished
             /\ \/ /\ TimerFires /\ given' = given /\ st = sk[s]
                \/ /\ End(s) /\ given' = given
                   /\ st.wbuf = sk[s].wbuf /\ st.ended = TRUE
                \/ /\ EndWith(s) /\ given' = Append(given, s) /\ Len(given) < MaxBytes
                   /\ st.wbuf = Append(sk[s].wbuf, Len(given) + 1) /\ st.ended = TRUE
                   /\ MayWrite(s) /\ ~sk[s].ended
<1>1. ASSUME TimerFires
      PROVE  \E s \in Sock, st \in SocketObject, then \in {"nothing", "finish"}, ts \in Seq(Timer) :
               Goal(s, st, then, ts)
  <2> DEFINE t == Head(timers)
  <2>1. t \in Timer /\ Tail(timers) \in Seq(Timer)
    BY <1>0, <1>1, HeadTailProperties DEF TimerFires
  <2>2. t.sock \in Sock /\ t.then \in {"nothing", "finish"}
    BY <2>1 DEF Timer
  <2>3. Flush(t.sock, sk[t.sock], t.then, Tail(timers)) /\ UNCHANGED <<tbl, srv, net, own, given>>
    BY <1>1 DEF TimerFires
  <2> HIDE DEF t
  <2>4. Goal(t.sock, sk[t.sock], t.then, Tail(timers))
    BY <1>1, <2>3
  <2>5. sk[t.sock] \in SocketObject
    BY <1>0, <2>2
  <2> HIDE DEF Goal
  <2> QED BY <2>1, <2>2, <2>4, <2>5
<1>2. ASSUME NEW s \in Sock, End(s)
      PROVE  \E st \in SocketObject, then \in {"nothing", "finish"}, ts \in Seq(Timer) :
               Goal(s, st, then, ts)
  <2> DEFINE st == [sk[s] EXCEPT !.ended = TRUE]
  <2>1. /\ st \in SocketObject /\ st.fd = sk[s].fd /\ st.wbuf = sk[s].wbuf /\ st.ended = TRUE
        /\ st.finished = sk[s].finished /\ st.destroyed = sk[s].destroyed
    BY <1>0, SocketFields
  <2>2. Flush(s, st, "finish", timers) /\ UNCHANGED <<tbl, srv, net, own, given>>
    BY <1>2 DEF End
  <2> HIDE DEF st
  <2>3. Goal(s, st, "finish", timers)
    BY <1>2, <2>1, <2>2
  <2> HIDE DEF Goal
  <2> QED BY <1>0, <2>1, <2>3
<1>3. ASSUME NEW s \in Sock, EndWith(s)
      PROVE  \E st \in SocketObject, then \in {"nothing", "finish"}, ts \in Seq(Timer) :
               Goal(s, st, then, ts)
  <2> DEFINE a == Added(s)
             st == [a EXCEPT !.ended = TRUE]
  <2>0. Len(given) < MaxBytes /\ given' = Append(given, s) /\ MayWrite(s) /\ ~sk[s].ended
    BY <1>3 DEF EndWith, MayEnd
  <2>1. /\ a \in SocketObject /\ a.wbuf = Append(sk[s].wbuf, Len(given) + 1)
        /\ a.fd = sk[s].fd /\ a.finished = sk[s].finished /\ a.destroyed = sk[s].destroyed
    BY <2>0, AddedFields
  <2>2. Flush(s, st, "finish", timers) /\ UNCHANGED <<tbl, srv, net, own>>
    BY <1>3 DEF EndWith
  <2> HIDE DEF a
  <2>3. /\ st \in SocketObject /\ st.fd = a.fd /\ st.wbuf = a.wbuf /\ st.ended = TRUE
        /\ st.finished = a.finished /\ st.destroyed = a.destroyed
    BY <2>1, SocketFields
  <2> HIDE DEF st
  <2>4. Goal(s, st, "finish", timers)
    BY <1>3, <2>0, <2>1, <2>2, <2>3
  <2> HIDE DEF Goal
  <2> QED BY <1>0, <2>3, <2>4
<1> HIDE DEF Goal
<1>4. \E s \in Sock, st \in SocketObject, then \in {"nothing", "finish"}, ts \in Seq(Timer) :
        Goal(s, st, then, ts)
  BY <1>1, <1>2, <1>3
<1> QED BY <1>4 DEF Goal

LEMMA GivenTypes ==
  ASSUME TypeOK, NEW s \in Sock,
         given' = given \/ (given' = Append(given, s) /\ Len(given) < MaxBytes)
  PROVE  /\ given' \in Seq(Sock) /\ Len(given') <= MaxBytes
         /\ Len(given) \in Nat /\ Len(given') \in Nat
         /\ \A i \in 1 .. Len(given) : i \in 1 .. Len(given') /\ given'[i] = given[i]
         /\ given' # given => Len(given') = Len(given) + 1 /\ given'[Len(given) + 1] = s
<1>1. given \in Seq(Sock) /\ Len(given) <= MaxBytes /\ Len(given) \in Nat /\ MaxBytes \in Nat
  BY LenProperties, Names DEF TypeOK
<1>2. /\ Append(given, s) \in Seq(Sock) /\ Len(Append(given, s)) = Len(given) + 1
      /\ Append(given, s)[Len(given) + 1] = s
      /\ \A i \in 1 .. Len(given) : Append(given, s)[i] = given[i]
  BY <1>1, AppendProperties
<1>3. ASSUME given' = Append(given, s), Len(given) < MaxBytes
      PROVE  /\ given' \in Seq(Sock) /\ Len(given') <= MaxBytes /\ Len(given') = Len(given) + 1
             /\ given'[Len(given) + 1] = s
             /\ \A i \in 1 .. Len(given) : given'[i] = given[i]
  BY <1>1, <1>2, <1>3
<1>4. ASSUME Len(given') = Len(given) + 1
      PROVE  Len(given') \in Nat /\ \A i \in 1 .. Len(given) : i \in 1 .. Len(given')
  BY <1>1, <1>4
<1> QED BY <1>1, <1>3, <1>4

LEMMA FlushCallsKeep ==
  ASSUME TableInv, TimerFires \/ \E s \in Sock : End(s) \/ EndWith(s)
  PROVE  TableInv'
<1>0. TypeOK
  BY DEF TableInv
<1>1. PICK s \in Sock, st \in SocketObject, then \in {"nothing", "finish"}, ts \in Seq(Timer) :
        /\ Flush(s, st, then, ts) /\ UNCHANGED <<tbl, srv, net, own>>
        /\ st.fd = sk[s].fd /\ st.destroyed = sk[s].destroyed
        /\ given' = given \/ (given' = Append(given, s) /\ Len(given) < MaxBytes)
  BY <1>0, FlushCalls
<1>2. given' \in Seq(Sock) /\ Len(given') <= MaxBytes
  BY <1>0, <1>1, GivenTypes
<1>3. /\ TypeOK' /\ \A x \in Sock : x # s => sk'[x] = sk[x]
      /\ sk'[s].fd = st.fd /\ sk'[s].destroyed = st.destroyed
      /\ frames' = frames \/ frames' = Append(frames, [on |-> "error", sock |-> s])
  BY <1>0, <1>1, <1>2, FlushTypes
<1>4. \A x \in Sock : sk'[x].fd = sk[x].fd /\ (sk'[x].destroyed <=> sk[x].destroyed)
  BY <1>1, <1>3
<1> QED BY <1>1, <1>3, <1>4, TableSame

LEMMA WriteEffect ==
  ASSUME TypeOK, NEW s \in Sock, Write(s)
  PROVE  /\ TypeOK'
         /\ \A x \in Sock : x # s => sk'[x] = sk[x]
         /\ sk'[s].fd = sk[s].fd /\ sk'[s].destroyed = sk[s].destroyed
         /\ sk'[s].ended = sk[s].ended /\ sk'[s].finished = sk[s].finished
         /\ sk'[s].wbuf = Append(sk[s].wbuf, Len(given) + 1)
         /\ given' = Append(given, s) /\ Len(given) < MaxBytes
         /\ ~sk[s].ended /\ MayWrite(s)
         /\ UNCHANGED <<tbl, srv, frames, net, own, sent, lost, failed, fin>>
<1> DEFINE a == Added(s)
           t == [sock |-> s, then |-> "nothing"]
<1>1. /\ Len(given) < MaxBytes /\ given' = Append(given, s) /\ sk' = [sk EXCEPT ![s] = a]
      /\ timers' = Append(timers, t) /\ ~sk[s].ended /\ MayWrite(s)
      /\ UNCHANGED <<tbl, srv, frames, net, own, sent, lost, failed, fin>>
  BY DEF Write
<1>2. /\ a \in SocketObject /\ a.wbuf = Append(sk[s].wbuf, Len(given) + 1)
      /\ a.fd = sk[s].fd /\ a.finished = sk[s].finished /\ a.destroyed = sk[s].destroyed
      /\ a.ended = sk[s].ended
  BY <1>1, AddedFields
<1>3. t \in Timer
  BY DEF Timer
<1> HIDE DEF a, t
<1>4. sk' \in [Sock -> SocketObject] /\ sk'[s] = a /\ \A x \in Sock : x # s => sk'[x] = sk[x]
  BY <1>1, <1>2 DEF TypeOK
<1>5. timers' \in Seq(Timer)
  BY <1>1, <1>3, AppendProperties DEF TypeOK
<1>6. given' \in Seq(Sock) /\ Len(given') <= MaxBytes
  BY <1>1, GivenTypes
<1>7. TypeOK'
  BY <1>1, <1>4, <1>5, <1>6 DEF TypeOK
<1> QED BY <1>1, <1>2, <1>4, <1>7

LEMMA WriteKeeps ==
  ASSUME TableInv, NEW s \in Sock, Write(s)
  PROVE  TableInv'
<1>1. /\ TypeOK' /\ \A x \in Sock : x # s => sk'[x] = sk[x]
      /\ sk'[s].fd = sk[s].fd /\ sk'[s].destroyed = sk[s].destroyed
      /\ UNCHANGED <<tbl, srv, frames, net, own>>
  BY WriteEffect DEF TableInv
<1>2. \A x \in Sock : sk'[x].fd = sk[x].fd /\ (sk'[x].destroyed <=> sk[x].destroyed)
  BY <1>1
<1>3. \A c \in Conn : net[c] # "new" => net'[c] # "new"
  BY <1>1
<1> QED BY <1>1, <1>2, <1>3, TableSame

LEMMA TableInit == Init => TableInv
<1> SUFFICES ASSUME Init PROVE TableInv
  OBVIOUS
<1>1. /\ FreeEntry.pcb = NONE /\ ~FreeEntry.open /\ ~FreeEntry.obj /\ FreeEntry.server = NoFd
      /\ FreeEntry.bound = NONE /\ FreeEntry.state = "closed"
  BY DEF FreeEntry
<1>2. /\ NewSocket.fd = NoFd /\ ~NewSocket.destroyed
  BY DEF NewSocket
<1>3. NewSocket \in SocketObject
  BY DEF NewSocket, SocketObject
<1>4. TypeOK
  <2>1. tbl \in [Fd -> Entry] /\ sk \in [Sock -> SocketObject]
    BY <1>3, EntryTypes DEF Init
  <2>2. given \in Seq(Sock) /\ Len(given) <= MaxBytes /\ timers \in Seq(Timer) /\ frames \in Seq(Frame)
    BY Names, EmptySeq DEF Init
  <2>3. sent \in [Conn -> Seq(Byte)] /\ lost \subseteq Byte /\ failed \subseteq Sock
    BY EmptySeq DEF Init
  <2> QED BY <2>1, <2>2, <2>3 DEF TypeOK, Init
<1>5. /\ \A f \in Fd : tbl[f] = FreeEntry
      /\ \A s \in Sock : sk[s] = NewSocket /\ own[s] = NONE
      /\ srv = NoFd /\ Len(frames) = 0
  BY DEF Init
<1>6. TableAgrees
  BY <1>1, <1>5 DEF TableAgrees
<1>7. SocketsMatch
  BY <1>1, <1>2, <1>5, Names DEF SocketsMatch
<1>8. OwnsMatch
  BY <1>2, <1>5 DEF OwnsMatch
<1>9. ServerHolds
  BY <1>1, <1>5 DEF ServerHolds, Listens
<1>10. EntriesKnown
  BY <1>1, <1>5, Names DEF EntriesKnown
<1>11. AcceptedHold
  BY <1>2, <1>5, Names DEF AcceptedHold
<1>12. FramesKnown
  BY <1>5 DEF FramesKnown
<1> QED BY <1>4, <1>6, <1>7, <1>8, <1>9, <1>10, <1>11, <1>12 DEF TableInv

LEMMA TableStep == TableInv /\ [Next]_vars => TableInv'
<1> SUFFICES ASSUME TableInv, [Next]_vars PROVE TableInv'
  OBVIOUS
<1>1. ASSUME NEW s \in Sock, Write(s) PROVE TableInv'
  BY <1>1, WriteKeeps
<1>2. ASSUME TimerFires \/ \E s \in Sock : End(s) \/ EndWith(s) PROVE TableInv'
  BY <1>2, FlushCallsKeep
<1>3. ASSUME CloseServer \/ \E s \in Sock : Destroy(s) \/ PeerCloses(s) PROVE TableInv'
  BY <1>3, ClosingKeeps
<1>4. ASSUME NEW s \in Client, NEW c \in Conn, NEW f \in Fd, Connect(s, c, f) PROVE TableInv'
  BY <1>4, ConnectKeeps
<1>5. ASSUME NEW f \in Fd, Listen(f) PROVE TableInv'
  BY <1>5, ListenKeeps
<1>6. ASSUME ListenerReturns PROVE TableInv'
  BY <1>6, ListenerKeeps
<1>7. ASSUME (\E f \in Fd : Connected(f)) \/ \E c \in Conn : Refuse(c) PROVE TableInv'
  BY <1>7, NetworkKeeps
<1>8. ASSUME NEW s \in Accepted, NEW c \in Conn, NEW f \in Fd, Accept(s, c, f) PROVE TableInv'
  BY <1>8, AcceptKeeps
<1>9. ASSUME UNCHANGED vars PROVE TableInv'
  <2>1. UNCHANGED <<tbl, sk, srv, timers, frames, net, own, given, sent, lost, failed, fin>>
    BY <1>9 DEF vars
  <2>2. TypeOK'
    BY <2>1 DEF TableInv, TypeOK
  <2> QED BY <2>1, <2>2, TableSame
<1> QED BY <1>1, <1>2, <1>3, <1>4, <1>5, <1>6, <1>7, <1>8, <1>9 DEF Next

LEMMA TableAlways == Spec => []TableInv
BY TableInit, TableStep, PTL DEF Spec

(* Every variable keeps its type: no step leaves a record half made, an index
   outside the table, or more bytes than were given. *)
THEOREM SocketsTypeCorrect == Spec => []TypeOK
<1>1. TableInv => TypeOK
  BY DEF TableInv
<1> QED BY <1>1, TableAlways, PTL

(* module_pico_cyw43.c, over any number of entries: no two entries hold one
   connection, an entry with a connection is in use and has an object, and an
   entry in use always has one; the object outlives the entry only while a
   'close' listener runs. *)
THEOREM TableAgreesAlways == Spec => []TableAgrees
<1>1. TableInv => TableAgrees
  BY DEF TableInv
<1> QED BY <1>1, TableAlways, PTL

(* net.js against the table: a Socket of the script that is connected and not
   destroyed holds an open entry with its connection and its callbacks, whatever
   closed meanwhile, a late end of an earlier connection of the entry included;
   and every connection in the table has the Socket that was made for it, which
   is destroyed only if the server that accepted it was closed. *)
THEOREM SocketsMatchAlways == Spec => []SocketsMatch
<1>1. TableInv => SocketsMatch
  BY DEF TableInv
<1> QED BY <1>1, TableAlways, PTL

-----------------------------------------------------------------------------
(* The bytes, as sequences. *)

(* A byte is written to s. *)
LEMMA BytesAdded ==
  ASSUME NEW g, NEW sn, NEW lo, NEW w, Bytes(g, sn, lo, w), NEW s \in Sock, Len(g) + 1 \in Byte
  PROVE  Bytes(Append(g, s), sn, lo, [w EXCEPT ![s] = Append(w[s], Len(g) + 1)])
<1> DEFINE n == Len(g)
           m == Len(w[s])
           h == Append(g, s)
           a == Append(w[s], n + 1)
           v == [w EXCEPT ![s] = a]
<1>1. /\ g \in Seq(Sock) /\ sn \in [Conn -> Seq(Byte)] /\ lo \subseteq Byte /\ w \in [Sock -> Seq(Byte)]
      /\ w[s] \in Seq(Byte)
  BY DEF Bytes, BytesTyped
<1>2. n \in Nat /\ m \in Nat
  BY <1>1, LenProperties
<1>3. h \in Seq(Sock) /\ Len(h) = n + 1 /\ h[n + 1] = s /\ \A i \in 1 .. n : h[i] = g[i]
  BY <1>1, AppendProperties
<1>4. a \in Seq(Byte) /\ Len(a) = m + 1 /\ a[m + 1] = n + 1 /\ \A i \in 1 .. m : a[i] = w[s][i]
  BY <1>1, AppendProperties
<1> HIDE DEF a, h
<1>5. v \in [Sock -> Seq(Byte)] /\ v[s] = a /\ \A x \in Sock : x # s => v[x] = w[x]
  BY <1>1, <1>4
<1>6. /\ \A c \in Conn : \A i \in 1 .. Len(sn[c]) : sn[c][i] \in 1 .. n
      /\ \A b \in lo : b \in 1 .. n
      /\ \A x \in Sock : \A i \in 1 .. Len(w[x]) : w[x][i] \in 1 .. n
  BY DEF Bytes, Placed
<1> HIDE DEF v, m
<1>7. \A x \in Sock : \A i \in 1 .. Len(v[x]) :
        \/ i \in 1 .. Len(w[x]) /\ v[x][i] = w[x][i]
        \/ x = s /\ i = m + 1 /\ v[x][i] = n + 1
  <2> SUFFICES ASSUME NEW x \in Sock, NEW i \in 1 .. Len(v[x])
               PROVE  \/ i \in 1 .. Len(w[x]) /\ v[x][i] = w[x][i]
                      \/ x = s /\ i = m + 1 /\ v[x][i] = n + 1
    OBVIOUS
  <2>1. CASE x # s
    BY <1>5, <2>1
  <2>2. CASE x = s
    <3>1. i \in 1 .. m \/ i = m + 1
      BY <1>2, <1>4, <1>5, <2>2
    <3> QED BY <1>4, <1>5, <2>2, <3>1 DEF m
  <2> QED BY <2>1, <2>2
<1>8. ~IsSent(sn, n + 1) /\ n + 1 \notin lo
  <2>1. n + 1 \notin 1 .. n
    BY <1>2
  <2> QED BY <1>6, <2>1 DEF IsSent
<1>9. /\ \A i \in 1 .. n : i \in 1 .. n + 1 /\ i # n + 1 /\ i < n + 1
      /\ n + 1 \in 1 .. n + 1 /\ \A i \in 1 .. n + 1 : i \in 1 .. n \/ i = n + 1
  BY <1>2
<1>10. Placed(h, sn, lo, v)
  <2>1. ASSUME NEW b \in 1 .. Len(h)
        PROVE  IsSent(sn, b) \/ b \in lo \/ \E i \in 1 .. Len(v[h[b]]) : v[h[b]][i] = b
    <3>1. CASE b \in 1 .. n
      <4>1. h[b] = g[b] /\ g[b] \in Sock
        BY <1>1, <1>3, <3>1, ElementOfSeq
      <4>2. IsSent(sn, b) \/ b \in lo \/ \E i \in 1 .. Len(w[g[b]]) : w[g[b]][i] = b
        BY <3>1 DEF Bytes, Placed
      <4>3. ASSUME NEW i \in 1 .. Len(w[g[b]]), w[g[b]][i] = b
            PROVE  i \in 1 .. Len(v[g[b]]) /\ v[g[b]][i] = b
        <5>1. CASE g[b] = s
          <6>1. i \in 1 .. m /\ i \in 1 .. m + 1
            BY <1>2, <4>3, <5>1 DEF m
          <6> QED BY <1>4, <1>5, <4>3, <5>1, <6>1
        <5>2. CASE g[b] # s
          BY <1>5, <4>1, <4>3, <5>2
        <5> QED BY <5>1, <5>2
      <4> QED BY <4>1, <4>2, <4>3
    <3>2. CASE b = n + 1
      <4>1. m + 1 \in 1 .. Len(v[s])
        BY <1>2, <1>4, <1>5
      <4> QED BY <1>3, <1>4, <1>5, <3>2, <4>1
    <3> QED BY <1>3, <1>9, <3>1, <3>2
  <2>2. ASSUME NEW x \in Sock, NEW i \in 1 .. Len(v[x])
        PROVE  /\ v[x][i] \in 1 .. Len(h) /\ h[v[x][i]] = x
               /\ v[x][i] \notin lo /\ ~IsSent(sn, v[x][i])
    <3>1. CASE i \in 1 .. Len(w[x]) /\ v[x][i] = w[x][i]
      <4>1. /\ w[x][i] \in 1 .. n /\ g[w[x][i]] = x
            /\ w[x][i] \notin lo /\ ~IsSent(sn, w[x][i])
        BY <3>1 DEF Bytes, Placed
      <4> QED BY <1>3, <1>9, <3>1, <4>1
    <3>2. CASE x = s /\ v[x][i] = n + 1
      BY <1>3, <1>8, <1>9, <3>2
    <3> QED BY <1>7, <3>1, <3>2
  <2>3. /\ \A c \in Conn : \A i \in 1 .. Len(sn[c]) : sn[c][i] \in 1 .. Len(h)
        /\ \A b \in lo : b \in 1 .. Len(h)
    BY <1>3, <1>6, <1>9
  <2> QED BY <2>1, <2>2, <2>3 DEF Placed
<1>11. InOrder(h, sn, v)
  <2>1. \A c, d \in Conn : \A i \in 1 .. Len(sn[c]), j \in 1 .. Len(sn[d]) :
          sn[c][i] = sn[d][j] => c = d /\ i = j
    BY DEF Bytes, InOrder
  <2>2. \A c \in Conn : \A i, j \in 1 .. Len(sn[c]) :
          i < j /\ h[sn[c][i]] = h[sn[c][j]] => sn[c][i] < sn[c][j]
    <3>1. \A c \in Conn : \A i \in 1 .. Len(sn[c]) : h[sn[c][i]] = g[sn[c][i]]
      BY <1>3, <1>6
    <3> QED BY <3>1 DEF Bytes, InOrder
  <2>3. ASSUME NEW x \in Sock, NEW i \in 1 .. Len(v[x]), NEW j \in 1 .. Len(v[x]), i < j
        PROVE  v[x][i] < v[x][j]
    <3>1. CASE /\ i \in 1 .. Len(w[x]) /\ v[x][i] = w[x][i]
               /\ j \in 1 .. Len(w[x]) /\ v[x][j] = w[x][j]
      BY <2>3, <3>1 DEF Bytes, InOrder
    <3>2. CASE i \in 1 .. Len(w[x]) /\ v[x][i] = w[x][i] /\ v[x][j] = n + 1
      BY <1>6, <1>9, <3>2
    <3>3. ASSUME x = s /\ i = m + 1 PROVE FALSE
      <4>1. j \in 1 .. m + 1
        BY <1>4, <1>5, <3>3
      <4> QED BY <1>2, <2>3, <3>3, <4>1
    <3> QED BY <1>7, <3>1, <3>2, <3>3
  <2>4. ASSUME NEW c \in Conn, NEW i \in 1 .. Len(sn[c]), NEW x \in Sock, NEW j \in 1 .. Len(v[x]),
               h[sn[c][i]] = x
        PROVE  sn[c][i] < v[x][j]
    <3>1. sn[c][i] \in 1 .. n /\ g[sn[c][i]] = x
      BY <1>3, <1>6, <2>4
    <3>2. CASE j \in 1 .. Len(w[x]) /\ v[x][j] = w[x][j]
      BY <3>1, <3>2 DEF Bytes, InOrder
    <3>3. CASE v[x][j] = n + 1
      BY <1>9, <3>1, <3>3
    <3> QED BY <1>7, <3>2, <3>3
  <2> QED BY <2>1, <2>2, <2>3, <2>4 DEF InOrder
<1> QED BY <1>1, <1>3, <1>5, <1>10, <1>11 DEF Bytes, BytesTyped, v, a, h

(* What s holds goes out on c. *)
LEMMA BytesOut ==
  ASSUME NEW g, NEW sn, NEW lo, NEW w, Bytes(g, sn, lo, w), NEW s \in Sock, NEW c \in Conn
  PROVE  Bytes(g, [sn EXCEPT ![c] = sn[c] \o w[s]], lo, [w EXCEPT ![s] = <<>>])
<1> DEFINE p == Len(sn[c])
           q == Len(w[s])
           a == sn[c] \o w[s]
           sm == [sn EXCEPT ![c] = a]
           v == [w EXCEPT ![s] = <<>>]
<1>1. /\ g \in Seq(Sock) /\ sn \in [Conn -> Seq(Byte)] /\ lo \subseteq Byte /\ w \in [Sock -> Seq(Byte)]
      /\ w[s] \in Seq(Byte) /\ sn[c] \in Seq(Byte)
  BY DEF Bytes, BytesTyped
<1>2. p \in Nat /\ q \in Nat
  BY <1>1, LenProperties
<1>3. a \in Seq(Byte) /\ Len(a) = p + q /\ \A i \in 1 .. p + q : a[i] = IF i <= p THEN sn[c][i] ELSE w[s][i - p]
  BY <1>1, ConcatProperties
<1> HIDE DEF a
<1>4. sm \in [Conn -> Seq(Byte)] /\ sm[c] = a /\ \A d \in Conn : d # c => sm[d] = sn[d]
  BY <1>1, <1>3
<1>5. /\ v \in [Sock -> Seq(Byte)] /\ v[s] = <<>> /\ \A x \in Sock : x # s => v[x] = w[x]
  BY <1>1, EmptySeq
<1> HIDE DEF sm, v
<1>6. \A x \in Sock : \A i \in 1 .. Len(v[x]) : x # s /\ i \in 1 .. Len(w[x]) /\ v[x][i] = w[x][i]
  <2>1. \A i \in 1 .. Len(v[s]) : FALSE
    BY <1>5
  <2> QED BY <1>5, <2>1
<1>7. /\ \A i \in 1 .. p : i \in 1 .. p + q /\ i <= p
      /\ \A i \in 1 .. q : p + i \in 1 .. p + q /\ ~(p + i <= p) /\ (p + i) - p = i
      /\ \A i \in 1 .. p + q : (i <= p => i \in 1 .. p) /\ (~(i <= p) => i - p \in 1 .. q)
  <2> HIDE DEF p, q
  <2> QED BY <1>2
<1> HIDE DEF p, q
(* A position of sm is one of sn, or one of what is appended. *)
<1>8. ASSUME NEW d \in Conn, NEW i \in 1 .. Len(sm[d])
      PROVE  \/ i \in 1 .. Len(sn[d]) /\ sm[d][i] = sn[d][i]
             \/ d = c /\ ~(i <= p) /\ i \in 1 .. p + q /\ i - p \in 1 .. q /\ sm[d][i] = w[s][i - p]
  <2>1. CASE d # c
    BY <1>4, <2>1
  <2>2. CASE d = c
    <3>1. i \in 1 .. p + q /\ sm[d][i] = a[i]
      BY <1>3, <1>4, <2>2
    <3>2. CASE i <= p
      BY <1>3, <1>7, <2>2, <3>1, <3>2 DEF p
    <3>3. CASE ~(i <= p)
      BY <1>3, <1>7, <2>2, <3>1, <3>3
    <3> QED BY <3>2, <3>3
  <2> QED BY <2>1, <2>2
<1>9. ASSUME NEW d \in Conn, NEW i \in 1 .. Len(sn[d])
      PROVE  i \in 1 .. Len(sm[d]) /\ sm[d][i] = sn[d][i]
  <2>1. CASE d # c
    BY <1>4, <2>1
  <2>2. CASE d = c
    <3>1. i \in 1 .. p
      BY <2>2 DEF p
    <3> QED BY <1>3, <1>4, <1>7, <2>2, <3>1
  <2> QED BY <2>1, <2>2
<1>10. ASSUME NEW i \in 1 .. q
       PROVE  p + i \in 1 .. Len(sm[c]) /\ sm[c][p + i] = w[s][i]
  BY <1>3, <1>4, <1>7
<1>11. /\ \A b : IsSent(sn, b) => IsSent(sm, b)
       /\ \A i \in 1 .. q : IsSent(sm, w[s][i])
       /\ \A b : IsSent(sm, b) => IsSent(sn, b) \/ \E i \in 1 .. q : w[s][i] = b
  BY <1>8, <1>9, <1>10 DEF IsSent
<1>12. /\ \A x \in Sock : \A i \in 1 .. Len(w[x]) :
            /\ w[x][i] \in 1 .. Len(g) /\ g[w[x][i]] = x
            /\ w[x][i] \notin lo /\ ~IsSent(sn, w[x][i])
       /\ \A d \in Conn : \A i \in 1 .. Len(sn[d]) : sn[d][i] \in 1 .. Len(g) /\ IsSent(sn, sn[d][i])
       /\ \A b \in 1 .. Len(g) : IsSent(sn, b) \/ b \in lo \/ \E i \in 1 .. Len(w[g[b]]) : w[g[b]][i] = b
       /\ \A b \in lo : b \in 1 .. Len(g)
  BY DEF Bytes, Placed, IsSent
<1>13. Placed(g, sm, lo, v)
  <2>1. ASSUME NEW b \in 1 .. Len(g)
        PROVE  IsSent(sm, b) \/ b \in lo \/ \E i \in 1 .. Len(v[g[b]]) : v[g[b]][i] = b
    <3>1. g[b] \in Sock
      BY <1>1, ElementOfSeq
    <3>2. CASE g[b] = s
      BY <1>11, <1>12, <3>2 DEF q
    <3>3. CASE g[b] # s
      BY <1>5, <1>11, <1>12, <3>1, <3>3
    <3> QED BY <3>2, <3>3
  <2>2. ASSUME NEW x \in Sock, NEW i \in 1 .. Len(v[x])
        PROVE  /\ v[x][i] \in 1 .. Len(g) /\ g[v[x][i]] = x
               /\ v[x][i] \notin lo /\ ~IsSent(sm, v[x][i])
    <3>1. x # s /\ i \in 1 .. Len(w[x]) /\ v[x][i] = w[x][i]
      BY <1>6
    <3>2. \A j \in 1 .. q : w[s][j] # w[x][i]
      BY <1>12, <3>1 DEF q
    <3> QED BY <1>11, <1>12, <3>1, <3>2
  <2>3. ASSUME NEW d \in Conn, NEW i \in 1 .. Len(sm[d]) PROVE sm[d][i] \in 1 .. Len(g)
    <3>1. CASE i \in 1 .. Len(sn[d]) /\ sm[d][i] = sn[d][i]
      BY <1>12, <3>1
    <3>2. CASE i - p \in 1 .. q /\ sm[d][i] = w[s][i - p]
      BY <1>12, <3>2 DEF q
    <3> QED BY <1>8, <3>1, <3>2
  <2> QED BY <1>12, <2>1, <2>2, <2>3 DEF Placed
<1>14. InOrder(g, sm, v)
  <2>0. /\ \A d, e \in Conn : \A i \in 1 .. Len(sn[d]), j \in 1 .. Len(sn[e]) :
             sn[d][i] = sn[e][j] => d = e /\ i = j
        /\ \A d \in Conn : \A i, j \in 1 .. Len(sn[d]) :
             i < j /\ g[sn[d][i]] = g[sn[d][j]] => sn[d][i] < sn[d][j]
        /\ \A x \in Sock : \A i, j \in 1 .. Len(w[x]) : i < j => w[x][i] < w[x][j]
        /\ \A d \in Conn : \A i \in 1 .. Len(sn[d]) : \A x \in Sock : \A j \in 1 .. Len(w[x]) :
             g[sn[d][i]] = x => sn[d][i] < w[x][j]
    BY DEF Bytes, InOrder
  <2>1. ASSUME NEW d \in Conn, NEW e \in Conn, NEW i \in 1 .. Len(sm[d]), NEW j \in 1 .. Len(sm[e]),
               sm[d][i] = sm[e][j]
        PROVE  d = e /\ i = j
    <3>1. CASE /\ i \in 1 .. Len(sn[d]) /\ sm[d][i] = sn[d][i]
               /\ j \in 1 .. Len(sn[e]) /\ sm[e][j] = sn[e][j]
      <4>1. sn[d][i] = sn[e][j]
        BY <2>1, <3>1
      <4> QED BY <2>0, <3>1, <4>1
    <3>2. ASSUME i \in 1 .. Len(sn[d]), sm[d][i] = sn[d][i], j - p \in 1 .. q, sm[e][j] = w[s][j - p] PROVE FALSE
      <4>1. sn[d][i] = w[s][j - p]
        BY <2>1, <3>2
      <4>2. IsSent(sn, sn[d][i]) /\ ~IsSent(sn, w[s][j - p])
        BY <1>12, <3>2 DEF q
      <4> QED BY <4>1, <4>2
    <3>3. ASSUME j \in 1 .. Len(sn[e]), sm[e][j] = sn[e][j], i - p \in 1 .. q, sm[d][i] = w[s][i - p] PROVE FALSE
      BY <1>12, <2>1, <3>3 DEF q
    <3>4. CASE /\ d = c /\ i \in 1 .. p + q /\ i - p \in 1 .. q /\ sm[d][i] = w[s][i - p]
               /\ e = c /\ j \in 1 .. p + q /\ j - p \in 1 .. q /\ sm[e][j] = w[s][j - p]
      <4>1. w[s][i - p] = w[s][j - p]
        BY <2>1, <3>4
      <4>2. i - p \in 1 .. q /\ j - p \in 1 .. q
        BY <3>4
      <4>3. ~(i - p < j - p) /\ ~(j - p < i - p)
        <5>1. \A k \in 1 .. q : w[s][k] \in Int
          BY <1>12 DEF q
        <5>2. \A k, l \in 1 .. q : k < l => w[s][k] < w[s][l]
          BY <2>0 DEF q
        <5>3. \A k, l \in 1 .. q : k < l => w[s][k] # w[s][l]
          BY <5>1, <5>2
        <5> QED BY <4>1, <4>2, <5>3
      <4>4. i = j
        BY <1>2, <3>4, <4>3
      <4> QED BY <3>4, <4>4
    <3>5. \/ i \in 1 .. Len(sn[d]) /\ sm[d][i] = sn[d][i]
          \/ d = c /\ i \in 1 .. p + q /\ i - p \in 1 .. q /\ sm[d][i] = w[s][i - p]
      BY <1>8
    <3>6. \/ j \in 1 .. Len(sn[e]) /\ sm[e][j] = sn[e][j]
          \/ e = c /\ j \in 1 .. p + q /\ j - p \in 1 .. q /\ sm[e][j] = w[s][j - p]
      BY <1>8
    <3> QED BY <3>1, <3>2, <3>3, <3>4, <3>5, <3>6
  <2>2. ASSUME NEW d \in Conn, NEW i \in 1 .. Len(sm[d]), NEW j \in 1 .. Len(sm[d]),
               i < j, g[sm[d][i]] = g[sm[d][j]]
        PROVE  sm[d][i] < sm[d][j]
    <3>1. CASE /\ i \in 1 .. Len(sn[d]) /\ sm[d][i] = sn[d][i]
               /\ j \in 1 .. Len(sn[d]) /\ sm[d][j] = sn[d][j]
      BY <2>0, <2>2, <3>1
    <3>2. CASE i \in 1 .. Len(sn[d]) /\ sm[d][i] = sn[d][i] /\ j - p \in 1 .. q /\ sm[d][j] = w[s][j - p]
      <4>1. g[w[s][j - p]] = s
        BY <1>12, <3>2 DEF q
      <4> QED BY <2>0, <2>2, <3>2, <4>1 DEF q
    <3>3. ASSUME d = c, j \in 1 .. Len(sn[d]), ~(i <= p), i \in 1 .. p + q PROVE FALSE
      <4>1. j \in 1 .. p
        BY <3>3 DEF p
      <4> QED BY <1>2, <2>2, <3>3, <4>1
    <3>4. CASE /\ i \in 1 .. p + q /\ i - p \in 1 .. q /\ sm[d][i] = w[s][i - p]
               /\ j \in 1 .. p + q /\ j - p \in 1 .. q /\ sm[d][j] = w[s][j - p]
      <4>1. i - p < j - p
        BY <1>2, <2>2, <3>4
      <4> QED BY <2>0, <3>4, <4>1 DEF q
    <3>5. \/ i \in 1 .. Len(sn[d]) /\ sm[d][i] = sn[d][i]
          \/ d = c /\ ~(i <= p) /\ i \in 1 .. p + q /\ i - p \in 1 .. q /\ sm[d][i] = w[s][i - p]
      BY <1>8
    <3>6. \/ j \in 1 .. Len(sn[d]) /\ sm[d][j] = sn[d][j]
          \/ d = c /\ j \in 1 .. p + q /\ j - p \in 1 .. q /\ sm[d][j] = w[s][j - p]
      BY <1>8
    <3> QED BY <3>1, <3>2, <3>3, <3>4, <3>5, <3>6
  <2>3. \A x \in Sock : \A i, j \in 1 .. Len(v[x]) : i < j => v[x][i] < v[x][j]
    BY <1>6, <2>0
  <2>4. ASSUME NEW d \in Conn, NEW i \in 1 .. Len(sm[d]), NEW x \in Sock, NEW j \in 1 .. Len(v[x]),
               g[sm[d][i]] = x
        PROVE  sm[d][i] < v[x][j]
    <3>1. x # s /\ j \in 1 .. Len(w[x]) /\ v[x][j] = w[x][j]
      BY <1>6
    <3>2. CASE i \in 1 .. Len(sn[d]) /\ sm[d][i] = sn[d][i]
      BY <2>0, <2>4, <3>1, <3>2
    <3>3. ASSUME i - p \in 1 .. q, sm[d][i] = w[s][i - p] PROVE FALSE
      BY <1>12, <2>4, <3>1, <3>3 DEF q
    <3> QED BY <1>8, <3>2, <3>3
  <2> QED BY <2>1, <2>2, <2>3, <2>4 DEF InOrder
<1> QED BY <1>1, <1>4, <1>5, <1>13, <1>14 DEF Bytes, BytesTyped, v, sm, a

(* An error is emitted for bytes that no buffer holds. *)
LEMMA BytesMoreLost ==
  ASSUME NEW g, NEW sn, NEW lo, NEW w, Bytes(g, sn, lo, w), NEW X,
         \A b \in X : b \in Byte /\ b \in 1 .. Len(g),
         \A x \in Sock : \A i \in 1 .. Len(w[x]) : w[x][i] \notin X
  PROVE  Bytes(g, sn, lo \cup X, w)
<1>1. BytesTyped(g, sn, lo \cup X, w)
  BY DEF Bytes, BytesTyped
<1>2. Placed(g, sn, lo \cup X, w)
  BY DEF Bytes, Placed
<1> QED BY <1>1, <1>2 DEF Bytes

(* An error is emitted for what s holds. *)
LEMMA BytesFailed ==
  ASSUME NEW g, NEW sn, NEW lo, NEW w, Bytes(g, sn, lo, w), NEW s \in Sock
  PROVE  Bytes(g, sn, lo \cup {w[s][i] : i \in DOMAIN w[s]}, [w EXCEPT ![s] = <<>>])
<1> DEFINE X == {w[s][i] : i \in DOMAIN w[s]}
           v == [w EXCEPT ![s] = <<>>]
<1>1. /\ g \in Seq(Sock) /\ sn \in [Conn -> Seq(Byte)] /\ lo \subseteq Byte /\ w \in [Sock -> Seq(Byte)]
      /\ w[s] \in Seq(Byte)
  BY DEF Bytes, BytesTyped
<1>2. \A i \in 1 .. Len(w[s]) : w[s][i] \in Byte /\ w[s][i] \in X
  BY <1>1, ElementOfSeq, LenProperties
<1>3. \A b \in X : \E i \in 1 .. Len(w[s]) : w[s][i] = b
  BY <1>1, LenProperties
<1>4. /\ v \in [Sock -> Seq(Byte)] /\ v[s] = <<>> /\ \A x \in Sock : x # s => v[x] = w[x]
  BY <1>1, EmptySeq
<1> HIDE DEF X, v
<1>5. \A x \in Sock : \A i \in 1 .. Len(v[x]) : x # s /\ i \in 1 .. Len(w[x]) /\ v[x][i] = w[x][i]
  <2>1. \A i \in 1 .. Len(v[s]) : FALSE
    BY <1>4
  <2> QED BY <1>4, <2>1
<1>6. /\ \A x \in Sock : \A i \in 1 .. Len(w[x]) :
            /\ w[x][i] \in 1 .. Len(g) /\ g[w[x][i]] = x
            /\ w[x][i] \notin lo /\ ~IsSent(sn, w[x][i])
      /\ \A b \in 1 .. Len(g) : IsSent(sn, b) \/ b \in lo \/ \E i \in 1 .. Len(w[g[b]]) : w[g[b]][i] = b
      /\ \A b \in lo : b \in 1 .. Len(g)
      /\ \A c \in Conn : \A i \in 1 .. Len(sn[c]) : sn[c][i] \in 1 .. Len(g)
  BY DEF Bytes, Placed
<1>7. ASSUME NEW b \in 1 .. Len(g)
      PROVE  IsSent(sn, b) \/ b \in lo \cup X \/ \E i \in 1 .. Len(v[g[b]]) : v[g[b]][i] = b
  <2>1. g[b] \in Sock
    BY <1>1, ElementOfSeq
  <2>2. CASE g[b] = s
    BY <1>2, <1>6, <2>2
  <2>3. CASE g[b] # s
    BY <1>4, <1>6, <2>1, <2>3
  <2> QED BY <2>2, <2>3
<1>8. ASSUME NEW x \in Sock, NEW i \in 1 .. Len(v[x])
      PROVE  /\ v[x][i] \in 1 .. Len(g) /\ g[v[x][i]] = x
             /\ v[x][i] \notin lo \cup X /\ ~IsSent(sn, v[x][i])
  <2>1. x # s /\ i \in 1 .. Len(w[x]) /\ v[x][i] = w[x][i]
    BY <1>5
  <2>2. /\ w[x][i] \in 1 .. Len(g) /\ g[w[x][i]] = x
        /\ w[x][i] \notin lo /\ ~IsSent(sn, w[x][i])
    BY <1>6, <2>1
  <2>3. ASSUME w[x][i] \in X PROVE FALSE
    <3>1. PICK j \in 1 .. Len(w[s]) : w[s][j] = w[x][i]
      BY <1>3, <2>3
    <3>2. g[w[s][j]] = s
      BY <1>6
    <3> QED BY <2>1, <2>2, <3>1, <3>2
  <2> QED BY <2>1, <2>2, <2>3
<1>9. Placed(g, sn, lo \cup X, v)
  BY <1>3, <1>6, <1>7, <1>8 DEF Placed
<1>10. InOrder(g, sn, v)
  <2>1. /\ \A x \in Sock : \A i, j \in 1 .. Len(w[x]) : i < j => w[x][i] < w[x][j]
        /\ \A d \in Conn : \A i \in 1 .. Len(sn[d]) : \A x \in Sock : \A j \in 1 .. Len(w[x]) :
             g[sn[d][i]] = x => sn[d][i] < w[x][j]
    BY DEF Bytes, InOrder
  <2>2. \A x \in Sock : \A i, j \in 1 .. Len(v[x]) : i < j => v[x][i] < v[x][j]
    BY <1>5, <2>1
  <2>3. \A d \in Conn : \A i \in 1 .. Len(sn[d]) : \A x \in Sock : \A j \in 1 .. Len(v[x]) :
          g[sn[d][i]] = x => sn[d][i] < v[x][j]
    BY <1>5, <2>1
  <2>4. /\ \A c, d \in Conn : \A i \in 1 .. Len(sn[c]), j \in 1 .. Len(sn[d]) :
             sn[c][i] = sn[d][j] => c = d /\ i = j
        /\ \A c \in Conn : \A i, j \in 1 .. Len(sn[c]) :
             i < j /\ g[sn[c][i]] = g[sn[c][j]] => sn[c][i] < sn[c][j]
    BY DEF Bytes, InOrder
  <2> QED BY <2>2, <2>3, <2>4 DEF InOrder
<1>11. BytesTyped(g, sn, lo \cup X, v)
  <2>1. X \subseteq Byte
    BY <1>2, <1>3
  <2> QED BY <1>1, <1>4, <2>1 DEF BytesTyped
<1> QED BY <1>9, <1>10, <1>11 DEF Bytes, X, v

(* What the invariant says of the bytes. *)
LEMMA BytesMeaning == BytesInv => BytesAccounted
<1> SUFFICES ASSUME BytesInv PROVE BytesAccounted
  OBVIOUS
<1> DEFINE w == Buffers
<1>1. /\ given \in Seq(Sock) /\ sent \in [Conn -> Seq(Byte)] /\ w \in [Sock -> Seq(Byte)]
      /\ \A s \in Sock : w[s] = sk[s].wbuf
  BY DEF BytesInv, Bytes, BytesTyped, Buffers
<1>2. Placed(given, sent, lost, w) /\ InOrder(given, sent, w) /\ BufferEmpty
  BY DEF BytesInv, Bytes
<1> HIDE DEF w
<1>3. /\ DOMAIN given = 1 .. Len(given)
      /\ \A c \in Conn : DOMAIN sent[c] = 1 .. Len(sent[c])
      /\ \A s \in Sock : DOMAIN sk[s].wbuf = 1 .. Len(w[s])
  <2>1. \A c \in Conn : sent[c] \in Seq(Byte)
    BY <1>1
  <2>2. \A s \in Sock : w[s] \in Seq(Byte)
    BY <1>1
  <2> QED BY <1>1, <2>1, <2>2, LenProperties
<1>4. \A b : b \in Out <=> IsSent(sent, b)
  BY <1>3 DEF Out, IsSent
<1>5. ASSUME NEW s \in Sock PROVE Given(s) \ (Out \cup lost) = Held(s)
  <2>1. \A b : b \in Held(s) <=> \E i \in 1 .. Len(w[s]) : w[s][i] = b
    BY <1>1, <1>3 DEF Held
  <2>2. \A b : b \in Given(s) <=> b \in 1 .. Len(given) /\ given[b] = s
    BY <1>3 DEF Given
  <2>3. ASSUME NEW b, b \in Given(s), b \notin Out, b \notin lost PROVE b \in Held(s)
    BY <1>2, <1>4, <2>1, <2>2, <2>3 DEF Placed
  <2>4. ASSUME NEW b, b \in Held(s) PROVE b \in Given(s) /\ b \notin Out /\ b \notin lost
    <3>1. PICK i \in 1 .. Len(w[s]) : w[s][i] = b
      BY <2>1, <2>4
    <3> QED BY <1>2, <1>4, <2>2, <3>1 DEF Placed
  <2> QED BY <2>3, <2>4
<1>6. ASSUME NEW s \in Sock, sk[s].finished \/ \E c \in Conn : fin[c] = s PROVE Held(s) = {}
  <2>1. sk[s].wbuf = <<>>
    BY <1>2, <1>6 DEF BufferEmpty
  <2> QED BY <2>1 DEF Held
<1>7. \A c, d \in Conn : \A i \in DOMAIN sent[c], j \in DOMAIN sent[d] :
       /\ sent[c][i] = sent[d][j] => c = d /\ i = j
       /\ c = d /\ i < j /\ given[sent[c][i]] = given[sent[c][j]] => sent[c][i] < sent[c][j]
  BY <1>2, <1>3 DEF InOrder
<1> QED BY <1>5, <1>6, <1>7 DEF BytesAccounted

(* The bytes and the buffers are left as they are. *)
LEMMA BytesKept ==
  ASSUME TypeOK, BytesInv, BytesSame,
         \A i \in 1 .. Len(frames') : frames'[i].on = "error" =>
           \E j \in 1 .. Len(frames) : frames[j] = frames'[i]
  PROVE  BytesInv'
<1>1. Buffers' = Buffers
  BY DEF Buffers, BytesSame
<1>2. Bytes(given, sent, lost, Buffers)'
  BY <1>1 DEF BytesInv, BytesSame, Bytes, BytesTyped, Placed, InOrder, IsSent
<1>3. \A i \in 1 .. Len(frames) : frames[i].on = "error" => frames[i].sock \in Sock
  <2>1. \A i \in 1 .. Len(frames) : frames[i] \in Frame
    BY ElementOfSeq DEF TypeOK
  <2> QED BY <2>1 DEF Frame
<1>4. ASSUME NEW s \in Sock, sk'[s].finished \/ \E c \in Conn : fin'[c] = s
      PROVE  sk'[s].ended /\ sk'[s].wbuf = <<>>
  <2>1. sk[s].finished \/ \E c \in Conn : fin[c] = s
    BY <1>4 DEF BytesSame
  <2> QED BY <2>1 DEF BytesInv, BufferEmpty, BytesSame
<1>5. ASSUME NEW i \in 1 .. Len(frames'), frames'[i].on = "error" PROVE sk'[frames'[i].sock].wbuf = <<>>
  <2>1. PICK j \in 1 .. Len(frames) : frames[j] = frames'[i]
    BY <1>5
  <2>2. frames[j].sock \in Sock /\ sk[frames[j].sock].wbuf = <<>>
    BY <1>3, <1>5, <2>1 DEF BytesInv, BufferEmpty
  <2> QED BY <2>1, <2>2 DEF BytesSame
<1>6. BufferEmpty'
  BY <1>4, <1>5 DEF BufferEmpty
<1> QED BY <1>2, <1>6 DEF BytesInv

(* flush(), for a Socket st to which a byte may have been added. *)
LEMMA FlushBytes ==
  ASSUME TypeOK, NEW s \in Sock, NEW st \in SocketObject,
         NEW then \in {"nothing", "finish"}, NEW ts \in Seq(Timer),
         Flush(s, st, then, ts), given' \in Seq(Sock),
         Bytes(given', sent, lost, [Buffers EXCEPT ![s] = st.wbuf]), BufferEmpty,
         st.finished \/ (\E c \in Conn : fin[c] = s) => st.ended /\ st.wbuf = <<>>,
         \A i \in 1 .. Len(frames) : frames[i] = [on |-> "error", sock |-> s] => st.wbuf = <<>>
  PROVE  BytesInv'
<1> DEFINE w == [Buffers EXCEPT ![s] = st.wbuf]
           b == st.wbuf
           v == [w EXCEPT ![s] = <<>>]
           lose == lost \cup {b[i] : i \in DOMAIN b}
<1>1. /\ sk \in [Sock -> SocketObject] /\ frames \in Seq(Frame) /\ Len(frames) \in Nat
      /\ tbl \in [Fd -> Entry] /\ fin \in [Conn -> Sock \cup {NONE}] /\ b \in Seq(Byte)
  BY LenProperties, SocketFields DEF TypeOK
<1>2. /\ Buffers \in [Sock -> Seq(Byte)] /\ w[s] = b /\ w \in [Sock -> Seq(Byte)]
      /\ \A x \in Sock : Buffers[x] = sk[x].wbuf
  <2>1. \A x \in Sock : sk[x].wbuf \in Seq(Byte)
    BY <1>1 DEF SocketObject
  <2> QED BY <1>1, <2>1 DEF Buffers
<1>3. Bytes(given', sent, lost, w)
  OBVIOUS
(* The new buffers. *)
<1>4. ASSUME NEW e \in SocketObject, sk' = [sk EXCEPT ![s] = e]
      PROVE  /\ e.wbuf = <<>> => Buffers' = v
             /\ e.wbuf = b => Buffers' = w
             /\ sk'[s] = e /\ \A x \in Sock : x # s => sk'[x] = sk[x]
  <2>1. sk'[s] = e /\ \A x \in Sock : x # s => sk'[x] = sk[x]
    BY <1>1, <1>4
  <2>2. Buffers' = [x \in Sock |-> sk'[x].wbuf]
    BY DEF Buffers
  <2>3. \A x \in Sock : x # s => sk'[x].wbuf = Buffers[x]
    BY <1>2, <2>1
  <2> HIDE DEF b
  <2>4. ASSUME e.wbuf = <<>> PROVE Buffers' = v
    BY <1>2, <2>1, <2>2, <2>3, <2>4
  <2>5. ASSUME e.wbuf = b PROVE Buffers' = w
    BY <1>2, <2>1, <2>2, <2>3, <2>5 DEF b
  <2> QED BY <2>1, <2>4, <2>5
<1> HIDE DEF w, v
<1>5. Bytes(given', sent, lose, v)
  <2>1. Bytes(given', sent, lost \cup {w[s][i] : i \in DOMAIN w[s]}, [w EXCEPT ![s] = <<>>])
    BY <1>3, BytesFailed
  <2> HIDE DEF b
  <2>2. lost \cup {w[s][i] : i \in DOMAIN w[s]} = lose
    BY <1>2
  <2> QED BY <2>1, <2>2 DEF v
<1>6. ASSUME Takes(st.fd), Output(st)
      PROVE  Bytes(given', sent', lost, v) /\ Bytes(given', sent', lose, v)
  <2> DEFINE c == tbl[st.fd].pcb
  <2>1. c \in Conn /\ sent' = [sent EXCEPT ![c] = sent[c] \o b]
    <3>1. st.fd \in Fd
      BY <1>6, SocketFields DEF Takes
    <3>2. tbl[st.fd].pcb \in Conn \cup {NONE}
      BY <1>1, <3>1 DEF Entry
    <3> QED BY <1>6, <3>2 DEF Takes, Output
  <2> HIDE DEF c
  <2>2. Bytes(given', sent', lost, v)
    BY <1>2, <1>3, <2>1, BytesOut DEF v
  <2> DEFINE X == {b[i] : i \in DOMAIN b}
  <2>3. \A i \in 1 .. Len(w[s]) : w[s][i] \in 1 .. Len(given') /\ given'[w[s][i]] = s
    BY <1>3 DEF Bytes, Placed
  <2>4. \A y \in X : \E i \in 1 .. Len(w[s]) : w[s][i] = y
    BY <1>1, <1>2, LenProperties
  <2>5. \A i \in 1 .. Len(w[s]) : w[s][i] \in Byte
    BY <1>1, <1>2, ElementOfSeq
  <2> HIDE DEF X, b
  <2>6. \A y \in X : y \in Byte /\ y \in 1 .. Len(given') /\ given'[y] = s
    BY <2>3, <2>4, <2>5
  <2>7. \A x \in Sock : \A i \in 1 .. Len(v[x]) : v[x][i] \notin X
    <3>1. \A i \in 1 .. Len(v[s]) : FALSE
      BY <1>2 DEF v
    <3>2. \A x \in Sock : \A i \in 1 .. Len(v[x]) : given'[v[x][i]] = x
      BY <2>2 DEF Bytes, Placed
    <3> QED BY <2>6, <3>1, <3>2
  <2>8. Bytes(given', sent', lost \cup X, v)
    BY <2>2, <2>6, <2>7, BytesMoreLost
  <2> QED BY <2>2, <2>8 DEF X, b
<1>7. ASSUME NEW e \in SocketObject, sk' = [sk EXCEPT ![s] = e], e.ended = st.ended,
             e.wbuf = <<>> \/ e.wbuf = b,
             e.finished => st.finished \/ (st.ended /\ b = <<>>),
             \A c \in Conn : fin'[c] = fin[c] \/ (fin'[c] = s /\ st.ended /\ b = <<>>),
             \/ frames' = frames
             \/ frames' = Append(frames, [on |-> "error", sock |-> s]) /\ e.wbuf = <<>>
      PROVE  BufferEmpty'
  <2>1. sk'[s] = e /\ \A x \in Sock : x # s => sk'[x] = sk[x]
    BY <1>4, <1>7
  <2>2. ASSUME NEW x \in Sock, sk'[x].finished \/ \E c \in Conn : fin'[c] = x
        PROVE  sk'[x].ended /\ sk'[x].wbuf = <<>>
    <3>1. CASE x = s
      <4>1. st.ended /\ b = <<>>
        BY <1>7, <2>1, <2>2, <3>1
      <4> QED BY <1>7, <2>1, <3>1, <4>1
    <3>2. CASE x # s
      <4>1. sk[x].finished \/ \E c \in Conn : fin[c] = x
        BY <1>7, <2>1, <2>2, <3>2
      <4> QED BY <2>1, <3>2, <4>1 DEF BufferEmpty
    <3> QED BY <3>1, <3>2
  <2>3. ASSUME NEW i \in 1 .. Len(frames), frames[i].on = "error"
        PROVE  frames[i].sock \in Sock /\ sk'[frames[i].sock].wbuf = <<>>
    <3>1. frames[i] \in Frame
      BY <1>1, ElementOfSeq
    <3>2. frames[i].sock \in Sock /\ frames[i] = [on |-> "error", sock |-> frames[i].sock]
      BY <2>3, <3>1 DEF Frame
    <3>3. CASE frames[i].sock = s
      <4>1. b = <<>>
        BY <3>2, <3>3
      <4> QED BY <1>7, <2>1, <3>2, <3>3, <4>1
    <3>4. CASE frames[i].sock # s
      BY <2>1, <2>3, <3>2, <3>4 DEF BufferEmpty
    <3> QED BY <3>2, <3>3, <3>4
  <2>4. ASSUME NEW i \in 1 .. Len(frames'), frames'[i].on = "error"
        PROVE  sk'[frames'[i].sock].wbuf = <<>>
    <3>1. CASE frames' = frames
      BY <2>3, <2>4, <3>1
    <3>2. CASE frames' = Append(frames, [on |-> "error", sock |-> s]) /\ e.wbuf = <<>>
      <4> DEFINE m == [on |-> "error", sock |-> s]
      <4>1. m \in Frame /\ m.sock = s
        BY DEF Frame
      <4> HIDE DEF m
      <4>2. /\ Len(Append(frames, m)) = Len(frames) + 1 /\ Append(frames, m)[Len(frames) + 1] = m
            /\ \A k \in 1 .. Len(frames) : Append(frames, m)[k] = frames[k]
        BY <1>1, <4>1, AppendProperties
      <4>3. frames' = Append(frames, m)
        BY <3>2 DEF m
      <4>4. i \in 1 .. Len(frames) \/ i = Len(frames) + 1
        BY <1>1, <4>2, <4>3
      <4>5. CASE i = Len(frames) + 1
        BY <2>1, <3>2, <4>1, <4>2, <4>3, <4>5
      <4>6. CASE i \in 1 .. Len(frames)
        <5>1. frames'[i] = frames[i]
          BY <4>2, <4>3, <4>6
        <5> QED BY <2>3, <2>4, <4>6, <5>1
      <4> QED BY <4>4, <4>5, <4>6
    <3> QED BY <1>7, <3>1, <3>2
  <2> QED BY <2>2, <2>4 DEF BufferEmpty
<1> DEFINE cleared == [st EXCEPT !.wbuf = <<>>]
           ended == [st EXCEPT !.finished = TRUE]
<1>8. /\ cleared \in SocketObject /\ cleared.wbuf = <<>> /\ cleared.ended = st.ended
      /\ cleared.finished = st.finished
      /\ ended \in SocketObject /\ ended.wbuf = b /\ ended.ended = st.ended
  BY SocketFields
<1>9. CASE HandsOver(s, st, then, ts) /\ fin' = fin
  <2>1. /\ Takes(st.fd) /\ Output(st) /\ sk' = [sk EXCEPT ![s] = cleared]
        /\ UNCHANGED <<frames, lost, fin>>
    BY <1>9 DEF HandsOver
  <2> HIDE DEF cleared, ended, lose, b
  <2>2. Buffers' = v
    BY <1>4, <1>8, <2>1
  <2>3. Bytes(given', sent', lost', Buffers')
    BY <1>6, <2>1, <2>2
  <2>4. BufferEmpty'
    BY <1>7, <1>8, <2>1
  <2> QED BY <2>3, <2>4 DEF BytesInv, Bytes, BytesTyped, Placed, InOrder, IsSent
<1>10. CASE Refused(s, st, ts) /\ fin' = fin
  <2>1. /\ (sent' = sent \/ (Takes(st.fd) /\ Output(st))) /\ sk' = [sk EXCEPT ![s] = cleared]
        /\ lost' = lose /\ fin' = fin
        /\ frames' = Append(frames, [on |-> "error", sock |-> s])
    BY <1>10 DEF Refused
  <2> HIDE DEF cleared, ended, lose, b
  <2>2. Buffers' = v
    BY <1>4, <1>8, <2>1
  <2>3. Bytes(given', sent', lost', Buffers')
    BY <1>5, <1>6, <2>1, <2>2
  <2>4. BufferEmpty'
    BY <1>7, <1>8, <2>1
  <2> QED BY <2>3, <2>4 DEF BytesInv, Bytes, BytesTyped, Placed, InOrder, IsSent
<1>11. ASSUME NEW e \in SocketObject, sk' = [sk EXCEPT ![s] = e], e.wbuf = b, e.ended = st.ended,
              e.finished => st.finished \/ (st.ended /\ b = <<>>),
              \A c \in Conn : fin'[c] = fin[c] \/ (fin'[c] = s /\ st.ended /\ b = <<>>),
              UNCHANGED <<frames, sent, lost>>
       PROVE  BytesInv'
  <2> HIDE DEF b, lose
  <2>1. Buffers' = w
    BY <1>4, <1>11
  <2>2. Bytes(given', sent', lost', Buffers')
    BY <1>3, <1>11, <2>1
  <2>3. BufferEmpty'
    BY <1>7, <1>11
  <2> QED BY <2>2, <2>3 DEF BytesInv, Bytes, BytesTyped, Placed, InOrder, IsSent
<1>12. CASE /\ Finish(s, st) \/ (sk' = [sk EXCEPT ![s] = st] /\ UNCHANGED <<fin, failed>>)
            /\ UNCHANGED <<frames, sent, lost>>
  <2>1. CASE sk' = [sk EXCEPT ![s] = st] /\ fin' = fin
    BY <1>11, <1>12, <2>1
  <2>2. CASE /\ sk' = [sk EXCEPT ![s] = ended] /\ st.ended /\ b = <<>>
             /\ \A c \in Conn : fin'[c] = s \/ fin'[c] = fin[c]
    <3> HIDE DEF ended, b
    <3> QED BY <1>8, <1>11, <1>12, <2>2
  <2>3. ASSUME st.ended, st.wbuf = <<>>, sk' = [sk EXCEPT ![s] = [st EXCEPT !.finished = TRUE]],
               fin' = [c \in Conn |-> IF c = tbl[st.fd].pcb THEN s ELSE fin[c]]
        PROVE  \A c \in Conn : fin'[c] = s \/ fin'[c] = fin[c]
    BY <2>3
  <2> QED BY <1>12, <2>1, <2>2, <2>3 DEF Finish
<1> QED BY <1>9, <1>10, <1>12 DEF Flush

LEMMA WriteBytes ==
  ASSUME TypeOK, BytesInv, NEW s \in Sock, Write(s)
  PROVE  BytesInv'
<1> DEFINE a == Append(sk[s].wbuf, Len(given) + 1)
<1>1. /\ \A x \in Sock : x # s => sk'[x] = sk[x]
      /\ sk'[s].ended = sk[s].ended /\ sk'[s].finished = sk[s].finished /\ sk'[s].wbuf = a
      /\ given' = Append(given, s) /\ Len(given) < MaxBytes /\ ~sk[s].ended /\ MayWrite(s)
      /\ UNCHANGED <<frames, sent, lost, fin>>
  BY WriteEffect
<1>2. Len(given) + 1 \in Byte
  BY <1>1, AddedFields
<1>3. Bytes(given', sent, lost, [Buffers EXCEPT ![s] = a])
  <2>1. Buffers[s] = sk[s].wbuf
    BY DEF Buffers
  <2>2. Bytes(Append(given, s), sent, lost, [Buffers EXCEPT ![s] = Append(Buffers[s], Len(given) + 1)])
    BY <1>2, BytesAdded DEF BytesInv
  <2> QED BY <1>1, <2>1, <2>2
<1> HIDE DEF a
<1>4. Buffers' = [Buffers EXCEPT ![s] = a]
  BY <1>1 DEF Buffers
<1>5. Bytes(given', sent', lost', Buffers')
  BY <1>1, <1>3, <1>4
<1>6. ASSUME NEW x \in Sock, sk'[x].finished \/ \E c \in Conn : fin'[c] = x
      PROVE  sk'[x].ended /\ sk'[x].wbuf = <<>>
  <2>1. sk[x].finished \/ \E c \in Conn : fin[c] = x
    BY <1>1, <1>6
  <2>2. sk[x].ended /\ sk[x].wbuf = <<>>
    BY <2>1 DEF BytesInv, BufferEmpty
  <2> QED BY <1>1, <2>2
<1>7. ASSUME NEW i \in 1 .. Len(frames), frames[i].on = "error"
      PROVE  sk'[frames[i].sock].wbuf = <<>>
  <2>1. frames[i] \in Frame /\ DOMAIN frames = 1 .. Len(frames)
    BY ElementOfSeq, LenProperties DEF TypeOK
  <2>2. frames[i].sock \in Sock /\ frames[i] = [on |-> "error", sock |-> frames[i].sock]
    BY <1>7, <2>1 DEF Frame
  <2>3. frames[i].sock # s
    BY <1>1, <2>1, <2>2 DEF MayWrite
  <2> QED BY <1>1, <1>7, <2>2, <2>3 DEF BytesInv, BufferEmpty
<1>8. BufferEmpty'
  BY <1>1, <1>6, <1>7 DEF BufferEmpty
<1> QED BY <1>5, <1>8 DEF BytesInv, Bytes, BytesTyped, Placed, InOrder, IsSent

LEMMA FlushCallsBytes ==
  ASSUME TypeOK, BytesInv, TimerFires \/ \E s \in Sock : End(s) \/ EndWith(s)
  PROVE  BytesInv'
<1>1. PICK s \in Sock, st \in SocketObject, then \in {"nothing", "finish"}, ts \in Seq(Timer) :
           /\ Flush(s, st, then, ts) /\ UNCHANGED <<tbl, srv, net, own>>
           /\ st.fd = sk[s].fd /\ st.destroyed = sk[s].destroyed /\ st.finished = sk[s].finished
           /\ \/ /\ TimerFires /\ given' = given /\ st = sk[s]
              \/ /\ End(s) /\ given' = given
                 /\ st.wbuf = sk[s].wbuf /\ st.ended = TRUE
              \/ /\ EndWith(s) /\ given' = Append(given, s) /\ Len(given) < MaxBytes
                 /\ st.wbuf = Append(sk[s].wbuf, Len(given) + 1) /\ st.ended = TRUE
                 /\ MayWrite(s) /\ ~sk[s].ended
  BY FlushCalls
<1>2. /\ Bytes(given, sent, lost, Buffers) /\ BufferEmpty
      /\ Buffers \in [Sock -> Seq(Byte)] /\ Buffers[s] = sk[s].wbuf
  BY DEF BytesInv, Bytes, BytesTyped, Buffers
<1>3. given' \in Seq(Sock)
  BY <1>1, GivenTypes
<1>4. sk[s].finished \/ (\E c \in Conn : fin[c] = s) => sk[s].ended /\ sk[s].wbuf = <<>>
  BY <1>2 DEF BufferEmpty
<1>5. \A i \in 1 .. Len(frames) : frames[i] = [on |-> "error", sock |-> s] => sk[s].wbuf = <<>>
  <2>1. ASSUME NEW i \in 1 .. Len(frames), frames[i] = [on |-> "error", sock |-> s]
        PROVE  frames[i].on = "error" /\ frames[i].sock = s
    BY <2>1
  <2> QED BY <1>2, <2>1 DEF BufferEmpty
<1>6. CASE given' = given /\ st.wbuf = sk[s].wbuf /\ (st.ended = sk[s].ended \/ st.ended = TRUE)
  <2>1. [Buffers EXCEPT ![s] = st.wbuf] = Buffers
    BY <1>2, <1>6
  <2>2. Bytes(given', sent, lost, [Buffers EXCEPT ![s] = st.wbuf])
    BY <1>2, <1>6, <2>1
  <2>3. st.finished \/ (\E c \in Conn : fin[c] = s) => st.ended /\ st.wbuf = <<>>
    BY <1>1, <1>4, <1>6
  <2>4. \A i \in 1 .. Len(frames) : frames[i] = [on |-> "error", sock |-> s] => st.wbuf = <<>>
    BY <1>5, <1>6
  <2> QED BY <1>1, <1>2, <1>3, <2>2, <2>3, <2>4, FlushBytes
<1>7. CASE /\ given' = Append(given, s) /\ Len(given) < MaxBytes
           /\ st.wbuf = Append(sk[s].wbuf, Len(given) + 1)
           /\ MayWrite(s) /\ ~sk[s].ended
  <2>1. Len(given) + 1 \in Byte
    BY <1>7, AddedFields
  <2>2. Bytes(given', sent, lost, [Buffers EXCEPT ![s] = st.wbuf])
    <3>1. Bytes(Append(given, s), sent, lost, [Buffers EXCEPT ![s] = Append(Buffers[s], Len(given) + 1)])
      BY <1>2, <2>1, BytesAdded
    <3> QED BY <1>2, <1>7, <3>1
  <2>3. ~st.finished /\ ~\E c \in Conn : fin[c] = s
    BY <1>1, <1>4, <1>7
  <2>4. \A i \in 1 .. Len(frames) : frames[i] # [on |-> "error", sock |-> s]
    <3>1. DOMAIN frames = 1 .. Len(frames)
      BY LenProperties DEF TypeOK
    <3> QED BY <1>7, <3>1 DEF MayWrite
  <2> QED BY <1>1, <1>2, <1>3, <2>2, <2>3, <2>4, FlushBytes
<1> QED BY <1>1, <1>6, <1>7

LEMMA ListenerBytes ==
  ASSUME TableInv, BytesInv, ListenerReturns
  PROVE  BytesSame /\ \A i \in 1 .. Len(frames') : \E j \in 1 .. Len(frames) : frames[j] = frames'[i]
<1> DEFINE top == frames[Len(frames)]
<1>1. /\ Len(frames) \in 1 .. Len(frames) /\ top \in Frame
      /\ \A i \in 1 .. Len(frames') : i \in 1 .. Len(frames) /\ frames'[i] = frames[i]
  BY FramesPopped, TableFacts DEF ListenerReturns
<1>2. /\ UNCHANGED <<given, sent, lost, fin>>
      /\ \/ top.on = "close" /\ sk' = (IF top.sock = NONE THEN sk ELSE AfterDestroy(top.sock))
         \/ top.on = "error" /\ sk' = [sk EXCEPT ![top.sock].wbuf = <<>>]
  BY DEF ListenerReturns
<1>3. sk \in [Sock -> SocketObject] /\ TypeOK
  BY DEF TableInv, TypeOK
<1>4. \A y \in Sock : /\ sk'[y].wbuf = sk[y].wbuf /\ sk'[y].ended = sk[y].ended
                      /\ sk'[y].finished = sk[y].finished
  <2>1. CASE top.on = "close" /\ sk' = (IF top.sock = NONE THEN sk ELSE AfterDestroy(top.sock))
    <3>1. top.sock \in Sock \cup {NONE}
      BY <1>1, <2>1 DEF Frame
    <3>2. CASE sk' = sk
      BY <3>2
    <3>3. CASE top.sock \in Sock /\ sk' = AfterDestroy(top.sock)
      BY <1>3, <3>3, Destroyed
    <3> QED BY <2>1, <3>1, <3>2, <3>3
  <2>2. CASE top.on = "error" /\ sk' = [sk EXCEPT ![top.sock].wbuf = <<>>]
    <3> DEFINE s == top.sock
               m == [sk[s] EXCEPT !.wbuf = <<>>]
    <3>1. s \in Sock /\ sk[s].wbuf = <<>>
      BY <1>1, <2>2 DEF Frame, BytesInv, BufferEmpty
    <3>2. sk' = [sk EXCEPT ![s] = m]
      BY <2>2
    <3>3. m.wbuf = <<>> /\ m.ended = sk[s].ended /\ m.finished = sk[s].finished
      BY <1>3, <3>1, SocketFields
    <3> HIDE DEF m, s
    <3>4. sk'[s] = m /\ \A y \in Sock : y # s => sk'[y] = sk[y]
      BY <1>3, <3>1, <3>2
    <3> QED BY <3>1, <3>3, <3>4
  <2> QED BY <1>2, <2>1, <2>2
<1> QED BY <1>1, <1>2, <1>4 DEF BytesSame

LEMMA BytesStep == TableInv /\ BytesInv /\ [Next]_vars => BytesInv'
<1> SUFFICES ASSUME TableInv, BytesInv, [Next]_vars PROVE BytesInv'
  OBVIOUS
<1>0. TypeOK /\ sk \in [Sock -> SocketObject] /\ frames \in Seq(Frame)
  BY DEF TableInv, TypeOK
<1>1. ASSUME BytesSame, frames' = frames PROVE BytesInv'
  BY <1>0, <1>1, BytesKept
<1>2. ASSUME NEW s \in Sock, Write(s) PROVE BytesInv'
  BY <1>0, <1>2, WriteBytes
<1>3. ASSUME TimerFires \/ \E s \in Sock : End(s) \/ EndWith(s) PROVE BytesInv'
  BY <1>0, <1>3, FlushCallsBytes
<1>4. ASSUME CloseServer \/ \E s \in Sock : Destroy(s) \/ PeerCloses(s) PROVE BytesInv'
  <2>1. BytesSame
    BY <1>4, ClosingKeeps
  <2>2. CASE frames' = frames
    BY <1>1, <2>1, <2>2
  <2>3. ASSUME NEW f \in Fd, NEW x \in Sock \cup {NONE},
               frames' = Append(frames, [on |-> "close", fd |-> f, sock |-> x])
        PROVE  BytesInv'
    <3> DEFINE m == [on |-> "close", fd |-> f, sock |-> x]
    <3>1. m \in Frame /\ m.on = "close"
      BY DEF Frame
    <3> HIDE DEF m
    <3>2. /\ Len(Append(frames, m)) = Len(frames) + 1 /\ Append(frames, m)[Len(frames) + 1] = m
          /\ \A k \in 1 .. Len(frames) : Append(frames, m)[k] = frames[k]
      BY <1>0, <3>1, AppendProperties
    <3>3. frames' = Append(frames, m) /\ Len(frames) \in Nat
      BY <1>0, <2>3, LenProperties DEF m
    <3>4. ASSUME NEW i \in 1 .. Len(frames'), frames'[i].on = "error"
          PROVE  \E j \in 1 .. Len(frames) : frames[j] = frames'[i]
      <4>1. i \in 1 .. Len(frames) \/ i = Len(frames) + 1
        BY <3>2, <3>3
      <4>2. i # Len(frames) + 1
        BY <3>1, <3>2, <3>3, <3>4
      <4> QED BY <3>2, <3>3, <4>1, <4>2
    <3> QED BY <1>0, <2>1, <3>4, BytesKept
  <2> QED BY <1>4, <2>2, <2>3, ClosingKeeps
<1>5. ASSUME NEW s \in Client, NEW c \in Conn, NEW f \in Fd, Connect(s, c, f) PROVE BytesInv'
  <2> DEFINE m == [sk[s] EXCEPT !.fd = f]
  <2>1. s \in Sock /\ sk[s] \in SocketObject
    BY <1>0, Names
  <2>2. m.wbuf = sk[s].wbuf /\ m.ended = sk[s].ended /\ m.finished = sk[s].finished
    BY <2>1 DEF SocketObject
  <2>3. sk' = [sk EXCEPT ![s] = m] /\ frames' = frames /\ UNCHANGED <<given, sent, lost, fin>>
    BY <1>5 DEF Connect
  <2> HIDE DEF m
  <2>4. sk'[s] = m /\ \A y \in Sock : y # s => sk'[y] = sk[y]
    BY <1>0, <2>1, <2>3
  <2>5. BytesSame
    BY <2>2, <2>3, <2>4 DEF BytesSame
  <2> QED BY <1>1, <2>3, <2>5
<1>6. ASSUME NEW f \in Fd, Listen(f) PROVE BytesInv'
  BY <1>1, <1>6 DEF Listen, BytesSame
<1>7. ASSUME ListenerReturns PROVE BytesInv'
  BY <1>0, <1>7, ListenerBytes, BytesKept
<1>8. ASSUME (\E f \in Fd : Connected(f)) \/ \E c \in Conn : Refuse(c) PROVE BytesInv'
  BY <1>1, <1>8, NetworkKeeps
<1>9. ASSUME NEW s \in Accepted, NEW c \in Conn, NEW f \in Fd, Accept(s, c, f) PROVE BytesInv'
  <2>1. ~tbl[f].open /\ srv \in Fd /\ tbl[srv].state = "listening"
    BY <1>0, <1>9 DEF Accept, IsNext, TypeOK
  <2>2. f # srv
    BY <2>1 DEF TableInv, ServerHolds, Listens
  <2>3. /\ s \in Sock
        /\ sk'[s].wbuf = sk[s].wbuf /\ sk'[s].ended = sk[s].ended /\ sk'[s].finished = sk[s].finished
        /\ \A x \in Sock : x # s => sk'[x] = sk[x]
        /\ UNCHANGED <<srv, timers, frames, given, sent, lost, failed, fin>>
    BY <1>0, <1>9, <2>2, AcceptEffect
  <2>4. BytesSame
    BY <2>3 DEF BytesSame
  <2> QED BY <1>1, <2>3, <2>4
<1>10. ASSUME UNCHANGED vars PROVE BytesInv'
  BY <1>1, <1>10 DEF vars, BytesSame
<1> QED BY <1>2, <1>3, <1>4, <1>5, <1>6, <1>7, <1>8, <1>9, <1>10 DEF Next

LEMMA BytesInit == Init => BytesInv
<1> SUFFICES ASSUME Init PROVE BytesInv
  OBVIOUS
<1>1. /\ given = <<>> /\ sent = [c \in Conn |-> <<>>] /\ lost = {} /\ frames = <<>>
      /\ \A s \in Sock : sk[s] = NewSocket /\ \A c \in Conn : fin[c] # s
  BY Names DEF Init
<1>2. NewSocket.wbuf = <<>> /\ ~NewSocket.finished
  BY DEF NewSocket
<1>3. /\ Buffers \in [Sock -> Seq(Byte)] /\ \A s \in Sock : Len(Buffers[s]) = 0
      /\ \A c \in Conn : Len(sent[c]) = 0
      /\ Len(given) = 0 /\ Len(frames) = 0
  BY <1>1, <1>2, EmptySeq DEF Buffers
<1>4. BytesTyped(given, sent, lost, Buffers)
  BY <1>1, <1>3, EmptySeq DEF BytesTyped
<1>5. Placed(given, sent, lost, Buffers) /\ InOrder(given, sent, Buffers)
  BY <1>1, <1>3 DEF Placed, InOrder
<1>6. BufferEmpty
  BY <1>1, <1>2, <1>3 DEF BufferEmpty
<1> QED BY <1>4, <1>5, <1>6 DEF BytesInv, Bytes

(* stream.js with the device of module_pico_cyw43.c: for any number of bytes,
   Sockets and connections, each byte waits in the buffer of its Socket, or
   went out once and after the earlier ones of its Socket, or an 'error' was
   emitted for it; and none waits once its Socket has finished. *)
THEOREM BytesAccountedAlways == Spec => []BytesAccounted
<1>1. TableInv /\ BytesInv /\ [Next]_vars => BytesInv'
  BY BytesStep
<1> QED BY <1>1, BytesInit, BytesMeaning, TableAlways, PTL DEF Spec
=============================================================================
