---------------------------- MODULE HandleService ----------------------------
(***************************************************************************)
(* What the io loop promises to scripts about timers, watches and UARTs:   *)
(* the life of a handle as clearTimeout, clearInterval, clearWatch and     *)
(* UART.close let a script reason about it.  Module EventLoop implements   *)
(* it with flags and intrusive lists.                                      *)
(***************************************************************************)
CONSTANTS Handle, NULL

VARIABLES
  state,   (* "free", "armed" or "closed"                    *)
  once,    (* the handle's callback is called at most once   *)
  busy     (* the handle whose callback is running, or NULL  *)

svars == <<state, once, busy>>

Init ==
  /\ state = [h \in Handle |-> "free"]
  /\ once = [h \in Handle |-> FALSE]
  /\ busy = NULL

Start(h) ==
  /\ state[h] = "free"
  /\ state' = [state EXCEPT ![h] = "armed"]
  /\ \E b \in BOOLEAN : once' = [once EXCEPT ![h] = b]
  /\ UNCHANGED busy

(* Only an armed handle is called, and no callback interrupts another. *)
Call(h) ==
  /\ busy = NULL
  /\ state[h] = "armed"
  /\ busy' = h
  /\ UNCHANGED <<state, once>>

(* By a script, or because a tone's duration ended. *)
Close(h) ==
  /\ state[h] = "armed"
  /\ state' = [state EXCEPT ![h] = "closed"]
  /\ UNCHANGED <<once, busy>>

(* A handle that is called once is closed now; another may be, if its
   callback threw. *)
Return(h) ==
  /\ busy = h
  /\ busy' = NULL
  /\ \/ UNCHANGED state /\ ~(once[h] /\ state[h] = "armed")
     \/ state[h] = "armed" /\ state' = [state EXCEPT ![h] = "closed"]
  /\ UNCHANGED once

Free(h) ==
  /\ busy = NULL
  /\ state[h] = "closed"
  /\ state' = [state EXCEPT ![h] = "free"]
  /\ once' = [once EXCEPT ![h] = FALSE]
  /\ UNCHANGED busy

(* A soft reset. *)
FreeArmed ==
  /\ busy = NULL
  /\ state' = [h \in Handle |-> IF state[h] = "armed" THEN "free" ELSE state[h]]
  /\ once' = [h \in Handle |-> once[h] /\ state[h] # "armed"]
  /\ UNCHANGED busy

Next ==
  \/ \E h \in Handle : Start(h) \/ Call(h) \/ Close(h) \/ Return(h) \/ Free(h)
  \/ FreeArmed

Spec == Init /\ [][Next]_svars
=============================================================================
