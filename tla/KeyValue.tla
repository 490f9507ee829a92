------------------------------- MODULE KeyValue -------------------------------
(***************************************************************************)
(* What the storage module promises to scripts: a dictionary of bounded    *)
(* capacity whose setItem takes effect at one moment, and what it promises *)
(* of a power cut or an abort in the middle of a call.  Module Storage     *)
(* implements it on flash slots.                                           *)
(***************************************************************************)
EXTENDS Integers, FiniteSets

CONSTANTS Key, Value, NONE, Capacity

VARIABLES
  items,   (* what getItem returns, NONE for null                   *)
  doing,   (* "nothing", "setting", "tidying" or "clearing"         *)
  arg      (* the key and value of the setItem being carried out    *)

kvars == <<items, doing, arg>>

Nothing == [key |-> NONE, value |-> NONE]
Empty   == [k \in Key |-> NONE]
Held    == {k \in Key : items[k] # NONE}
Put     == [items EXCEPT ![arg.key] = arg.value]

Init == items = Empty /\ doing = "nothing" /\ arg = Nothing

(* The new value of a key that exists is visible from here on. *)
Set(k, v) ==
  /\ doing = "nothing"
  /\ doing' = "setting"
  /\ arg' = [key |-> k, value |-> v]
  /\ items' = IF items[k] = NONE THEN items ELSE [items EXCEPT ![k] = v]

(* Removed entries are swept out of the flash; nobody notices. *)
Tidy ==
  /\ doing = "setting"
  /\ doing' = "tidying"
  /\ UNCHANGED <<items, arg>>

Done == doing' = "nothing" /\ arg' = Nothing

(* A new key is there when the call returns. *)
SetEnds ==
  /\ doing \in {"setting", "tidying"}
  /\ items' = Put
  /\ Done

(* Only a new key is ever refused, and only by a full store. *)
Refused ==
  /\ doing = "tidying"
  /\ items[arg.key] = NONE
  /\ Cardinality(Held) = Capacity
  /\ Done
  /\ UNCHANGED items

Remove(k) ==
  /\ doing = "nothing"
  /\ items' = [items EXCEPT ![k] = NONE]
  /\ UNCHANGED <<doing, arg>>

Clear    == doing = "nothing" /\ doing' = "clearing" /\ UNCHANGED <<items, arg>>
ClearEnds == doing = "clearing" /\ items' = Empty /\ Done

(* A call that is cut off costs the key it was setting, all keys if it was
   tidying or clearing; no key ever gets another value back. *)
CutOff ==
  /\ doing # "nothing"
  /\ \E lost \in SUBSET (IF doing = "setting" THEN {arg.key} ELSE Key) :
       items' = [k \in Key |-> IF k \in lost THEN NONE ELSE items[k]]
  /\ Done

Next ==
  \/ \E k \in Key : Remove(k) \/ \E v \in Value : Set(k, v)
  \/ Tidy \/ SetEnds \/ Refused \/ Clear \/ ClearEnds \/ CutOff

Spec == Init /\ [][Next]_kvars
=============================================================================
