------------------------------- MODULE Storage -------------------------------
(***************************************************************************)
(* The persistent key-value store: the flash slots of storage.c and the    *)
(* sweep of storage.js.                                                    *)
(*                                                                         *)
(* A slot is one flash page and is programmed at once; between two flash   *)
(* operations the power may be cut, and between two native calls of the    *)
(* sweep Ctrl-C may abort the script.  A programmed slot is only erased    *)
(* together with all others.                                               *)
(***************************************************************************)
EXTENDS Integers, FiniteSets

CONSTANTS
  Key, Value,
  NONE,        (* null, and what an erased slot holds                      *)
  SlotCount,   (* SLOT_COUNT                                               *)
  Fits         (* the pairs of key and value no longer than SLOT_DATA_MAX  *)

ASSUME StorageAssumption ==
  /\ SlotCount \in Nat \ {0}
  /\ NONE \notin Key \cup Value
  /\ Fits \subseteq Key \X Value

Slot    == 0 .. SlotCount - 1
Entry   == [key : Key \cup {NONE}, value : Value \cup {NONE}]
NoEntry == [key |-> NONE, value |-> NONE]

VARIABLES
  status,   (* status byte of a slot: "EMPTY", "USE" or "REMOVED"        *)
  held,     (* the key and value a slot holds                            *)
  pc,       (* where the running call is                                 *)
  arg,      (* key and value of the running setItem                      *)
  found,    (* slot >= 0 in storage_set_item, called by the script       *)
  cache,    (* the variable cache of sweep                               *)
  todo,     (* keys of cache that are still to be stored again           *)
  refused   (* the last setItem threw ESTGFULL                           *)

flash == <<status, held>>
storageVars  == <<flash, pc, arg, found, cache, todo, refused>>

NoCache == [k \in Key |-> NONE]

StorageTypeOK ==
  /\ status \in [Slot -> {"EMPTY", "USE", "REMOVED"}]
  /\ held \in [Slot -> Entry]
  /\ \A s \in Slot : status[s] # "EMPTY" => held[s] \in [key : Key, value : Value]
  /\ pc \in {"idle", "place", "sweep", "rewrite", "again", "clear"}
  /\ arg \in Entry
  /\ found \in BOOLEAN
  /\ cache \in [Key -> Value \cup {NONE}]
  /\ todo \in SUBSET Key
  /\ refused \in BOOLEAN

StorageInit ==
  /\ status = [s \in Slot |-> "EMPTY"]
  /\ held = [s \in Slot |-> NoEntry]
  /\ pc = "idle" /\ arg = NoEntry /\ found = FALSE
  /\ cache = NoCache /\ todo = {} /\ refused = FALSE

-----------------------------------------------------------------------------
(* The reading functions. *)
InUse == {s \in Slot : status[s] = "USE"}

Holders(k) == {s \in InUse : held[s].key = k}

Least(S) == CHOOSE s \in S : \A t \in S : s <= t

(* slot_find; storage_get_value *)
GetItem(k) == IF Holders(k) = {} THEN NONE ELSE held[Least(Holders(k))].value

(* storage_get_item_count *)
Length == Cardinality(InUse)

(* slot_find_by_index, storage_get_key *)
KeyAt(i) ==
  LET pos(s) == Cardinality({t \in InUse : t < s})
  IN  held[CHOOSE s \in InUse : pos(s) = i].key

-----------------------------------------------------------------------------
(* A plausible bug: the old slot is not marked. *)
NotRetired(k) == status

(* storage_set_item: the slot of an existing key is marked as removed. *)
Retired(k) ==
  IF Holders(k) = {} THEN status
  ELSE [status EXCEPT ![Least(Holders(k))] = "REMOVED"]

(* slot_new after slots of status st. *)
Free(st) == {s \in Slot : st[s] = "EMPTY"}

(* storage_set_item: the first empty slot is written. *)
Program(st, k, v) ==
  /\ Free(st) # {}
  /\ status' = [st EXCEPT ![Least(Free(st))] = "USE"]
  /\ held' = [held EXCEPT ![Least(Free(st))] = [key |-> k, value |-> v]]

CallEnds(full) ==
  /\ pc' = "idle" /\ arg' = NoEntry /\ found' = FALSE
  /\ cache' = NoCache /\ todo' = {}
  /\ refused' = full

(* setItem(k, v); one that does not fit throws ESTGSIZE before anything. *)
SetItem(k, v) ==
  /\ pc = "idle"
  /\ <<k, v>> \in Fits
  /\ status' = Retired(k)
  /\ found' = (Holders(k) # {})
  /\ pc' = "place" /\ arg' = [key |-> k, value |-> v] /\ refused' = FALSE
  /\ UNCHANGED <<held, cache, todo>>

(* The new slot is written and setItem returns. *)
Place == pc \in {"place", "again"} /\ Program(status, arg.key, arg.value) /\ CallEnds(FALSE)

(* A plausible bug: storage.js does not sweep. *)
FullThrows ==
  /\ pc = "place" /\ Free(status) = {}
  /\ CallEnds(TRUE)
  /\ UNCHANGED flash

(* ESTGFULL: the first time the script sweeps, the second time it throws. *)
Full ==
  /\ pc = "place" /\ Free(status) = {}
  /\ pc' = "sweep"
  /\ UNCHANGED <<flash, arg, found, cache, todo, refused>>

FullAgain ==
  /\ pc = "again" /\ Free(status) = {}
  /\ CallEnds(TRUE)
  /\ UNCHANGED flash

Erase ==
  /\ status' = [s \in Slot |-> "EMPTY"]
  /\ held' = [s \in Slot |-> NoEntry]

(* A plausible bug: the last item is not read. *)
SweepShort ==
  /\ pc = "sweep"
  /\ LET keys == {KeyAt(i) : i \in 0 .. Length - 2} IN
     /\ cache' = [k \in Key |-> IF k \in keys THEN GetItem(k) ELSE NONE]
     /\ todo' = keys
  /\ Erase
  /\ pc' = "rewrite"
  /\ UNCHANGED <<arg, found, refused>>

(* A plausible bug: the items are read after the erase. *)
SweepErasesFirst ==
  /\ pc = "sweep"
  /\ cache' = NoCache
  /\ todo' = {KeyAt(i) : i \in 0 .. Length - 1}
  /\ Erase
  /\ pc' = "rewrite"
  /\ UNCHANGED <<arg, found, refused>>

(* sweep: every item is read through key(i) and getItem, then storage_clear
   erases the sectors. *)
Sweep ==
  /\ pc = "sweep"
  /\ LET keys == {KeyAt(i) : i \in 0 .. Length - 1} IN
     /\ cache' = [k \in Key |-> IF k \in keys THEN GetItem(k) ELSE NONE]
     /\ todo' = keys
  /\ Erase
  /\ pc' = "rewrite"
  /\ UNCHANGED <<arg, found, refused>>

(* sweep: an item is stored again by the native setItem.  The order is that
   of Object.keys, any order here; an error would leave the catch block. *)
Rewrite(k) ==
  /\ pc = "rewrite"
  /\ k \in todo
  /\ IF Free(Retired(k)) # {}
     THEN /\ Program(Retired(k), k, cache[k])
          /\ todo' = todo \ {k}
          /\ UNCHANGED <<pc, arg, found, cache, refused>>
     ELSE CallEnds(TRUE) /\ UNCHANGED flash

(* The sweep is over and the native setItem is called again: its key was
   retired before the sweep or was not stored at all. *)
SweepEnds ==
  /\ pc = "rewrite"
  /\ todo = {}
  /\ status' = Retired(arg.key)
  /\ pc' = "again"
  /\ UNCHANGED <<held, arg, found, cache, todo, refused>>

RemoveItem(k) ==
  /\ pc = "idle"
  /\ Holders(k) # {}
  /\ status' = [status EXCEPT ![Least(Holders(k))] = "REMOVED"]
  /\ refused' = FALSE
  /\ UNCHANGED <<held, pc, arg, found, cache, todo>>

Clear ==
  /\ pc = "idle"
  /\ pc' = "clear" /\ refused' = FALSE
  /\ UNCHANGED <<flash, arg, found, cache, todo>>

ClearEnds == pc = "clear" /\ Erase /\ CallEnds(FALSE)

(* The power is cut, or Ctrl-C stops the script between two native calls. *)
CutOff == pc # "idle" /\ CallEnds(FALSE) /\ UNCHANGED flash

(* The power is cut while the sectors are erased one after the other. *)
CutErase(n) ==
  /\ pc \in {"sweep", "clear"}
  /\ status' = [s \in Slot |-> IF s < n THEN "EMPTY" ELSE status[s]]
  /\ held' = [s \in Slot |-> IF s < n THEN NoEntry ELSE held[s]]
  /\ CallEnds(FALSE)

StorageNext ==
  \/ \E k \in Key, v \in Value : SetItem(k, v)
  \/ Place \/ Full \/ FullAgain \/ Sweep
  \/ \E k \in Key : Rewrite(k)
  \/ SweepEnds
  \/ \E k \in Key : RemoveItem(k)
  \/ Clear \/ ClearEnds \/ CutOff
  \/ \E n \in Slot : CutErase(n)

StorageSpec == StorageInit /\ [][StorageNext]_storageVars

-----------------------------------------------------------------------------
(* A key is in use in at most one slot, at every moment a power cut could
   make the next boot's: getItem and key(i) can never disagree. *)
OneSlotPerKey ==
  \A s, t \in InUse : held[s].key = held[t].key => s = t

(* setItem throws ESTGFULL only when every slot is in use: removed slots,
   which only the sweep gives back, never make it fail. *)
RefusesOnlyWhenFull ==
  refused => InUse = Slot

(* What a script would read if the running call were finished. *)
Seen ==
  [k \in Key |-> IF found /\ k = arg.key THEN arg.value
                 ELSE IF pc = "rewrite" THEN cache[k]
                 ELSE GetItem(k)]

Store ==
  INSTANCE KeyValue WITH
    Capacity <- SlotCount,
    items <- Seen,
    doing <- CASE pc = "idle" -> "nothing"
               [] pc = "place" -> "setting"
               [] pc = "clear" -> "clearing"
               [] OTHER -> "tidying",
    arg <- arg

(* The slots implement the dictionary of KeyValue, power cuts included. *)
ImplementsStore == Store!Spec
=============================================================================
