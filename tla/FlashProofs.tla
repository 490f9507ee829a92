---------------------------- MODULE FlashProofs ----------------------------
(***************************************************************************)
(* The two users of the flash.                                             *)
(*                                                                         *)
(* The storage: the store never holds a key twice, and its slots implement *)
(* a map from keys to values, whatever the number of slots, the keys and   *)
(* the moments of power cuts.                                              *)
(*                                                                         *)
(* The upload: in a session of one file of any size, over a line that      *)
(* loses, damages and delays packets and replies, no byte is stored at a   *)
(* wrong place, Done is printed only when the file can be read back, and   *)
(* only a file without room for its end of string is refused.  In every    *)
(* session a byte of the flash is programmed once.                         *)
(***************************************************************************)
EXTENDS Storage, Ymodem, FiniteSetTheorems, WellFoundedInduction, TLAPS

-----------------------------------------------------------------------------
(* A non-empty set of natural numbers has a least element. *)
LEMMA LeastIsLeast ==
  ASSUME NEW S \in SUBSET Nat, S # {}
  PROVE  Least(S) \in S /\ \A t \in S : Least(S) <= t
<1> DEFINE R == {p \in Nat \X Nat : p[1] < p[2]}
<1>1. \E s \in S : \A t \in S : ~ (<<t, s>> \in R)
  <2>1. IsWellFoundedOn(R, Nat)
    BY NatLessThanWellFounded DEF OpToRel
  <2> HIDE DEF R
  <2> QED BY <2>1, WFMin
<1>2. \A s, t \in S : ~ (<<t, s>> \in R) => s <= t
  OBVIOUS
<1>3. \E s \in S : \A t \in S : s <= t
  <2> HIDE DEF R
  <2> QED BY <1>1, <1>2
<1> QED BY <1>3 DEF Least

(* The members of a finite set of numbers can be counted from below: the
   loop of slot_find_by_index finds a slot for every index below the count. *)
LEMMA Enumerates ==
  ASSUME NEW U \in SUBSET Nat, IsFiniteSet(U), NEW i \in 0 .. Cardinality(U) - 1
  PROVE  \E s \in U : Cardinality({t \in U : t < s}) = i
<1> DEFINE Below(s) == {t \in U : t < s}
           Bad == {j \in 0 .. Cardinality(U) - 1 : \A s \in U : Cardinality(Below(s)) # j}
<1>0. /\ Cardinality(U) \in Nat
      /\ \A s \in U : s \in Nat /\ IsFiniteSet(Below(s)) /\ Below(s) \subseteq U
  BY FS_CardinalityType, FS_Subset
<1>1. SUFFICES ASSUME Bad # {} PROVE FALSE
  BY <1>0
<1>2. PICK j \in Bad : \A k \in Bad : j <= k
  <2>1. Bad \in SUBSET Nat
    BY <1>0
  <2> HIDE DEF Bad
  <2> QED BY <1>1, <2>1, LeastIsLeast
<1>3. U # {}
  BY <1>2, FS_EmptySet
<1>4. CASE j = 0
  <2>1. PICK s \in U : \A t \in U : s <= t
    BY <1>3, LeastIsLeast
  <2>2. \A t \in U : ~ (t < s)
    BY <2>1
  <2>3. Below(s) = {}
    BY <2>2
  <2> QED BY <1>2, <1>4, <2>1, <2>3, FS_EmptySet
<1>5. CASE j # 0
  <2>1. j - 1 \in 0 .. Cardinality(U) - 1 /\ j - 1 \notin Bad
    BY <1>0, <1>2, <1>5
  <2>2. PICK s \in U : Cardinality(Below(s)) = j - 1
    BY <2>1
  <2>3. s \notin Below(s) /\ IsFiniteSet(Below(s))
    BY <1>0
  <2>4. Cardinality(Below(s) \cup {s}) = j
    <3>1. j \in Nat
      BY <1>0, <1>2
    <3> DEFINE B == Below(s)
    <3>2. IsFiniteSet(B) /\ s \notin B /\ Cardinality(B) = j - 1
      BY <2>2, <2>3
    <3> HIDE DEF B
    <3>3. Cardinality(B \cup {s}) = Cardinality(B) + 1
      BY <3>2, FS_AddElement
    <3> QED BY <3>1, <3>2, <3>3 DEF B
  <2>5. CASE \E t \in U : s < t
    <3>1. PICK n \in {t \in U : s < t} : \A t \in {u \in U : s < u} : n <= t
      BY <2>5, LeastIsLeast
    <3>2. \A t \in U : t < n <=> t < s \/ t = s
      BY <3>1, <2>2, <1>0
    <3>3. Below(n) = Below(s) \cup {s}
      BY <3>2, <2>2
    <3> QED BY <3>1, <3>3, <2>4, <1>2
  <2>6. CASE ~ \E t \in U : s < t
    <3>1. \A t \in U : t < s \/ t = s
      BY <2>6, <2>2, <1>0
    <3>2. U = Below(s) \cup {s}
      BY <3>1, <2>2
    <3> QED BY <3>2, <2>4, <1>0, <1>2
  <2> QED BY <2>5, <2>6
<1> QED BY <1>4, <1>5
-----------------------------------------------------------------------------
Status == {"EMPTY", "USE", "REMOVED"}

(* No slot in use holds k. *)
Absent(k) == \A s \in Slot : status[s] = "USE" => held[s].key # k

(* What a running setItem knows of its key. *)
Setting ==
  pc \in {"place", "sweep", "rewrite", "again"} =>
    arg \in [key : Key, value : Value] /\ Absent(arg.key)

(* After the erase of the sweep there are only empty slots and slots in use,
   and a key is stored again once. *)
Swept ==
  /\ pc \in {"rewrite", "again"} => \A s \in Slot : status[s] # "REMOVED"
  /\ pc = "rewrite" => \A k \in todo : Absent(k) /\ cache[k] \in Value /\ k # arg.key

(* The result of a call is there when no other is running. *)
Returned == refused => pc = "idle"

StorageInv == StorageTypeOK /\ OneSlotPerKey /\ Setting /\ Swept /\ Returned /\ RefusesOnlyWhenFull

LEMMA HolderFound ==
  ASSUME StorageTypeOK, NEW k \in Key
  PROVE  /\ Holders(k) = {} <=> Absent(k)
         /\ Holders(k) # {} => /\ Least(Holders(k)) \in Slot
                               /\ status[Least(Holders(k))] = "USE"
                               /\ held[Least(Holders(k))].key = k
<1>1. Holders(k) \in SUBSET Nat /\ Holders(k) \subseteq Slot
  BY StorageAssumption DEF Holders, InUse, Slot
<1>2. Holders(k) # {} => Least(Holders(k)) \in Holders(k)
  BY <1>1, LeastIsLeast
<1>3. \A s : s \in Holders(k) <=> s \in Slot /\ status[s] = "USE" /\ held[s].key = k
  BY DEF Holders, InUse
<1> QED BY <1>1, <1>2, <1>3 DEF Absent

LEMMA FreeFound ==
  ASSUME NEW st, Free(st) # {}
  PROVE  Least(Free(st)) \in Slot /\ st[Least(Free(st))] = "EMPTY"
<1>1. Free(st) \in SUBSET Nat
  BY StorageAssumption DEF Free, Slot
<1>2. Least(Free(st)) \in Free(st)
  BY <1>1, LeastIsLeast
<1> QED BY <1>2 DEF Free

(* Marking the slot of a key leaves no other slot in use with that key. *)
LEMMA RetiredFacts ==
  ASSUME StorageTypeOK, OneSlotPerKey, NEW k \in Key
  PROVE  /\ Retired(k) \in [Slot -> Status]
         /\ \A s \in Slot : Retired(k)[s] = "USE" <=> status[s] = "USE" /\ held[s].key # k
         /\ \A s \in Slot : Retired(k)[s] = "EMPTY" <=> status[s] = "EMPTY"
         /\ Absent(k) => Retired(k) = status
<1>1. CASE Holders(k) = {}
  BY <1>1, HolderFound DEF Retired, StorageTypeOK, Absent, Status
<1>2. CASE Holders(k) # {}
  <2> DEFINE n == Least(Holders(k))
  <2>1. n \in Slot /\ status[n] = "USE" /\ held[n].key = k /\ ~ Absent(k)
    BY <1>2, HolderFound
  <2>2. Retired(k) = [status EXCEPT ![n] = "REMOVED"]
    BY <1>2 DEF Retired
  <2> HIDE DEF n
  <2>3. \A s \in Slot : status[s] = "USE" /\ held[s].key = k => s = n
    BY <2>1 DEF OneSlotPerKey, InUse
  <2> QED BY <2>1, <2>2, <2>3 DEF StorageTypeOK, Status
<1> QED BY <1>1, <1>2

(* A slot that is written was empty. *)
LEMMA ProgramFacts ==
  ASSUME NEW st, NEW k, NEW v, Program(st, k, v)
  PROVE  \E n \in Slot : /\ st[n] = "EMPTY"
                         /\ status' = [st EXCEPT ![n] = "USE"]
                         /\ held' = [held EXCEPT ![n] = [key |-> k, value |-> v]]
BY FreeFound DEF Program

(* Storing a key that is absent after st keeps one slot per key. *)
LEMMA ProgramKeeps ==
  ASSUME StorageTypeOK, NEW st \in [Slot -> Status], NEW k \in Key, NEW v \in Value, Program(st, k, v),
         \A s \in Slot : st[s] = "EMPTY" <=> status[s] = "EMPTY",
         \A s \in Slot : st[s] = "USE" <=> status[s] = "USE" /\ held[s].key # k,
         OneSlotPerKey
  PROVE  /\ status' \in [Slot -> Status] /\ held' \in [Slot -> Entry]
         /\ \A s \in Slot : status'[s] # "EMPTY" => held'[s] \in [key : Key, value : Value]
         /\ OneSlotPerKey'
         /\ \A s \in Slot : status'[s] = "USE" =>
               held'[s].key = k \/ (status[s] = "USE" /\ held'[s].key = held[s].key)
         /\ \A s \in Slot : st[s] # "REMOVED" => status'[s] # "REMOVED"
<1>1. PICK n \in Slot : /\ st[n] = "EMPTY"
                       /\ status' = [st EXCEPT ![n] = "USE"]
                       /\ held' = [held EXCEPT ![n] = [key |-> k, value |-> v]]
  BY ProgramFacts
<1>2. /\ status' \in [Slot -> Status] /\ held' \in [Slot -> Entry]
      /\ status'[n] = "USE" /\ held'[n] = [key |-> k, value |-> v]
      /\ \A s \in Slot : s # n => status'[s] = st[s] /\ held'[s] = held[s]
  BY <1>1 DEF StorageTypeOK, Status, Entry
<1>3. \A s \in Slot : status'[s] # "EMPTY" => held'[s] \in [key : Key, value : Value]
  BY <1>2 DEF StorageTypeOK
<1>4. \A s \in Slot : s # n /\ status'[s] = "USE" => /\ status[s] = "USE" /\ held[s].key # k
                                                    /\ held'[s] = held[s]
  BY <1>2
<1>5. held'[n].key = k
  BY <1>2
<1>6. OneSlotPerKey'
  BY <1>4, <1>5 DEF OneSlotPerKey, InUse
<1> QED BY <1>1, <1>2, <1>3, <1>4, <1>5, <1>6

(* key(i) of an index below length is the key of a slot in use. *)
LEMMA KeyAtInUse ==
  ASSUME StorageTypeOK, NEW i \in 0 .. Length - 1
  PROVE  \E s \in InUse : KeyAt(i) = held[s].key
<1>1. InUse \in SUBSET Nat /\ IsFiniteSet(InUse)
  <2>1. IsFiniteSet(Slot) /\ InUse \subseteq Slot /\ Slot \subseteq Nat
    BY StorageAssumption, FS_Interval DEF InUse, Slot
  <2> QED BY <2>1, FS_Subset
<1>2. \E s \in InUse : Cardinality({t \in InUse : t < s}) = i
  BY <1>1, Enumerates DEF Length
<1> QED BY <1>2 DEF KeyAt

LEMMA StorageStart == StorageInit => StorageInv
<1> SUFFICES ASSUME StorageInit PROVE StorageInv
  OBVIOUS
<1>1. \A s \in Slot : status[s] = "EMPTY"
  BY DEF StorageInit
<1>2. StorageTypeOK
  BY DEF StorageInit, StorageTypeOK, Entry, NoEntry, NoCache
<1>3. OneSlotPerKey
  BY <1>1 DEF OneSlotPerKey, InUse
<1> QED BY <1>2, <1>3 DEF StorageInit, StorageInv, Setting, Swept, Returned, RefusesOnlyWhenFull

(* The end of a call changes no slot or all of them. *)
LEMMA ReturnKeeps ==
  ASSUME StorageInv, NEW full \in BOOLEAN, CallEnds(full), full => InUse' = Slot,
         status' \in [Slot -> Status], held' \in [Slot -> Entry],
         \A s \in Slot : status'[s] # "EMPTY" => held'[s] \in [key : Key, value : Value],
         OneSlotPerKey'
  PROVE  StorageInv'
<1>1. StorageTypeOK'
  BY DEF StorageInv, CallEnds, StorageTypeOK, Status, Entry, NoEntry, NoCache
<1>2. Setting' /\ Swept' /\ Returned' /\ RefusesOnlyWhenFull'
  BY DEF CallEnds, Setting, Swept, Returned, RefusesOnlyWhenFull
<1> QED BY <1>1, <1>2 DEF StorageInv

LEMMA StorageStep == StorageInv /\ [StorageNext]_storageVars => StorageInv'
<1> SUFFICES ASSUME StorageInv, [StorageNext]_storageVars PROVE StorageInv'
  OBVIOUS
<1>0. StorageTypeOK /\ OneSlotPerKey /\ Setting /\ Swept /\ Returned /\ RefusesOnlyWhenFull
  BY DEF StorageInv
<1>a. /\ \A s \in Slot : status[s] # "EMPTY" => held[s] \in [key : Key, value : Value]
      /\ status \in [Slot -> Status] /\ held \in [Slot -> Entry]
  BY <1>0 DEF StorageTypeOK, Status
<1>1. ASSUME NEW k \in Key, NEW v \in Value, SetItem(k, v) PROVE StorageInv'
  <2>1. /\ status' = Retired(k) /\ held' = held /\ pc' = "place" /\ refused' = FALSE
        /\ arg' = [key |-> k, value |-> v] /\ UNCHANGED <<cache, todo>> /\ found' \in BOOLEAN
    BY <1>1 DEF SetItem
  <2>2. /\ status' \in [Slot -> Status]
        /\ \A s \in Slot : status'[s] = "USE" => status[s] = "USE" /\ held[s].key # k
        /\ \A s \in Slot : status'[s] # "EMPTY" => status[s] # "EMPTY"
    BY <2>1, <1>0, RetiredFacts
  <2>3. StorageTypeOK'
    BY <2>1, <2>2, <1>0 DEF StorageTypeOK, Status, Entry
  <2>4. OneSlotPerKey' /\ Setting'
    BY <2>1, <2>2, <1>0 DEF OneSlotPerKey, InUse, Setting, Absent
  <2> QED BY <2>1, <2>3, <2>4 DEF StorageInv, Swept, Returned, RefusesOnlyWhenFull
<1>2. CASE Place
  <2>1. Program(status, arg.key, arg.value) /\ CallEnds(FALSE)
    BY <1>2 DEF Place
  <2>2. arg.key \in Key /\ arg.value \in Value /\ Absent(arg.key)
    BY <1>2, <1>0 DEF Place, Setting
  <2>3. \A s \in Slot : status[s] = "USE" <=> status[s] = "USE" /\ held[s].key # arg.key
    BY <2>2 DEF Absent
  <2>4. /\ status' \in [Slot -> Status] /\ held' \in [Slot -> Entry] /\ OneSlotPerKey'
        /\ \A s \in Slot : status'[s] # "EMPTY" => held'[s] \in [key : Key, value : Value]
    BY <2>1, <2>2, <2>3, <1>0, <1>a, ProgramKeeps
  <2> QED BY <2>1, <2>4, ReturnKeeps
<1>3. CASE Full
  BY <1>0, <1>3 DEF Full, flash, StorageInv, StorageTypeOK, OneSlotPerKey, InUse, Setting, Swept,
     Returned, RefusesOnlyWhenFull, Absent
<1>4. CASE FullAgain
  <2>1. \A s \in Slot : status[s] = "USE"
    BY <1>0, <1>4 DEF FullAgain, Free, Swept, StorageTypeOK
  <2>2. InUse' = Slot /\ OneSlotPerKey' /\ UNCHANGED <<status, held>>
    BY <2>1, <1>0, <1>4 DEF FullAgain, flash, InUse, OneSlotPerKey
  <2> QED BY <1>4, <2>2, <1>a, ReturnKeeps DEF FullAgain
<1>5. CASE Sweep
  <2> DEFINE keys == {KeyAt(i) : i \in 0 .. Length - 1}
  <2>1. /\ pc = "sweep" /\ pc' = "rewrite" /\ todo' = keys
        /\ cache' = [k \in Key |-> IF k \in keys THEN GetItem(k) ELSE NONE]
        /\ status' = [s \in Slot |-> "EMPTY"] /\ held' = [s \in Slot |-> NoEntry]
        /\ UNCHANGED <<arg, found, refused>>
    BY <1>5 DEF Sweep, Erase
  <2>2. ASSUME NEW k \in keys PROVE k \in Key /\ k # arg.key /\ GetItem(k) \in Value
    <3>1. PICK s \in InUse : k = held[s].key
      BY <1>0, KeyAtInUse
    <3>2. k \in Key /\ ~ Absent(k) /\ k # arg.key
      BY <3>1, <1>0, <1>a, <2>1 DEF InUse, Absent, Setting
    <3>3. Holders(k) # {} /\ Least(Holders(k)) \in Slot /\ status[Least(Holders(k))] = "USE"
      BY <3>2, <1>0, HolderFound
    <3> QED BY <3>2, <3>3, <1>a DEF GetItem
  <2> HIDE DEF keys
  <2>3. StorageTypeOK'
    BY <1>0, <2>1, <2>2 DEF StorageTypeOK, Entry, NoEntry
  <2>4. OneSlotPerKey' /\ Setting' /\ Swept'
    BY <1>0, <2>1, <2>2 DEF OneSlotPerKey, InUse, Setting, Swept, Absent, StorageTypeOK
  <2>5. refused' = FALSE
    BY <1>0, <2>1 DEF Returned, StorageTypeOK
  <2> QED BY <2>3, <2>4, <2>5 DEF StorageInv, Returned, RefusesOnlyWhenFull
<1>6. ASSUME NEW k \in Key, Rewrite(k) PROVE StorageInv'
  <2>1. /\ pc = "rewrite" /\ k \in todo /\ k # arg.key /\ cache[k] \in Value
        /\ arg \in [key : Key, value : Value] /\ Absent(k) /\ Absent(arg.key)
        /\ \A s \in Slot : status[s] # "REMOVED"
    BY <1>0, <1>6 DEF Rewrite, Swept, Setting
  <2>2. Retired(k) = status
    BY <2>1, <1>0, RetiredFacts
  <2>3. CASE Free(status) # {}
    <3>1. /\ Program(status, k, cache[k]) /\ todo' = todo \ {k}
          /\ UNCHANGED <<pc, arg, found, cache, refused>>
      BY <1>6, <2>2, <2>3 DEF Rewrite
    <3>2. \A s \in Slot : status[s] = "USE" <=> status[s] = "USE" /\ held[s].key # k
      BY <2>1 DEF Absent
    <3>3. /\ status' \in [Slot -> Status] /\ held' \in [Slot -> Entry] /\ OneSlotPerKey'
          /\ \A s \in Slot : status'[s] # "EMPTY" => held'[s] \in [key : Key, value : Value]
          /\ \A s \in Slot : status'[s] = "USE" =>
                held'[s].key = k \/ (status[s] = "USE" /\ held'[s].key = held[s].key)
          /\ \A s \in Slot : status[s] # "REMOVED" => status'[s] # "REMOVED"
      BY <3>1, <3>2, <2>1, <1>0, <1>a, ProgramKeeps
    <3>4. StorageTypeOK'
      BY <3>1, <3>3, <1>0 DEF StorageTypeOK, Status
    <3>5. ASSUME NEW j, j # k, Absent(j) PROVE Absent(j)'
      BY <3>3, <3>5 DEF Absent
    <3>6. Setting'
      BY <3>1, <3>5, <2>1 DEF Setting
    <3>7. Swept'
      BY <3>1, <3>3, <3>5, <2>1, <1>0 DEF Swept
    <3> QED BY <3>1, <3>3, <3>4, <3>6, <3>7, <2>1, <1>0 DEF StorageInv, Returned, RefusesOnlyWhenFull
  <2>4. CASE Free(status) = {}
    <3>1. CallEnds(TRUE) /\ UNCHANGED <<status, held>>
      BY <1>6, <2>2, <2>4 DEF Rewrite, flash
    <3>2. \A s \in Slot : status[s] = "USE"
      BY <2>1, <2>4, <1>a DEF Free, Status
    <3>3. InUse' = Slot /\ OneSlotPerKey'
      BY <3>1, <3>2, <1>0 DEF InUse, OneSlotPerKey
    <3> QED BY <3>1, <3>3, <1>a, ReturnKeeps
  <2> QED BY <2>3, <2>4
<1>7. CASE SweepEnds
  <2>1. /\ pc = "rewrite" /\ pc' = "again" /\ status' = Retired(arg.key)
        /\ UNCHANGED <<held, arg, found, cache, todo, refused>>
    BY <1>7 DEF SweepEnds
  <2>2. arg.key \in Key /\ Retired(arg.key) = status
    BY <2>1, <1>0, RetiredFacts DEF Setting
  <2> QED BY <2>1, <2>2, <1>0 DEF StorageInv, StorageTypeOK, OneSlotPerKey, InUse, Setting, Swept,
        Returned, RefusesOnlyWhenFull, Absent
<1>8. ASSUME NEW k \in Key, RemoveItem(k) PROVE StorageInv'
  <2>1. /\ pc = "idle" /\ status' = Retired(k) /\ refused' = FALSE
        /\ UNCHANGED <<held, pc, arg, found, cache, todo>>
    BY <1>8 DEF RemoveItem, Retired
  <2>2. /\ status' \in [Slot -> Status]
        /\ \A s \in Slot : status'[s] = "USE" => status[s] = "USE"
        /\ \A s \in Slot : status'[s] # "EMPTY" => status[s] # "EMPTY"
    BY <2>1, <1>0, RetiredFacts
  <2>3. StorageTypeOK' /\ OneSlotPerKey'
    BY <2>1, <2>2, <1>0 DEF StorageTypeOK, Status, OneSlotPerKey, InUse
  <2> QED BY <2>1, <2>3 DEF StorageInv, Setting, Swept, Returned, RefusesOnlyWhenFull
<1>9. CASE Clear
  BY <1>0, <1>9 DEF Clear, flash, StorageInv, StorageTypeOK, OneSlotPerKey, InUse, Setting, Swept,
     Returned, RefusesOnlyWhenFull
<1>10. CASE ClearEnds
  <2>1. /\ CallEnds(FALSE) /\ status' = [s \in Slot |-> "EMPTY"] /\ held' = [s \in Slot |-> NoEntry]
    BY <1>10 DEF ClearEnds, Erase
  <2>2. /\ status' \in [Slot -> Status] /\ held' \in [Slot -> Entry] /\ OneSlotPerKey'
        /\ \A s \in Slot : status'[s] # "EMPTY" => held'[s] \in [key : Key, value : Value]
    BY <2>1 DEF Status, Entry, NoEntry, OneSlotPerKey, InUse
  <2> QED BY <2>1, <2>2, ReturnKeeps
<1>11. CASE CutOff
  <2>1. CallEnds(FALSE) /\ UNCHANGED <<status, held>>
    BY <1>11 DEF CutOff, flash
  <2>2. OneSlotPerKey'
    BY <2>1, <1>0 DEF OneSlotPerKey, InUse
  <2> QED BY <2>1, <2>2, <1>a, ReturnKeeps
<1>12. ASSUME NEW n \in Slot, CutErase(n) PROVE StorageInv'
  <2>1. /\ CallEnds(FALSE)
        /\ status' = [s \in Slot |-> IF s < n THEN "EMPTY" ELSE status[s]]
        /\ held' = [s \in Slot |-> IF s < n THEN NoEntry ELSE held[s]]
    BY <1>12 DEF CutErase
  <2>2. \A s \in Slot : status'[s] # "EMPTY" => status'[s] = status[s] /\ held'[s] = held[s]
    BY <2>1
  <2>3. status' \in [Slot -> Status] /\ held' \in [Slot -> Entry]
    BY <2>1, <1>a DEF Status, Entry, NoEntry
  <2>4. OneSlotPerKey'
    BY <2>2, <1>0 DEF OneSlotPerKey, InUse
  <2> QED BY <2>1, <2>2, <2>3, <2>4, <1>a, ReturnKeeps
<1>13. CASE UNCHANGED storageVars
  BY <1>0, <1>13 DEF storageVars, flash, StorageInv, StorageTypeOK, OneSlotPerKey, InUse, Setting, Swept,
     Returned, RefusesOnlyWhenFull, Absent
<1> QED BY <1>1, <1>2, <1>3, <1>4, <1>5, <1>6, <1>7, <1>8, <1>9, <1>10, <1>11, <1>12, <1>13 DEF StorageNext

(* The slots are well typed, the running call knows its key is in no slot
   in use, and so every state of the store satisfies StorageInv. *)
THEOREM StoreInvariance == StorageSpec => []StorageInv
BY StorageStart, StorageStep, PTL DEF StorageSpec

(* What the slots and the running call of storage.c hold is well typed. *)
THEOREM StoreTypeCorrect == StorageSpec => []StorageTypeOK
<1>1. StorageInv => StorageTypeOK
  BY DEF StorageInv
<1> QED BY <1>1, StoreInvariance, PTL

(* storage_set_item and the sweep never leave a key in use in two slots,
   wherever the power is cut. *)
THEOREM OneSlotPerKeyAlways == StorageSpec => []OneSlotPerKey
<1>1. StorageInv => OneSlotPerKey
  BY DEF StorageInv
<1> QED BY <1>1, StoreInvariance, PTL

(* setItem of storage.js throws ESTGFULL only when every slot is in use. *)
THEOREM RefusedOnlyByFull == StorageSpec => []RefusesOnlyWhenFull
<1>1. StorageInv => RefusesOnlyWhenFull
  BY DEF StorageInv
<1> QED BY <1>1, StoreInvariance, PTL

-----------------------------------------------------------------------------
(***************************************************************************)
(* The slots implement the dictionary KeyValue.                            *)
(***************************************************************************)

(* Only a running setItem replaces a key; before the erase of a sweep the
   slot it has retired is still there, so that a slot will be free for it. *)
Replacing ==
  /\ found => pc \in {"place", "sweep", "rewrite", "again"}
  /\ found /\ pc \in {"place", "sweep"} => InUse # Slot
  /\ found /\ pc = "again" => Free(status) # {}

(* While items are rewritten, the cache is what the store held: an item is in
   a slot or still to be written, and free slots are left for all of these
   and for the key that is replaced. *)
Rewriting ==
  pc = "rewrite" =>
    /\ \A s \in Slot : status[s] = "USE" => cache[held[s].key] = held[s].value
    /\ \A k \in Key : Absent(k) /\ k \notin todo => cache[k] = NONE
    /\ IsFiniteSet(todo)
    /\ Cardinality(todo) + (IF found THEN 1 ELSE 0) <= Cardinality(Free(status))

TidyInv == StorageInv /\ Replacing /\ Rewriting

(* What getItem returns for slots of status st that hold hd. *)
ItemIn(st, hd, k) ==
  LET H == {s \in Slot : st[s] = "USE" /\ hd[s].key = k}
  IN  IF H = {} THEN NONE ELSE hd[Least(H)].value

OneEach(st, hd) ==
  \A s, t \in Slot : st[s] = "USE" /\ st[t] = "USE" /\ hd[s].key = hd[t].key => s = t

LEMMA GetItemIs ==
  ASSUME NEW k
  PROVE  /\ GetItem(k) = ItemIn(status, held, k)
         /\ GetItem(k)' = ItemIn(status', held', k)
<1>1. /\ Holders(k) = {s \in Slot : status[s] = "USE" /\ held[s].key = k}
      /\ Holders(k)' = {s \in Slot : status'[s] = "USE" /\ held'[s].key = k}
  BY DEF Holders, InUse
<1> QED BY <1>1 DEF GetItem, ItemIn

LEMMA OneEachIs == (OneSlotPerKey => OneEach(status, held)) /\ (OneSlotPerKey' => OneEach(status', held'))
BY DEF OneSlotPerKey, InUse, OneEach

(* The item of a key is that of the slot in use with the key. *)
LEMMA ItemFacts ==
  ASSUME NEW st, NEW hd, NEW k, OneEach(st, hd)
  PROVE  /\ \A s \in Slot : st[s] = "USE" /\ hd[s].key = k => ItemIn(st, hd, k) = hd[s].value
         /\ (\A s \in Slot : st[s] = "USE" => hd[s].key # k) => ItemIn(st, hd, k) = NONE
<1> DEFINE H == {s \in Slot : st[s] = "USE" /\ hd[s].key = k}
<1>1. ItemIn(st, hd, k) = IF H = {} THEN NONE ELSE hd[Least(H)].value
  BY DEF ItemIn
<1>2. H # {} => Least(H) \in H
  <2>1. H \in SUBSET Nat
    BY StorageAssumption DEF Slot
  <2> HIDE DEF H
  <2> QED BY <2>1, LeastIsLeast
<1>3. \A s : s \in H <=> s \in Slot /\ st[s] = "USE" /\ hd[s].key = k
  OBVIOUS
<1> HIDE DEF H
<1>4. ASSUME NEW s \in H PROVE ItemIn(st, hd, k) = hd[s].value
  <2>1. Least(H) = s
    BY <1>2, <1>3 DEF OneEach
  <2> QED BY <1>1, <2>1
<1>5. (\A s \in Slot : st[s] = "USE" => hd[s].key # k) => H = {}
  BY <1>3
<1> QED BY <1>1, <1>3, <1>4, <1>5

LEMMA ItemType ==
  ASSUME StorageInv, NEW k \in Key
  PROVE  /\ GetItem(k) \in Value \cup {NONE}
         /\ Absent(k) <=> GetItem(k) = NONE
         /\ \A s \in Slot : status[s] = "USE" /\ held[s].key = k => GetItem(k) = held[s].value
<1>0. /\ OneEach(status, held) /\ NONE \notin Value
      /\ \A s \in Slot : status[s] = "USE" => held[s].value \in Value
  BY OneEachIs, StorageAssumption DEF StorageInv, StorageTypeOK
<1>1. /\ \A s \in Slot : status[s] = "USE" /\ held[s].key = k => GetItem(k) = held[s].value
      /\ Absent(k) => GetItem(k) = NONE
  BY <1>0, ItemFacts, GetItemIs DEF Absent
<1> QED BY <1>0, <1>1 DEF Absent

(* A key whose slots have not changed has the item it had. *)
LEMMA ItemStays ==
  ASSUME StorageInv, StorageInv', NEW k \in Key,
         \A s \in Slot : (status[s] = "USE" /\ held[s].key = k) <=> (status'[s] = "USE" /\ held'[s].key = k),
         \A s \in Slot : status[s] = "USE" /\ held[s].key = k => held'[s].value = held[s].value
  PROVE  GetItem(k)' = GetItem(k)
<1>1. OneEach(status, held) /\ OneEach(status', held')
  BY OneEachIs DEF StorageInv
<1>2. CASE \E s \in Slot : status[s] = "USE" /\ held[s].key = k
  <2>1. PICK s \in Slot : status[s] = "USE" /\ held[s].key = k
    BY <1>2
  <2>2. ItemIn(status, held, k) = held[s].value /\ ItemIn(status', held', k) = held'[s].value
    BY <2>1, <1>1, ItemFacts
  <2> QED BY <2>1, <2>2, GetItemIs
<1>3. CASE \A s \in Slot : ~ (status[s] = "USE" /\ held[s].key = k)
  <2>1. ItemIn(status, held, k) = NONE /\ ItemIn(status', held', k) = NONE
    BY <1>1, <1>3, ItemFacts
  <2> QED BY <2>1, GetItemIs
<1> QED BY <1>2, <1>3

(* Marking the slot of a key loses its item only. *)
LEMMA RetiredItems ==
  ASSUME StorageInv, StorageInv', NEW k \in Key, status' = Retired(k), held' = held
  PROVE  \A j \in Key : GetItem(j)' = IF j = k THEN NONE ELSE GetItem(j)
<1>1. \A s \in Slot : status'[s] = "USE" <=> status[s] = "USE" /\ held[s].key # k
  BY RetiredFacts DEF StorageInv
<1>2. GetItem(k)' = NONE
  <2>1. \A s \in Slot : status'[s] = "USE" => held'[s].key # k
    BY <1>1
  <2> QED BY <2>1, OneEachIs, ItemFacts, GetItemIs DEF StorageInv
<1>3. ASSUME NEW j \in Key, j # k PROVE GetItem(j)' = GetItem(j)
  <2>1. \A s \in Slot : (status[s] = "USE" /\ held[s].key = j) <=> (status'[s] = "USE" /\ held'[s].key = j)
    BY <1>1, <1>3
  <2> QED BY <2>1, ItemStays
<1> QED BY <1>2, <1>3

(* Writing an item adds it. *)
LEMMA ProgramItems ==
  ASSUME StorageInv, StorageInv', NEW k \in Key, NEW v \in Value, Absent(k), Program(status, k, v)
  PROVE  \A j \in Key : GetItem(j)' = IF j = k THEN v ELSE GetItem(j)
<1>1. PICK n \in Slot : /\ status[n] = "EMPTY"
                       /\ status' = [status EXCEPT ![n] = "USE"]
                       /\ held' = [held EXCEPT ![n] = [key |-> k, value |-> v]]
  BY ProgramFacts
<1>2. /\ status'[n] = "USE" /\ held'[n].key = k /\ held'[n].value = v /\ status[n] # "USE"
      /\ \A s \in Slot : s # n => status'[s] = status[s] /\ held'[s] = held[s]
  BY <1>1 DEF StorageInv, StorageTypeOK
<1>3. GetItem(k)' = v
  BY <1>2, OneEachIs, ItemFacts, GetItemIs DEF StorageInv
<1>4. ASSUME NEW j \in Key, j # k PROVE GetItem(j)' = GetItem(j)
  <2>1. \A s \in Slot : (status[s] = "USE" /\ held[s].key = j) <=> (status'[s] = "USE" /\ held'[s].key = j)
    BY <1>2, <1>4
  <2>2. \A s \in Slot : status[s] = "USE" /\ held[s].key = j => held'[s].value = held[s].value
    BY <1>2
  <2> QED BY <2>1, <2>2, ItemStays
<1> QED BY <1>3, <1>4

(* Slots that are erased, some or all, lose their items only. *)
LEMMA ErasedItems ==
  ASSUME StorageInv, StorageInv',
         \A s \in Slot : status'[s] # "EMPTY" => status'[s] = status[s] /\ held'[s] = held[s]
  PROVE  \A j \in Key : GetItem(j)' \in {NONE, GetItem(j)}
<1> SUFFICES ASSUME NEW j \in Key PROVE GetItem(j)' = NONE \/ GetItem(j)' = GetItem(j)
  OBVIOUS
<1>1. OneEach(status, held) /\ OneEach(status', held')
  BY OneEachIs DEF StorageInv
<1>2. CASE \E s \in Slot : status'[s] = "USE" /\ held'[s].key = j
  <2>1. PICK s \in Slot : status'[s] = "USE" /\ held'[s].key = j
    BY <1>2
  <2>2. status[s] = "USE" /\ held'[s] = held[s]
    BY <2>1
  <2> QED BY <2>1, <2>2, <1>1, ItemFacts, GetItemIs
<1>3. CASE \A s \in Slot : ~ (status'[s] = "USE" /\ held'[s].key = j)
  BY <1>1, <1>3, ItemFacts, GetItemIs
<1> QED BY <1>2, <1>3

(* No two members of a finite set of numbers have the same number of members
   below them, and that number is smaller than the size of the set. *)
LEMMA PlacesDiffer ==
  ASSUME NEW U \in SUBSET Nat, IsFiniteSet(U), NEW s \in U
  PROVE  /\ Cardinality({t \in U : t < s}) \in 0 .. Cardinality(U) - 1
         /\ \A r \in U : Cardinality({t \in U : t < r}) = Cardinality({t \in U : t < s}) => r = s
<1> DEFINE Below(r) == {t \in U : t < r}
<1>1. \A r \in U : /\ Below(r) \subseteq U /\ r \notin Below(r) /\ r \in Nat
                   /\ \A q \in U : q < r => q \in Below(r)
  OBVIOUS
<1>2. \A r \in U : IsFiniteSet(Below(r)) /\ Cardinality(Below(r)) \in Nat
  BY <1>1, FS_Subset, FS_CardinalityType
<1>3. Cardinality(U) \in Nat
  BY FS_CardinalityType
<1> HIDE DEF Below
<1>4. ASSUME NEW r \in U, NEW T, IsFiniteSet(T), Below(r) \subseteq T, r \in T
      PROVE  Cardinality(Below(r)) < Cardinality(T)
  <2> DEFINE B == Below(r)
  <2>1. IsFiniteSet(B) /\ r \notin B /\ B \in SUBSET T /\ B # T /\ Cardinality(B) \in Nat
    BY <1>1, <1>2, <1>4
  <2>2. Cardinality(T) \in Nat
    BY <1>4, FS_CardinalityType
  <2> HIDE DEF B
  <2>3. Cardinality(B) <= Cardinality(T) /\ (Cardinality(T) = Cardinality(B) => T = B)
    BY <1>4, <2>1, FS_Subset
  <2> QED BY <2>1, <2>2, <2>3 DEF B
<1>5. Cardinality(Below(s)) < Cardinality(U)
  BY <1>1, <1>4
<1>6. ASSUME NEW q \in U, NEW r \in U, q < r PROVE Cardinality(Below(q)) < Cardinality(Below(r))
  <2>1. \A t \in U : t < q => t < r
    BY <1>6
  <2>2. Below(q) \subseteq Below(r)
    BY <2>1 DEF Below
  <2> QED BY <1>1, <1>2, <1>4, <1>6, <2>2
<1>7. ASSUME NEW r \in U, Cardinality(Below(r)) = Cardinality(Below(s)) PROVE r = s
  <2>1. r < s \/ r = s \/ s < r
    BY <1>1
  <2> QED BY <1>2, <1>6, <1>7, <2>1
<1> QED BY <1>2, <1>3, <1>5, <1>7 DEF Below

LEMMA SlotsFinite ==
  /\ IsFiniteSet(Slot) /\ Cardinality(Slot) = SlotCount /\ Slot \in SUBSET Nat
  /\ IsFiniteSet(InUse) /\ InUse \in SUBSET Slot /\ InUse \in SUBSET Nat
  /\ Cardinality(InUse) \in Nat /\ Cardinality(InUse) <= SlotCount
  /\ InUse # Slot => Cardinality(InUse) < SlotCount
<1>1. IsFiniteSet(Slot) /\ Cardinality(Slot) = SlotCount /\ Slot \in SUBSET Nat /\ SlotCount \in Nat
  BY StorageAssumption, FS_Interval DEF Slot
<1>2. InUse \in SUBSET Slot /\ InUse \in SUBSET Nat
  BY <1>1 DEF InUse
<1>3. IsFiniteSet(InUse) /\ Cardinality(InUse) <= Cardinality(Slot) /\ Cardinality(InUse) \in Nat
      /\ (Cardinality(Slot) = Cardinality(InUse) => Slot = InUse)
  BY <1>1, <1>2, FS_Subset, FS_CardinalityType
<1> QED BY <1>1, <1>2, <1>3

(* key(i) for the indexes below length names every key in use. *)
LEMMA KeysAll ==
  ASSUME StorageInv
  PROVE  {KeyAt(i) : i \in 0 .. Length - 1} = {held[s].key : s \in InUse}
<1>1. ASSUME NEW s \in InUse PROVE \E i \in 0 .. Length - 1 : KeyAt(i) = held[s].key
  <2> DEFINE pos(r) == Cardinality({t \in InUse : t < r})
  <2>1. pos(s) \in 0 .. Length - 1 /\ \A r \in InUse : pos(r) = pos(s) => r = s
    BY SlotsFinite, PlacesDiffer DEF Length
  <2>2. (CHOOSE r \in InUse : pos(r) = pos(s)) = s
    BY <2>1
  <2>3. KeyAt(pos(s)) = held[CHOOSE r \in InUse : pos(r) = pos(s)].key
    BY DEF KeyAt
  <2> QED BY <2>1, <2>2, <2>3
<1>2. \A i \in 0 .. Length - 1 : \E s \in InUse : KeyAt(i) = held[s].key
  BY KeyAtInUse DEF StorageInv
<1> QED BY <1>1, <1>2

(* There are as many keys in use as slots in use. *)
LEMMA KeysCount ==
  ASSUME StorageInv
  PROVE  /\ IsFiniteSet({held[s].key : s \in InUse})
         /\ Cardinality({held[s].key : s \in InUse}) = Cardinality(InUse)
<1> DEFINE T == {held[s].key : s \in InUse}
           f == [s \in InUse |-> held[s].key]
<1>1. /\ f \in [InUse -> T]
      /\ \A t \in T : \E s \in InUse : f[s] = t
      /\ \A s, t \in InUse : f[s] = f[t] => s = t
  BY DEF StorageInv, OneSlotPerKey
<1>2. IsFiniteSet(InUse)
  BY SlotsFinite
<1> HIDE DEF T, f
<1>3. ExistsBijection(InUse, T)
  <2>1. DOMAIN f = InUse
    BY <1>1
  <2>2. f \in Injection(InUse, T) /\ f \in Surjection(InUse, T)
    BY <1>1, <2>1 DEF Injection, IsInjective, Surjection
  <2> QED BY <2>2 DEF ExistsBijection, Bijection
<1>4. IsFiniteSet(T) /\ Cardinality(T) = Cardinality(InUse)
  BY <1>2, <1>3, FS_Bijection
<1> QED BY <1>4 DEF T

LEMMA FreeFinite == ASSUME NEW st PROVE IsFiniteSet(Free(st)) /\ Cardinality(Free(st)) \in Nat
<1>1. Free(st) \in SUBSET Slot
  BY DEF Free
<1> QED BY <1>1, SlotsFinite, FS_Subset, FS_CardinalityType

LEMMA TidyStart == StorageInit => TidyInv
<1> SUFFICES ASSUME StorageInit PROVE TidyInv
  OBVIOUS
<1>1. StorageInv
  BY StorageStart
<1> QED BY <1>1 DEF TidyInv, StorageInit, Replacing, Rewriting

LEMMA SweepKeeps == ASSUME TidyInv, StorageInv', Sweep PROVE Replacing' /\ Rewriting'
<1> DEFINE keys == {KeyAt(i) : i \in 0 .. Length - 1}
<1>0. StorageInv /\ Replacing
  BY DEF TidyInv
<1>1. /\ pc = "sweep" /\ pc' = "rewrite" /\ todo' = keys /\ found' = found
      /\ cache' = [k \in Key |-> IF k \in keys THEN GetItem(k) ELSE NONE]
      /\ status' = [s \in Slot |-> "EMPTY"]
  BY DEF Sweep, Erase
<1>2. IsFiniteSet(keys) /\ Cardinality(keys) = Cardinality(InUse)
  BY <1>0, KeysAll, KeysCount
<1>3. Free(status') = Slot
  BY <1>1 DEF Free
<1>4. found => Cardinality(InUse) < SlotCount
  BY <1>0, <1>1, SlotsFinite DEF Replacing
<1>5. Cardinality(keys) + (IF found THEN 1 ELSE 0) <= Cardinality(Free(status'))
  <2>1. Cardinality(Free(status')) = SlotCount /\ SlotCount \in Nat /\ Cardinality(keys) \in Nat
        /\ Cardinality(keys) <= SlotCount
    BY <1>2, <1>3, SlotsFinite, StorageAssumption
  <2>2. CASE found
    <3>1. Cardinality(keys) < SlotCount
      BY <1>2, <1>4, <2>2
    <3> HIDE DEF keys
    <3>2. Cardinality(keys) + 1 <= Cardinality(Free(status'))
      BY <2>1, <3>1
    <3> QED BY <2>2, <3>2
  <2>3. CASE ~ found
    <3> HIDE DEF keys
    <3>2. Cardinality(keys) + 0 <= Cardinality(Free(status'))
      BY <2>1
    <3> QED BY <2>3, <3>2
  <2> QED BY <2>2, <2>3
<1>6. Rewriting'
  <2>1. \A k \in Key : k \notin keys => cache'[k] = NONE
    BY <1>1
  <2>2. \A s \in Slot : status'[s] # "USE"
    BY <1>1
  <2> HIDE DEF keys
  <2>3. Free(status)' = Free(status')
    BY DEF Free
  <2> QED BY <1>1, <1>2, <1>5, <2>1, <2>2, <2>3 DEF Rewriting
<1> QED BY <1>1, <1>6 DEF Replacing

LEMMA RewriteKeeps ==
  ASSUME TidyInv, StorageInv', NEW k \in Key, Rewrite(k)
  PROVE  /\ Replacing' /\ Rewriting'
         /\ Program(status, k, cache[k]) /\ Absent(k) /\ cache[k] \in Value
         /\ UNCHANGED <<pc, arg, found, cache, refused>>
<1>0. StorageInv /\ StorageTypeOK /\ OneSlotPerKey /\ Replacing /\ Rewriting
  BY DEF TidyInv, StorageInv
<1>1. pc = "rewrite" /\ k \in todo /\ cache[k] \in Value /\ Absent(k)
  BY <1>0 DEF Rewrite, Swept, StorageInv
<1>2. Retired(k) = status
  BY <1>0, <1>1, RetiredFacts
<1>3. /\ IsFiniteSet(todo)
      /\ Cardinality(todo) + (IF found THEN 1 ELSE 0) <= Cardinality(Free(status))
      /\ \A s \in Slot : status[s] = "USE" => cache[held[s].key] = held[s].value
      /\ \A j \in Key : Absent(j) /\ j \notin todo => cache[j] = NONE
  BY <1>0, <1>1 DEF Rewriting
<1>4. Cardinality(todo) \in Nat /\ Cardinality(todo) # 0
  BY <1>1, <1>3, FS_CardinalityType, FS_EmptySet
<1>5. Free(status) # {}
  <2>1. (IF found THEN 1 ELSE 0) \in {0, 1}
    OBVIOUS
  <2>2. Cardinality(Free(status)) # 0
    BY <1>3, <1>4, <2>1, FreeFinite
  <2> QED BY <2>2, FS_EmptySet
<1>6. /\ Program(status, k, cache[k]) /\ todo' = todo \ {k}
      /\ UNCHANGED <<pc, arg, found, cache, refused>>
  BY <1>2, <1>5 DEF Rewrite
<1>7. PICK n \in Slot : /\ status[n] = "EMPTY"
                        /\ status' = [status EXCEPT ![n] = "USE"]
                        /\ held' = [held EXCEPT ![n] = [key |-> k, value |-> cache[k]]]
  BY <1>6, ProgramFacts
<1>8. /\ status'[n] = "USE" /\ held'[n].key = k /\ held'[n].value = cache[k]
      /\ \A s \in Slot : s # n => status'[s] = status[s] /\ held'[s] = held[s]
  BY <1>7, <1>0 DEF StorageTypeOK
<1>9. /\ Cardinality(todo \ {k}) = Cardinality(todo) - 1 /\ IsFiniteSet(todo \ {k})
      /\ Cardinality(Free(status')) = Cardinality(Free(status)) - 1
  <2>1. Free(status') = Free(status) \ {n} /\ n \in Free(status)
    BY <1>7, <1>8 DEF Free
  <2> QED BY <2>1, <1>1, <1>3, FreeFinite, FS_RemoveElement
<1>10. Cardinality(todo') + (IF found' THEN 1 ELSE 0) <= Cardinality(Free(status'))
  <2>1. (IF found THEN 1 ELSE 0) \in {0, 1} /\ found' = found /\ todo' = todo \ {k}
    BY <1>6
  <2> QED BY <1>3, <1>4, <1>9, <2>1, FreeFinite
<1>11. \A s \in Slot : status'[s] = "USE" => cache'[held'[s].key] = held'[s].value
  BY <1>3, <1>6, <1>8
<1>12. ASSUME NEW j \in Key, Absent(j)', j \notin todo' PROVE cache'[j] = NONE
  <2>1. j # k
    BY <1>8, <1>12 DEF Absent
  <2>2. Absent(j)
    BY <1>7, <1>8, <1>12 DEF Absent
  <2>3. j \notin todo
    BY <1>6, <1>12, <2>1
  <2> QED BY <1>3, <1>6, <2>2, <2>3
<1>13. Rewriting'
  <2>1. Free(status)' = Free(status')
    BY DEF Free
  <2> QED BY <1>6, <1>9, <1>10, <1>11, <1>12, <2>1, Zenon DEF Rewriting
<1>14. Replacing'
  BY <1>1, <1>6 DEF Replacing
<1> QED BY <1>1, <1>6, <1>13, <1>14

LEMMA TidyStep == TidyInv /\ [StorageNext]_storageVars => TidyInv'
<1> SUFFICES ASSUME TidyInv, [StorageNext]_storageVars PROVE TidyInv'
  OBVIOUS
<1>0. StorageInv /\ Replacing /\ Rewriting /\ StorageInv'
  BY StorageStep DEF TidyInv
<1>a. ASSUME pc' = "idle", found' = FALSE PROVE TidyInv'
  BY <1>0, <1>a DEF TidyInv, Replacing, Rewriting
<1>b. found = FALSE \/ pc # "idle"
  BY <1>0 DEF Replacing, StorageInv, StorageTypeOK
<1>1. ASSUME NEW k \in Key, NEW v \in Value, SetItem(k, v) PROVE TidyInv'
  <2>1. pc' = "place" /\ found' = (Holders(k) # {}) /\ status' = Retired(k) /\ held' = held
    BY <1>1 DEF SetItem
  <2>2. Holders(k) # {} => InUse' # Slot
    <3>1. StorageTypeOK /\ OneSlotPerKey
      BY <1>0 DEF StorageInv
    <3>2. Holders(k) # {} => Least(Holders(k)) \in Slot /\ held[Least(Holders(k))].key = k
      BY <3>1, HolderFound
    <3>3. \A s \in Slot : status'[s] = "USE" => held[s].key # k
      BY <2>1, <3>1, RetiredFacts
    <3> QED BY <3>2, <3>3 DEF InUse
  <2> QED BY <1>0, <2>1, <2>2 DEF TidyInv, Replacing, Rewriting
<1>2. CASE Place
  BY <1>2, <1>a DEF Place, CallEnds
<1>3. CASE Full
  BY <1>0, <1>3 DEF Full, flash, TidyInv, Replacing, Rewriting, InUse
<1>4. CASE FullAgain
  BY <1>4, <1>a DEF FullAgain, CallEnds
<1>5. CASE Sweep
  BY <1>0, <1>5, SweepKeeps DEF TidyInv
<1>6. ASSUME NEW k \in Key, Rewrite(k) PROVE TidyInv'
  BY <1>0, <1>6, RewriteKeeps DEF TidyInv
<1>7. CASE SweepEnds
  <2>1. pc = "rewrite" /\ todo = {} /\ pc' = "again" /\ found' = found /\ status' = Retired(arg.key)
    BY <1>7 DEF SweepEnds
  <2>2. Retired(arg.key) = status
    BY <2>1, <1>0, RetiredFacts DEF Setting, StorageInv
  <2>3. found => Free(status) # {}
    <3>1. ASSUME found PROVE Free(status) # {}
      <4>1. Cardinality(todo) + 1 <= Cardinality(Free(status))
        BY <1>0, <2>1, <3>1 DEF Rewriting
      <4>2. Cardinality(Free(status)) # 0
        BY <2>1, <4>1, FS_EmptySet
      <4> QED BY <4>2, FS_EmptySet
    <3> QED BY <3>1
  <2> QED BY <1>0, <2>1, <2>2, <2>3 DEF TidyInv, Replacing, Rewriting, Free
<1>8. ASSUME NEW k \in Key, RemoveItem(k) PROVE TidyInv'
  BY <1>8, <1>a, <1>b DEF RemoveItem
<1>9. CASE Clear
  BY <1>0, <1>9, <1>b DEF Clear, TidyInv, Replacing, Rewriting
<1>10. CASE ClearEnds
  BY <1>10, <1>a DEF ClearEnds, CallEnds
<1>11. CASE CutOff
  BY <1>11, <1>a DEF CutOff, CallEnds
<1>12. ASSUME NEW n \in Slot, CutErase(n) PROVE TidyInv'
  BY <1>12, <1>a DEF CutErase, CallEnds
<1>13. CASE UNCHANGED storageVars
  BY <1>0, <1>13 DEF storageVars, flash, TidyInv, Replacing, Rewriting, InUse, Free, Absent
<1> QED BY <1>1, <1>2, <1>3, <1>4, <1>5, <1>6, <1>7, <1>8, <1>9, <1>10, <1>11, <1>12, <1>13
        DEF StorageNext

(***************************************************************************)
(* The step simulation: which step of KeyValue each step is.               *)
(***************************************************************************)

DoingOf(p) ==
  CASE p = "idle" -> "nothing"
    [] p = "place" -> "setting"
    [] p = "clear" -> "clearing"
    [] OTHER -> "tidying"

(* A key that is being replaced has its new value, a key still to be written
   back that of the cache; else it is getItem that says what is seen. *)
LEMMA SeenIs ==
  ASSUME TidyInv, NEW k \in Key
  PROVE  /\ Seen[k] = IF found /\ k = arg.key THEN arg.value
                      ELSE IF pc = "rewrite" THEN cache[k] ELSE GetItem(k)
         /\ ~ Absent(k) => Seen[k] = GetItem(k)
         /\ pc \notin {"place", "sweep", "rewrite", "again"} => Seen[k] = GetItem(k)
         /\ pc = "rewrite" /\ k \notin todo => cache[k] = GetItem(k)
<1>0. StorageInv /\ Replacing /\ Rewriting /\ Setting
  BY DEF TidyInv, StorageInv
<1>1. Seen[k] = IF found /\ k = arg.key THEN arg.value
                ELSE IF pc = "rewrite" THEN cache[k] ELSE GetItem(k)
  BY DEF Seen
<1>2. pc = "rewrite" /\ ~ Absent(k) => cache[k] = GetItem(k)
  <2>1. ASSUME pc = "rewrite", NEW s \in Slot, status[s] = "USE", held[s].key = k
        PROVE  cache[k] = GetItem(k)
    BY <1>0, <2>1, ItemType DEF Rewriting
  <2> QED BY <2>1 DEF Absent
<1>3. pc = "rewrite" /\ Absent(k) /\ k \notin todo => cache[k] = GetItem(k)
  BY <1>0, ItemType DEF Rewriting
<1>4. ~ Absent(k) => ~ (found /\ k = arg.key)
  BY <1>0 DEF Replacing, Setting
<1>5. pc \notin {"place", "sweep", "rewrite", "again"} => ~ found /\ pc # "rewrite"
  BY <1>0 DEF Replacing
<1> QED BY <1>1, <1>2, <1>3, <1>4, <1>5

LEMMA SeenNext ==
  ASSUME TidyInv', NEW k \in Key
  PROVE  /\ Seen[k]' = IF found' /\ k = arg'.key THEN arg'.value
                       ELSE IF pc' = "rewrite" THEN cache'[k] ELSE GetItem(k)'
         /\ pc' = "idle" => Seen[k]' = GetItem(k)'
<1>1. Seen[k]' = IF found' /\ k = arg'.key THEN arg'.value
                 ELSE IF pc' = "rewrite" THEN cache'[k] ELSE GetItem(k)'
  BY DEF Seen
<1>2. pc' = "idle" => ~ found'
  BY DEF TidyInv, Replacing
<1> QED BY <1>1, <1>2

LEMMA SeenIsFunction ==
  /\ Seen = [k \in Key |-> Seen[k]]
  /\ Seen' = [k \in Key |-> Seen'[k]]
  /\ \A k \in Key : Seen[k]' = Seen'[k]
BY DEF Seen

(* Two pictures of the store that agree on every key are the same. *)
LEMMA SeenStays == (\A k \in Key : Seen'[k] = Seen[k]) => Seen' = Seen
BY SeenIsFunction

LEMMA StoreStart == StorageInit => Store!Init
<1> SUFFICES ASSUME StorageInit PROVE Store!Init
  OBVIOUS
<1>1. TidyInv
  BY TidyStart
<1>2. \A k \in Key : Seen[k] = NONE
  <2>1. \A k \in Key : Absent(k)
    BY DEF StorageInit, Absent
  <2> QED BY <1>1, <2>1, SeenIs, ItemType DEF StorageInit, TidyInv
<1>3. Seen = [k \in Key |-> NONE]
  BY <1>2 DEF Seen
<1> QED BY <1>3 DEF StorageInit, Store!Init, Store!Empty, Store!Nothing, NoEntry

(* storage_set_item up to the mark on the old slot: an old key has its new
   value already, as an interrupted call is not to show the old one. *)
LEMMA SetItemSets ==
  ASSUME TidyInv, TidyInv', NEW k \in Key, NEW v \in Value, SetItem(k, v)
  PROVE  Store!Set(k, v)
<1>0. StorageInv /\ StorageInv' /\ StorageTypeOK
  BY DEF TidyInv, StorageInv
<1>1. /\ pc = "idle" /\ pc' = "place" /\ found' = (Holders(k) # {}) /\ arg' = [key |-> k, value |-> v]
      /\ status' = Retired(k) /\ held' = held
  BY DEF SetItem
<1>2. \A j \in Key : GetItem(j)' = IF j = k THEN NONE ELSE GetItem(j)
  BY <1>0, <1>1, RetiredItems
<1>3. \A j \in Key : Seen[j] = GetItem(j)
  BY <1>1, SeenIs
<1>4. found' <=> GetItem(k) # NONE
  BY <1>0, <1>1, HolderFound, ItemType
<1>5. \A j \in Key : Seen'[j] = IF found' /\ j = k THEN v ELSE GetItem(j)'
  BY <1>1, SeenNext, SeenIsFunction
<1>6. CASE GetItem(k) = NONE
  <2>1. \A j \in Key : Seen'[j] = Seen[j]
    BY <1>2, <1>3, <1>4, <1>5, <1>6
  <2>2. Seen' = Seen /\ Seen[k] = NONE
    BY <2>1, <1>3, <1>6, SeenStays
  <2> QED BY <1>1, <2>2 DEF Store!Set
<1>7. CASE GetItem(k) # NONE
  <2>1. \A j \in Key : Seen'[j] = IF j = k THEN v ELSE Seen[j]
    BY <1>2, <1>3, <1>4, <1>5, <1>7
  <2>2. Seen' = [Seen EXCEPT ![k] = v] /\ Seen[k] # NONE
    BY <2>1, <1>3, <1>7, SeenIsFunction
  <2> QED BY <1>1, <2>2 DEF Store!Set
<1> QED BY <1>6, <1>7

(* The slot is written: the call ends with the item stored. *)
LEMMA PlaceSets == ASSUME TidyInv, TidyInv', Place PROVE Store!SetEnds
<1>0. StorageInv /\ StorageInv' /\ Setting
  BY DEF TidyInv, StorageInv
<1>1. /\ pc \in {"place", "again"} /\ pc' = "idle" /\ arg' = NoEntry
      /\ Program(status, arg.key, arg.value)
  BY DEF Place, CallEnds
<1>2. arg.key \in Key /\ arg.value \in Value /\ Absent(arg.key)
  BY <1>0, <1>1 DEF Setting
<1>3. \A j \in Key : GetItem(j)' = IF j = arg.key THEN arg.value ELSE GetItem(j)
  BY <1>0, <1>1, <1>2, ProgramItems
<1>4. \A j \in Key : Seen'[j] = GetItem(j)'
  BY <1>1, SeenNext, SeenIsFunction
<1>5. \A j \in Key : j # arg.key => Seen[j] = GetItem(j)
  BY <1>1, SeenIs
<1>6. Seen' = [Seen EXCEPT ![arg.key] = arg.value]
  BY <1>3, <1>4, <1>5, SeenIsFunction
<1> QED BY <1>1, <1>6 DEF Store!SetEnds, Store!Put, Store!Done, Store!Nothing, NoEntry

(* ESTGFULL after the sweep: the key is new, and every slot holds an item. *)
LEMMA FullRefuses == ASSUME TidyInv, TidyInv', FullAgain PROVE Store!Refused
<1>0. StorageInv /\ StorageInv' /\ Setting /\ Swept /\ StorageTypeOK /\ Replacing
  BY DEF TidyInv, StorageInv
<1>1. /\ pc = "again" /\ Free(status) = {} /\ pc' = "idle" /\ arg' = NoEntry
      /\ UNCHANGED <<status, held>>
  BY DEF FullAgain, CallEnds, flash
<1>2. ~ found /\ arg.key \in Key /\ Absent(arg.key)
  BY <1>0, <1>1 DEF Replacing, Setting
<1>3. \A s \in Slot : status[s] = "USE"
  BY <1>0, <1>1 DEF Free, Swept, StorageTypeOK
<1>4. InUse = Slot
  BY <1>3 DEF InUse
<1>5. \A j \in Key : Seen[j] = GetItem(j) /\ GetItem(j)' = GetItem(j)
  <2>1. \A j \in Key : Seen[j] = GetItem(j)
    BY <1>1, <1>2, SeenIs
  <2>2. \A j \in Key : GetItem(j)' = GetItem(j)
    BY <1>1, GetItemIs
  <2> QED BY <2>1, <2>2
<1>6. Seen' = Seen
  <2>1. \A j \in Key : Seen'[j] = Seen[j]
    BY <1>1, <1>5, SeenNext, SeenIsFunction
  <2> QED BY <2>1, SeenStays
<1>7. Seen[arg.key] = NONE
  BY <1>0, <1>2, <1>5, ItemType
<1>8. Cardinality({j \in Key : Seen[j] # NONE}) = SlotCount
  <2>1. \A s \in InUse : held[s].key \in Key
    BY <1>0 DEF StorageTypeOK, InUse
  <2>2. \A j \in Key : Seen[j] # NONE <=> \E s \in InUse : held[s].key = j
    BY <1>0, <1>5, ItemType DEF Absent, InUse
  <2>3. {j \in Key : Seen[j] # NONE} = {held[s].key : s \in InUse}
    BY <2>1, <2>2
  <2>4. Cardinality({held[s].key : s \in InUse}) = Cardinality(InUse)
    BY <1>0, KeysCount
  <2> QED BY <1>4, <2>3, <2>4, SlotsFinite
<1>9. Store!Done
  BY <1>1 DEF Store!Done, Store!Nothing, NoEntry
<1>10. Store!Cardinality(Store!Held) = SlotCount
  <2>1. Store!Cardinality(Store!Held) = Cardinality(Store!Held)
    BY Zenon DEF Store!Cardinality, Cardinality
  <2> QED BY <1>8, <2>1 DEF Store!Held
<1> QED BY <1>1, <1>6, <1>7, <1>9, <1>10 DEF Store!Refused

(* The sweep reads every item before the slots are erased. *)
LEMMA SweepUnseen == ASSUME TidyInv, TidyInv', Sweep PROVE UNCHANGED Store!kvars
<1> DEFINE keys == {KeyAt(i) : i \in 0 .. Length - 1}
<1>0. StorageInv /\ StorageInv'
  BY DEF TidyInv
<1>1. /\ pc = "sweep" /\ pc' = "rewrite" /\ UNCHANGED <<arg, found>>
      /\ cache' = [k \in Key |-> IF k \in keys THEN GetItem(k) ELSE NONE]
  BY DEF Sweep
<1>2. \A k \in Key : k \notin keys => Absent(k)
  BY <1>0, KeysAll DEF Absent, InUse
<1> HIDE DEF keys
<1>3. \A k \in Key : cache'[k] = GetItem(k)
  BY <1>0, <1>1, <1>2, ItemType
<1>4. \A k \in Key : Seen'[k] = Seen[k]
  BY <1>1, <1>3, SeenIs, SeenNext, SeenIsFunction
<1>5. Seen' = Seen
  BY <1>4, SeenStays
<1> QED BY <1>1, <1>5 DEF Store!kvars

LEMMA RewriteUnseen ==
  ASSUME TidyInv, TidyInv', NEW k \in Key, Rewrite(k) PROVE UNCHANGED Store!kvars
<1>1. StorageInv' /\ UNCHANGED <<pc, arg, found, cache>>
  BY RewriteKeeps DEF TidyInv
<1>2. pc = "rewrite"
  BY DEF Rewrite
<1>3. \A j \in Key : Seen'[j] = Seen[j]
  BY <1>1, <1>2, SeenIs, SeenNext, SeenIsFunction
<1>4. Seen' = Seen
  BY <1>3, SeenStays
<1> QED BY <1>1, <1>4 DEF Store!kvars

LEMMA SweepEndUnseen == ASSUME TidyInv, TidyInv', SweepEnds PROVE UNCHANGED Store!kvars
<1>0. StorageInv /\ Setting /\ StorageTypeOK /\ OneSlotPerKey
  BY DEF TidyInv, StorageInv
<1>1. pc = "rewrite" /\ pc' = "again" /\ todo = {} /\ status' = Retired(arg.key)
      /\ UNCHANGED <<held, arg, found>>
  BY DEF SweepEnds
<1>2. status' = status
  BY <1>0, <1>1, RetiredFacts DEF Setting
<1>3. \A j \in Key : GetItem(j)' = GetItem(j)
  BY <1>1, <1>2, GetItemIs
<1>4. \A j \in Key : Seen'[j] = Seen[j]
  BY <1>1, <1>3, SeenIs, SeenNext, SeenIsFunction
<1>5. Seen' = Seen
  BY <1>4, SeenStays
<1> QED BY <1>1, <1>5 DEF Store!kvars

(* Items that are gone when a call is cut off are lost, the others are as
   they were seen. *)
LEMMA CutOffLoses ==
  ASSUME TidyInv, TidyInv', pc # "idle", pc' = "idle", arg' = NoEntry,
         \A j \in Key : GetItem(j)' \in {NONE, GetItem(j)},
         pc = "place" => \A j \in Key : GetItem(j)' = GetItem(j)
  PROVE  Store!CutOff
<1>0. StorageInv /\ StorageInv' /\ StorageTypeOK /\ Setting
  BY DEF TidyInv, StorageInv
<1> DEFINE lost == {j \in Key : Seen'[j] # Seen[j]}
<1>1. \A j \in Key : Seen'[j] = GetItem(j)'
  BY SeenNext, SeenIsFunction
<1>2. \A j \in Key : Seen[j] = GetItem(j) \/ GetItem(j) = NONE
  BY <1>0, SeenIs, ItemType
<1>3. \A j \in Key : Seen'[j] = IF j \in lost THEN NONE ELSE Seen[j]
  BY <1>1, <1>2
<1>4. pc = "place" => lost \subseteq {arg.key}
  BY <1>1, SeenIs
<1>5. lost \in SUBSET Key
  OBVIOUS
<1> HIDE DEF lost
<1>6. Seen' = [j \in Key |-> IF j \in lost THEN NONE ELSE Seen[j]]
  BY <1>3, SeenIsFunction
<1>7. DoingOf(pc) # "nothing" /\ DoingOf(pc') = "nothing" /\ (DoingOf(pc) = "setting" => pc = "place")
  BY <1>0 DEF DoingOf, StorageTypeOK
<1>8. lost \in SUBSET (IF DoingOf(pc) = "setting" THEN {arg.key} ELSE Key)
  BY <1>4, <1>5, <1>7
<1> QED BY <1>6, <1>7, <1>8 DEF Store!CutOff, Store!Done, Store!Nothing, NoEntry, DoingOf

LEMMA StoreStep == TidyInv /\ TidyInv' /\ [StorageNext]_storageVars => [Store!Next]_(Store!kvars)
<1> SUFFICES ASSUME TidyInv, TidyInv', [StorageNext]_storageVars PROVE [Store!Next]_(Store!kvars)
  OBVIOUS
<1>0. StorageInv /\ StorageInv' /\ StorageTypeOK
  BY DEF TidyInv, StorageInv
<1>a. UNCHANGED Store!kvars => [Store!Next]_(Store!kvars)
  OBVIOUS
<1>b. ASSUME UNCHANGED <<status, held>> PROVE \A j \in Key : GetItem(j)' = GetItem(j)
  BY <1>b, GetItemIs
<1>1. ASSUME NEW k \in Key, NEW v \in Value, SetItem(k, v) PROVE Store!Next
  BY <1>1, SetItemSets DEF Store!Next
<1>2. CASE Place
  BY <1>2, PlaceSets DEF Store!Next
<1>3. CASE Full
  <2>1. /\ pc = "place" /\ pc' = "sweep" /\ UNCHANGED <<status, held>> /\ UNCHANGED <<arg, found>>
    BY <1>3 DEF Full, flash
  <2>2. \A j \in Key : Seen'[j] = Seen[j]
    BY <1>b, <2>1, SeenIs, SeenNext, SeenIsFunction
  <2>3. Seen' = Seen
    BY <2>2, SeenStays
  <2>4. Store!Tidy
    BY <2>1, <2>3 DEF Store!Tidy
  <2> QED BY <2>4 DEF Store!Next
<1>4. CASE FullAgain
  BY <1>4, FullRefuses DEF Store!Next
<1>5. CASE Sweep
  BY <1>5, <1>a, SweepUnseen
<1>6. ASSUME NEW k \in Key, Rewrite(k) PROVE [Store!Next]_(Store!kvars)
  BY <1>6, <1>a, RewriteUnseen
<1>7. CASE SweepEnds
  BY <1>7, <1>a, SweepEndUnseen
<1>8. ASSUME NEW k \in Key, RemoveItem(k) PROVE Store!Next
  <2>1. pc = "idle" /\ pc' = "idle" /\ status' = Retired(k) /\ held' = held /\ arg' = arg
    BY <1>8 DEF RemoveItem, Retired
  <2>2. \A j \in Key : GetItem(j)' = IF j = k THEN NONE ELSE GetItem(j)
    BY <1>0, <2>1, RetiredItems
  <2>3. \A j \in Key : Seen'[j] = IF j = k THEN NONE ELSE Seen[j]
    BY <2>1, <2>2, SeenIs, SeenNext, SeenIsFunction
  <2>4. Seen' = [Seen EXCEPT ![k] = NONE]
    BY <2>3, SeenIsFunction
  <2>5. Store!Remove(k)
    BY <2>1, <2>4 DEF Store!Remove
  <2> QED BY <2>5 DEF Store!Next
<1>9. CASE Clear
  <2>1. pc = "idle" /\ pc' = "clear" /\ UNCHANGED <<status, held>> /\ UNCHANGED <<arg, found>>
    BY <1>9 DEF Clear, flash
  <2>2. \A j \in Key : Seen'[j] = Seen[j]
    BY <1>b, <2>1, SeenIs, SeenNext, SeenIsFunction
  <2>3. Seen' = Seen
    BY <2>2, SeenStays
  <2>4. Store!Clear
    BY <2>1, <2>3 DEF Store!Clear
  <2> QED BY <2>4 DEF Store!Next
<1>10. CASE ClearEnds
  <2>1. /\ pc = "clear" /\ pc' = "idle" /\ arg' = NoEntry
        /\ \A s \in Slot : status'[s] = "EMPTY"
    BY <1>10 DEF ClearEnds, CallEnds, Erase
  <2>2. \A j \in Key : Seen'[j] = NONE
    <3>1. \A s \in Slot : status'[s] # "USE"
      BY <2>1
    <3>2. \A j \in Key : GetItem(j)' = NONE
      BY <1>0, <3>1, OneEachIs, ItemFacts, GetItemIs DEF StorageInv
    <3> QED BY <2>1, <3>2, SeenNext, SeenIsFunction
  <2>3. Seen' = [j \in Key |-> NONE]
    BY <2>2, SeenIsFunction
  <2>4. Store!ClearEnds
    BY <2>1, <2>3 DEF Store!ClearEnds, Store!Empty, Store!Done, Store!Nothing, NoEntry
  <2> QED BY <2>4 DEF Store!Next
<1>11. CASE CutOff
  <2>1. pc # "idle" /\ pc' = "idle" /\ arg' = NoEntry /\ UNCHANGED <<status, held>>
    BY <1>11 DEF CutOff, CallEnds, flash
  <2>2. Store!CutOff
    BY <1>b, <2>1, CutOffLoses
  <2> QED BY <2>2 DEF Store!Next
<1>12. ASSUME NEW n \in Slot, CutErase(n) PROVE Store!Next
  <2>1. /\ pc \in {"sweep", "clear"} /\ pc' = "idle" /\ arg' = NoEntry
        /\ status' = [s \in Slot |-> IF s < n THEN "EMPTY" ELSE status[s]]
        /\ held' = [s \in Slot |-> IF s < n THEN NoEntry ELSE held[s]]
    BY <1>12 DEF CutErase, CallEnds
  <2>2. \A s \in Slot : status'[s] # "EMPTY" => status'[s] = status[s] /\ held'[s] = held[s]
    BY <2>1
  <2>3. \A j \in Key : GetItem(j)' \in {NONE, GetItem(j)}
    BY <1>0, <2>2, ErasedItems
  <2>4. Store!CutOff
    BY <2>1, <2>3, CutOffLoses
  <2> QED BY <2>4 DEF Store!Next
<1>13. CASE UNCHANGED storageVars
  <2>1. UNCHANGED <<status, held>> /\ UNCHANGED <<pc, arg, found, cache>>
    BY <1>13 DEF storageVars, flash
  <2>2. \A j \in Key : Seen'[j] = Seen[j]
    BY <1>b, <2>1, SeenIs, SeenNext, SeenIsFunction
  <2>3. Seen' = Seen
    BY <2>2, SeenStays
  <2> QED BY <2>1, <2>3 DEF Store!kvars
<1> QED BY <1>1, <1>2, <1>3, <1>4, <1>5, <1>6, <1>7, <1>8, <1>9, <1>10, <1>11, <1>12, <1>13
        DEF StorageNext

(* The slots, the sweep and power cuts at any moment together behave as a
   dictionary: setItem takes effect at one moment, what the sweep does is not
   seen, and only a new key that finds every slot taken is refused. *)
THEOREM SlotsImplementStore == StorageSpec => ImplementsStore
<1>1. StorageInit => Store!Init
  BY StoreStart
<1>2. TidyInv /\ TidyInv' /\ [StorageNext]_storageVars => [Store!Next]_(Store!kvars)
  BY StoreStep
<1>3. StorageSpec => []TidyInv
  BY TidyStart, TidyStep, PTL DEF StorageSpec
<1> QED BY <1>1, <1>2, <1>3, PTL DEF StorageSpec, Store!Spec, ImplementsStore
(***************************************************************************)
(* Arithmetic, and induction up to a number.                               *)
(***************************************************************************)

(* A set of numbers that holds 0 and with every number below y the next one
   holds all numbers up to y. *)
LEMMA UpTo ==
  ASSUME NEW y \in Nat, NEW S, 0 \in S, \A i \in 0 .. y - 1 : i \in S => i + 1 \in S
  PROVE  y \in S
<1> DEFINE Bad == {i \in 0 .. y : i \notin S}
<1>1. SUFFICES ASSUME Bad # {} PROVE FALSE
  OBVIOUS
<1>2. Bad \in SUBSET Nat
  OBVIOUS
<1>3. PICK i \in Bad : \A j \in Bad : i <= j
  <2> HIDE DEF Bad
  <2> QED BY <1>1, <1>2, LeastIsLeast
<1>4. i # 0
  BY <1>3
<1>5. i - 1 \in 0 .. y - 1 /\ i - 1 \notin Bad
  BY <1>3, <1>4
<1>6. i - 1 \in S /\ (i - 1) + 1 = i
  BY <1>5
<1> QED BY <1>3, <1>5, <1>6

(* Quotient and remainder are the only numbers of their kind. *)
LEMMA DivMod ==
  ASSUME NEW d \in Nat \ {0}, NEW x \in Int, NEW q \in Int, NEW r \in 0 .. d - 1, x = q * d + r
  PROVE  x \div d = q /\ x % d = r
<1>1. /\ x \div d \in Int /\ x % d \in 0 .. d - 1
      /\ x = (x \div d) * d + (x % d)
  OBVIOUS
<1> DEFINE a == x \div d
           b == x % d
<1> HIDE DEF a, b
<1>2. a \in Int /\ b \in 0 .. d - 1 /\ a * d + b = q * d + r
  BY <1>1 DEF a, b
<1>3. (a - q) * d = r - b
  BY <1>2
<1>4. a - q <= 0
  <2>1. SUFFICES ASSUME a - q >= 1 PROVE FALSE
    BY <1>2
  <2>2. (a - q) * d >= d
    BY <1>2, <2>1
  <2> QED BY <1>2, <1>3, <2>2
<1>5. q - a <= 0
  <2>1. SUFFICES ASSUME q - a >= 1 PROVE FALSE
    BY <1>2
  <2>2. (q - a) * d >= d
    BY <1>2, <2>1
  <2>3. (q - a) * d = b - r
    BY <1>2
  <2> QED BY <1>2, <2>2, <2>3
<1>6. a = q
  BY <1>2, <1>4, <1>5
<1>7. b = r
  BY <1>2, <1>6
<1> QED BY <1>6, <1>7 DEF a, b

(* The first address of the page of address x. *)
PageOf(x) == x - (x % PageSize)

LEMMA PageAt ==
  ASSUME NEW x \in Nat
  PROVE  /\ PageOf(x) \in Nat /\ x % PageSize \in 0 .. PageSize - 1
         /\ x = PageOf(x) + (x % PageSize)
         /\ (x % PageSize) + 1 < PageSize =>
              (x + 1) % PageSize = (x % PageSize) + 1 /\ PageOf(x + 1) = PageOf(x)
         /\ (x % PageSize) + 1 >= PageSize =>
              (x + 1) % PageSize = 0 /\ PageOf(x + 1) = x + 1 /\ x + 1 = PageOf(x) + PageSize
<1> DEFINE d == PageSize
           a == x \div d
           b == x % d
<1>0. d \in Nat \ {0}
  BY ProgAssumption
<1>1. a \in Nat /\ b \in 0 .. d - 1 /\ x = a * d + b /\ a * d \in Nat
  BY <1>0
<1> HIDE DEF a, b
<1>2. ASSUME b + 1 < d PROVE (x + 1) % d = b + 1
  <2>1. x + 1 = a * d + (b + 1) /\ b + 1 \in 0 .. d - 1
    BY <1>0, <1>1, <1>2
  <2> HIDE DEF d
  <2> QED BY <1>0, <1>1, <2>1, DivMod
<1>3. ASSUME b + 1 >= d PROVE (x + 1) % d = 0 /\ b + 1 = d
  <2>1. b + 1 = d
    BY <1>0, <1>1, <1>3
  <2>2. x + 1 = (a + 1) * d + 0 /\ 0 \in 0 .. d - 1
    BY <1>0, <1>1, <2>1
  <2> HIDE DEF d
  <2>3. (x + 1) % d = 0
    BY <1>0, <1>1, <2>2, DivMod
  <2> QED BY <2>1, <2>3
<1> DEFINE e == (x + 1) % d
<1>4. b = x % PageSize /\ PageOf(x) = x - b /\ e = (x + 1) % PageSize /\ PageOf(x + 1) = (x + 1) - e
  BY Zenon DEF PageOf, b
<1>5. (b + 1 < d => e = b + 1) /\ (b + 1 >= d => e = 0 /\ b + 1 = d)
  BY <1>2, <1>3
<1> HIDE DEF e
<1>6. /\ x - b \in Nat /\ x = (x - b) + b
      /\ b + 1 < d => (x + 1) - e = x - b
      /\ b + 1 >= d => (x + 1) - e = x + 1 /\ x + 1 = (x - b) + d
  BY <1>0, <1>1, <1>5
<1> QED BY <1>1, <1>4, <1>5, <1>6

(* The page that page_buffer_flush computes by sector and offset. *)
LEMMA PageFound ==
  ASSUME NEW x \in Nat
  PROVE  (x \div SectorSize) * SectorSize + ((x % SectorSize) \div PageSize) * PageSize = PageOf(x)
<1> DEFINE s == x \div SectorSize
           r == x % SectorSize
           o == r \div PageSize
           b == r % PageSize
           c == SectorSize \div PageSize
<1>1. PageSize \in Nat \ {0} /\ SectorSize \in Nat \ {0}
  BY ProgAssumption
<1>2. s \in Nat /\ r \in Nat /\ x = s * SectorSize + r
  BY <1>1
<1>3. o \in Nat /\ b \in 0 .. PageSize - 1 /\ r = o * PageSize + b
  BY <1>1, <1>2
<1>4. c \in Nat /\ SectorSize = c * PageSize
  <2>1. SectorSize % PageSize = 0
    BY ProgAssumption
  <2> QED BY <1>1, <2>1
<1> HIDE DEF s, r, o, b, c
<1>5. s * SectorSize = (s * c) * PageSize /\ s * c \in Nat
  BY <1>1, <1>2, <1>4
<1>6. (s * c) * PageSize + o * PageSize = (s * c + o) * PageSize
  BY <1>1, <1>3, <1>5
<1>7. x = (s * c + o) * PageSize + b
  BY <1>1, <1>2, <1>3, <1>5, <1>6
<1>8. x % PageSize = b
  <2> DEFINE q == s * c + o
  <2>1. q \in Int /\ x = q * PageSize + b
    BY <1>3, <1>5, <1>7
  <2> HIDE DEF q
  <2> QED BY <1>1, <1>3, <2>1, DivMod
<1>9. s * SectorSize + o * PageSize = x - b
  BY <1>1, <1>2, <1>3, <1>5
<1> QED BY <1>8, <1>9 DEF PageOf, s, r, o

LEMMA ProgMax ==
  /\ PROG_MAX \in Nat \ {0} /\ PROG_MAX % PageSize = 0 /\ PageOf(PROG_MAX) = PROG_MAX
  /\ PageSize \in Nat \ {0} /\ 0 % PageSize = 0 /\ PageOf(0) = 0
<1>1. PageSize \in Nat \ {0} /\ SectorSize \in Nat \ {0} /\ SectorCount \in Nat \ {0}
  BY ProgAssumption
<1> DEFINE c == SectorSize \div PageSize
<1>2. c \in Nat /\ SectorSize = c * PageSize
  <2>1. SectorSize % PageSize = 0
    BY ProgAssumption
  <2> QED BY <1>1, <2>1
<1> HIDE DEF c
<1>3. PROG_MAX = (SectorCount * c) * PageSize + 0 /\ SectorCount * c \in Nat /\ PROG_MAX \in Nat
  BY <1>1, <1>2 DEF PROG_MAX
<1>4. PROG_MAX # 0
  <2>1. SectorCount * SectorSize > 0
    BY <1>1
  <2> QED BY <2>1 DEF PROG_MAX
<1>5. PROG_MAX % PageSize = 0
  <2> DEFINE q == SectorCount * c
             y == PROG_MAX
  <2>1. q \in Int /\ y \in Int /\ y = q * PageSize + 0 /\ 0 \in 0 .. PageSize - 1
    BY <1>1, <1>3
  <2> HIDE DEF q, y
  <2>2. y % PageSize = 0
    BY <1>1, <2>1, DivMod
  <2> QED BY <2>2 DEF y
<1>6. 0 % PageSize = 0
  BY <1>1
<1> QED BY <1>1, <1>3, <1>4, <1>5, <1>6 DEF PageOf

-----------------------------------------------------------------------------
(***************************************************************************)
(* The program memory.                                                     *)
(***************************************************************************)

(* One turn of the loop of km_prog_write. *)
WriteOne(q, byte) == IF q.quota THEN q ELSE Push(q, byte)

(* km_prog_write goes from one state to the next, byte by byte. *)
LEMMA WrittenIs ==
  ASSUME NEW p, NEW bytes, Len(bytes) \in Nat
  PROVE  \E f : /\ f[0] = p
                /\ \A i \in 1 .. Len(bytes) : f[i] = WriteOne(f[i - 1], bytes[i])
                /\ Written(p, bytes) = f[Len(bytes)]
<1> DEFINE y == Len(bytes)
           Turn(g, i) == IF i = 0 THEN p ELSE WriteOne(g[i - 1], bytes[i])
           Run(g, j) == g = [i \in 0 .. j |-> Turn(g, i)]
           S == {j \in 0 .. y : \E g : Run(g, j)}
<1>1. Written(p, bytes) = (CHOOSE g : Run(g, y))[y]
  BY DEF Written, WriteOne
<1>2. y \in Nat
  OBVIOUS
<1> HIDE DEF y
<1>3. 0 \in S
  <2> DEFINE g == [i \in 0 .. 0 |-> p]
  <2>1. g = [i \in 0 .. 0 |-> Turn(g, i)]
    OBVIOUS
  <2> HIDE DEF g
  <2> QED BY <1>2, <2>1
<1>4. ASSUME NEW j \in 0 .. y - 1, j \in S PROVE j + 1 \in S
  <2>1. PICK g : Run(g, j)
    BY <1>4
  <2> DEFINE h == [i \in 0 .. j + 1 |-> Turn(g, i)]
  <2>2. j \in Nat /\ j + 1 \in 0 .. y
    BY <1>2
  <2> HIDE DEF Turn
  <2>3. \A i \in 0 .. j : g[i] = Turn(g, i) /\ h[i] = g[i]
    BY <2>1, <2>2
  <2>4. \A i \in 0 .. j + 1 : Turn(h, i) = Turn(g, i)
    <3> SUFFICES ASSUME NEW i \in 0 .. j + 1 PROVE Turn(h, i) = Turn(g, i)
      OBVIOUS
    <3> HIDE DEF h
    <3>1. CASE i = 0
      BY <3>1 DEF Turn
    <3>2. CASE i # 0
      <4>1. i - 1 \in 0 .. j
        BY <2>2, <3>2
      <4> QED BY <2>3, <3>2, <4>1 DEF Turn
    <3> QED BY <3>1, <3>2
  <2>5. h = [i \in 0 .. j + 1 |-> Turn(h, i)]
    BY <2>4
  <2> HIDE DEF h
  <2> QED BY <2>2, <2>5
<1>5. y \in S
  <2> HIDE DEF S
  <2> QED BY <1>2, <1>3, <1>4, UpTo
<1>6. PICK f : f = (CHOOSE g : Run(g, y)) /\ Run(f, y)
  BY <1>5, Zenon
<1>7. \A i \in 0 .. y : f[i] = Turn(f, i)
  BY <1>6, <1>2
<1>8. f[0] = p /\ \A i \in 1 .. y : f[i] = WriteOne(f[i - 1], bytes[i])
  BY <1>2, <1>7
<1>9. Written(p, bytes) = f[y]
  BY <1>1, <1>6
<1> QED BY <1>8, <1>9 DEF y

(* What every byte written keeps, km_prog_write keeps. *)
LEMMA WrittenKeeps ==
  ASSUME NEW G, NEW p \in G, NEW bytes, Len(bytes) \in Nat,
         \A q \in G, i \in 1 .. Len(bytes) : ~ q.quota => Push(q, bytes[i]) \in G
  PROVE  Written(p, bytes) \in G
<1> DEFINE y == Len(bytes)
<1>1. PICK f : /\ f[0] = p
               /\ \A i \in 1 .. y : f[i] = WriteOne(f[i - 1], bytes[i])
               /\ Written(p, bytes) = f[y]
  BY WrittenIs
<1>2. y \in Nat /\ \A q \in G, i \in 1 .. y : WriteOne(q, bytes[i]) \in G
  BY DEF WriteOne
<1> DEFINE S == {j \in 0 .. y : f[j] \in G}
<1> HIDE DEF y
<1>3. 0 \in S
  BY <1>1, <1>2
<1>4. ASSUME NEW j \in 0 .. y - 1, j \in S PROVE j + 1 \in S
  <2>1. j + 1 \in 1 .. y /\ j + 1 \in 0 .. y /\ (j + 1) - 1 = j
    BY <1>2
  <2>2. f[j + 1] = WriteOne(f[j], bytes[j + 1])
    BY <1>1, <2>1
  <2> QED BY <1>2, <1>4, <2>1, <2>2
<1>5. y \in S
  <2> HIDE DEF S
  <2> QED BY <1>2, <1>3, <1>4, UpTo
<1> QED BY <1>1, <1>5

(* What a page and what the flash may hold. *)
AnyByte   == (Nat \X Int) \cup {PAD, NUL}
Cell      == AnyByte \cup {ERASED, GARBLED}
ProgState == [flash : [Address -> Cell], page : Seq(AnyByte), total : Nat,
              owned : BOOLEAN, quota : BOOLEAN]

(* What page_buffer_flush changes: a page, that of the last byte counted. *)
LEMMA FlushIs ==
  ASSUME NEW p \in ProgState, p.total >= 1
  PROVE  /\ Flush(p) \in ProgState
         /\ Flush(p).page = <<>> /\ Flush(p).total = p.total
         /\ Flush(p).owned = p.owned /\ Flush(p).quota = p.quota
         /\ \A a \in Address :
              Flush(p).flash[a] =
                IF a \in PageOf(p.total - 1) .. PageOf(p.total - 1) + PageSize - 1
                THEN Programmed(p.flash[a], IF a - PageOf(p.total - 1) < Len(p.page)
                                            THEN p.page[a - PageOf(p.total - 1) + 1] ELSE NUL)
                ELSE p.flash[a]
<1> DEFINE base == PageOf(p.total - 1)
           byte(a) == IF a - base < Len(p.page) THEN p.page[a - base + 1] ELSE NUL
           new == [a \in Address |-> IF a \in base .. base + PageSize - 1
                                     THEN Programmed(p.flash[a], byte(a)) ELSE p.flash[a]]
<1>1. Flush(p) = [p EXCEPT !.flash = new, !.page = <<>>]
  <2>1. p.total - 1 \in Nat
    BY DEF ProgState
  <2>2. ((p.total - 1) \div SectorSize) * SectorSize
          + (((p.total - 1) % SectorSize) \div PageSize) * PageSize = base
    BY <2>1, PageFound
  <2> HIDE DEF base
  <2> QED BY <2>2 DEF Flush
<1>2. base \in Nat /\ PageSize \in Nat \ {0} /\ Address \subseteq Nat
  <2>1. p.total - 1 \in Nat
    BY DEF ProgState
  <2>2. base \in Nat
    BY <2>1, PageAt
  <2>3. PROG_MAX \in Nat /\ PageSize \in Nat \ {0}
    BY ProgMax
  <2>4. Address \subseteq Nat
    BY <2>3 DEF Address
  <2> QED BY <2>2, <2>3, <2>4
<1>3. /\ p.flash \in [Address -> Cell] /\ p.page \in Seq(AnyByte) /\ p.total \in Nat
      /\ p.owned \in BOOLEAN /\ p.quota \in BOOLEAN
  BY DEF ProgState
<1> HIDE DEF base
<1>4. \A a \in Address : a \in base .. base + PageSize - 1 => byte(a) \in AnyByte
  <2> SUFFICES ASSUME NEW a \in Address, a \in base .. base + PageSize - 1 PROVE byte(a) \in AnyByte
    OBVIOUS
  <2>1. CASE a - base < Len(p.page)
    <3>1. a - base + 1 \in 1 .. Len(p.page)
      BY <1>2, <1>3, <2>1
    <3>2. p.page[a - base + 1] \in AnyByte
      BY <1>3, <3>1
    <3> QED BY <2>1, <3>2
  <2>2. CASE ~ (a - base < Len(p.page))
    BY <2>2 DEF AnyByte
  <2> QED BY <2>1, <2>2
<1>5. \A old \in Cell, b \in AnyByte : Programmed(old, b) \in Cell
  BY DEF Programmed, Cell, AnyByte
<1> HIDE DEF byte
<1>6. new \in [Address -> Cell]
  BY <1>3, <1>4, <1>5
<1>7. /\ Flush(p).flash = new /\ Flush(p).page = <<>> /\ Flush(p).total = p.total
      /\ Flush(p).owned = p.owned /\ Flush(p).quota = p.quota
      /\ Flush(p) = [flash |-> new, page |-> <<>>, total |-> p.total, owned |-> p.owned,
                     quota |-> p.quota]
  <2> HIDE DEF new
  <2> QED BY <1>1 DEF ProgState
<1>8. <<>> \in Seq(AnyByte)
  OBVIOUS
<1>9. Flush(p) \in ProgState
  <2> HIDE DEF new
  <2> QED BY <1>3, <1>6, <1>7, <1>8 DEF ProgState
<1> QED BY <1>7, <1>9 DEF byte, base

(* The state of prog.c before the check for the quota in page_buffer_push. *)
Counted(p, byte) == [p EXCEPT !.page = Append(@, byte), !.total = @ + 1]

LEMMA CountedIs ==
  ASSUME NEW p \in ProgState, NEW byte \in AnyByte
  PROVE  /\ Counted(p, byte) \in ProgState
         /\ Counted(p, byte) = [flash |-> p.flash, page |-> Append(p.page, byte),
                                total |-> p.total + 1, owned |-> p.owned, quota |-> p.quota]
         /\ Len(Append(p.page, byte)) = Len(p.page) + 1
         /\ Push(p, byte) = IF p.total + 1 >= PROG_MAX
                            THEN [Counted(p, byte) EXCEPT !.quota = TRUE]
                            ELSE IF Len(p.page) + 1 >= PageSize THEN Flush(Counted(p, byte))
                            ELSE Counted(p, byte)
<1>1. /\ p.flash \in [Address -> Cell] /\ p.page \in Seq(AnyByte) /\ p.total \in Nat
      /\ p.owned \in BOOLEAN /\ p.quota \in BOOLEAN
      /\ p = [flash |-> p.flash, page |-> p.page, total |-> p.total, owned |-> p.owned,
              quota |-> p.quota]
  BY DEF ProgState
<1>2. Counted(p, byte) = [flash |-> p.flash, page |-> Append(p.page, byte),
                          total |-> p.total + 1, owned |-> p.owned, quota |-> p.quota]
  <2> DEFINE a == Append(p.page, byte)
             n == p.total + 1
  <2>1. Counted(p, byte) = [p EXCEPT !.page = a, !.total = n]
    BY DEF Counted
  <2> HIDE DEF a, n
  <2>2. Counted(p, byte) = [flash |-> p.flash, page |-> a, total |-> n, owned |-> p.owned,
                            quota |-> p.quota]
    BY <2>1 DEF ProgState
  <2> QED BY <2>2 DEF a, n
<1>3. Append(p.page, byte) \in Seq(AnyByte) /\ Len(Append(p.page, byte)) = Len(p.page) + 1
  BY <1>1
<1>4. Counted(p, byte) \in ProgState
  BY <1>1, <1>2, <1>3 DEF ProgState
<1> DEFINE q == Counted(p, byte)
<1>5. Push(p, byte) = IF q.total >= PROG_MAX THEN [q EXCEPT !.quota = TRUE]
                      ELSE IF Len(q.page) >= PageSize THEN Flush(q) ELSE q
  <2> DEFINE full == [q EXCEPT !.quota = TRUE]
  <2>1. Push(p, byte) = IF q.total >= PROG_MAX THEN full
                        ELSE IF Len(q.page) >= PageSize THEN Flush(q) ELSE q
    BY DEF Push, Counted
  <2> HIDE DEF q, full
  <2> QED BY <2>1 DEF full
<1>6. q.total = p.total + 1 /\ q.page = Append(p.page, byte)
  BY <1>2
<1> QED BY <1>2, <1>3, <1>4, <1>5, <1>6

(* The counters of prog.c stay in their bounds, whatever is written. *)
ProgType ==
  {p \in ProgState : /\ p.total <= PROG_MAX /\ Len(p.page) <= PageSize
                     /\ ~ p.quota => p.total < PROG_MAX /\ Len(p.page) < PageSize}

LEMMA PushTyped ==
  ASSUME NEW p \in ProgType, ~ p.quota, NEW byte \in AnyByte
  PROVE  Push(p, byte) \in ProgType
<1>1. /\ p \in ProgState /\ p.total \in Nat /\ p.total < PROG_MAX /\ Len(p.page) < PageSize
      /\ Len(p.page) \in Nat
  BY DEF ProgType, ProgState
<1> DEFINE q == Counted(p, byte)
<1>2. /\ q \in ProgState /\ q.total = p.total + 1 /\ Len(q.page) = Len(p.page) + 1
      /\ q.quota = p.quota
      /\ Push(p, byte) = IF p.total + 1 >= PROG_MAX THEN [q EXCEPT !.quota = TRUE]
                         ELSE IF Len(p.page) + 1 >= PageSize THEN Flush(q) ELSE q
  BY <1>1, CountedIs
<1>3. PROG_MAX \in Nat /\ PageSize \in Nat
  BY ProgMax
<1> HIDE DEF q
<1>4. CASE p.total + 1 >= PROG_MAX
  <2> DEFINE r == [q EXCEPT !.quota = TRUE]
  <2>1. r \in ProgState /\ r.total = q.total /\ r.page = q.page /\ r.quota = TRUE
    BY <1>2 DEF ProgState
  <2> HIDE DEF r
  <2>2. r.total <= PROG_MAX /\ Len(r.page) <= PageSize
    BY <1>1, <1>2, <1>3, <2>1
  <2>3. r \in ProgType
    BY <2>1, <2>2 DEF ProgType
  <2> QED BY <1>2, <1>4, <2>3 DEF r
<1>5. CASE ~ (p.total + 1 >= PROG_MAX) /\ Len(p.page) + 1 >= PageSize
  <2>1. q.total >= 1
    BY <1>1, <1>2
  <2>2. /\ Flush(q) \in ProgState /\ Flush(q).page = <<>> /\ Flush(q).total = q.total
    BY <1>2, <2>1, FlushIs
  <2>3. /\ Flush(q).total < PROG_MAX /\ Flush(q).total <= PROG_MAX
        /\ Len(Flush(q).page) < PageSize /\ Len(Flush(q).page) <= PageSize
    BY <1>1, <1>2, <1>3, <1>5, <2>2, ProgMax
  <2>4. Flush(q) \in ProgType
    BY <2>2, <2>3 DEF ProgType
  <2> QED BY <1>2, <1>5, <2>4
<1>6. CASE ~ (p.total + 1 >= PROG_MAX) /\ ~ (Len(p.page) + 1 >= PageSize)
  <2>1. q.total < PROG_MAX /\ q.total <= PROG_MAX /\ Len(q.page) < PageSize /\ Len(q.page) <= PageSize
    BY <1>1, <1>2, <1>3, <1>6
  <2>2. q \in ProgType
    BY <1>2, <2>1 DEF ProgType
  <2> QED BY <1>2, <1>6, <2>2
<1> QED BY <1>4, <1>5, <1>6

(* km_prog_end, whatever was written before. *)
LEMMA EndedTyped == ASSUME NEW p \in ProgType PROVE Ended(p) \in ProgType
<1> DEFINE q == Push(p, NUL)
           r == IF q.page # <<>> THEN Flush(q) ELSE q
<1>1. p \in ProgState /\ NUL \in AnyByte /\ p.total \in Nat
  BY DEF ProgType, ProgState, AnyByte
<1>2. q \in ProgState /\ q.total >= 1
  <2> DEFINE c == Counted(p, NUL)
  <2>1. /\ c \in ProgState /\ c.total = p.total + 1 /\ c.total >= 1
        /\ q = IF p.total + 1 >= PROG_MAX THEN [c EXCEPT !.quota = TRUE]
               ELSE IF Len(p.page) + 1 >= PageSize THEN Flush(c) ELSE c
    BY <1>1, CountedIs
  <2>2. Flush(c) \in ProgState /\ Flush(c).total = c.total
    BY <2>1, FlushIs
  <2> HIDE DEF c
  <2>3. [c EXCEPT !.quota = TRUE] \in ProgState /\ [c EXCEPT !.quota = TRUE].total = c.total
    BY <2>1 DEF ProgState
  <2> HIDE DEF q
  <2>4. q = [c EXCEPT !.quota = TRUE] \/ q = Flush(c) \/ q = c
    BY <2>1
  <2> QED BY <2>1, <2>2, <2>3, <2>4
<1>3. Flush(q) \in ProgState /\ Flush(q).page = <<>>
  BY <1>2, FlushIs
<1> HIDE DEF q
<1>4. r \in ProgState /\ r.page = <<>>
  BY <1>2, <1>3
<1>5. Ended(p) = [r EXCEPT !.total = 0, !.owned = FALSE]
  BY DEF Ended, q
<1> HIDE DEF r
<1>6. Ended(p) \in ProgState /\ Ended(p).total = 0 /\ Ended(p).page = <<>>
  <2>1. Ended(p) = [flash |-> r.flash, page |-> r.page, total |-> 0, owned |-> FALSE,
                    quota |-> r.quota]
    BY <1>4, <1>5 DEF ProgState
  <2> QED BY <1>4, <2>1 DEF ProgState
<1>7. Ended(p).total < PROG_MAX /\ Len(Ended(p).page) < PageSize
  BY <1>6, ProgMax
<1>8. Ended(p).total <= PROG_MAX /\ Len(Ended(p).page) <= PageSize
  BY <1>6, ProgMax
<1> QED BY <1>6, <1>7, <1>8 DEF ProgType

-----------------------------------------------------------------------------
(***************************************************************************)
(* The state of prog.c after the first t bytes of file f were written.     *)
(***************************************************************************)
Stored(f, b)  == [a \in Address |-> IF a < b THEN Byte(f, a + 1) ELSE ERASED]
Page(f, b, n) == [j \in 1 .. n |-> Byte(f, b + j)]

PartProg(f, t) ==
  [flash |-> Stored(f, PageOf(t)), page |-> Page(f, PageOf(t), t % PageSize),
   total |-> t, owned |-> TRUE, quota |-> FALSE]

(* The byte that reaches the quota fills the last page, which stays in the
   buffer. *)
FullProg(f) ==
  [flash |-> Stored(f, PageOf(PROG_MAX - 1)), page |-> Page(f, PageOf(PROG_MAX - 1), PageSize),
   total |-> PROG_MAX, owned |-> TRUE, quota |-> TRUE]

After(f, t) == IF t < PROG_MAX THEN PartProg(f, t) ELSE FullProg(f)

(* An address is a number. *)
LEMMA AddressIs == Address \subseteq Nat /\ Address = 0 .. PROG_MAX - 1 /\ 0 \in Address
<1>1. PROG_MAX \in Nat \ {0}
  BY ProgMax
<1> QED BY <1>1 DEF Address

LEMMA PageIs ==
  ASSUME NEW f \in Nat, NEW b \in Nat, NEW n \in Nat
  PROVE  /\ Page(f, b, n) \in Seq(AnyByte) /\ Len(Page(f, b, n)) = n
         /\ \A j \in 1 .. n : Page(f, b, n)[j] = Byte(f, b + j)
         /\ Append(Page(f, b, n), Byte(f, b + (n + 1))) = Page(f, b, n + 1)
         /\ Page(f, b, 0) = <<>>
<1>1. \A m \in Nat : Page(f, b, m) \in Seq(AnyByte) /\ Len(Page(f, b, m)) = m
  <2> SUFFICES ASSUME NEW m \in Nat
               PROVE  Page(f, b, m) \in Seq(AnyByte) /\ Len(Page(f, b, m)) = m
    OBVIOUS
  <2>1. \A j \in 1 .. m : Byte(f, b + j) \in AnyByte
    BY DEF Byte, AnyByte
  <2> QED BY <2>1 DEF Page
<1>2. \A m \in Nat : \A j \in 1 .. m : Page(f, b, m)[j] = Byte(f, b + j)
  BY DEF Page
<1>3. Append(Page(f, b, n), Byte(f, b + (n + 1))) = Page(f, b, n + 1)
  <2> DEFINE s == Page(f, b, n)
             e == Byte(f, b + (n + 1))
             u == Page(f, b, n + 1)
  <2>1. e \in AnyByte
    BY DEF Byte, AnyByte
  <2>2. s \in Seq(AnyByte) /\ u \in Seq(AnyByte) /\ Len(s) = n /\ Len(u) = n + 1
    BY <1>1
  <2>3. \A j \in 1 .. n : s[j] = u[j]
    BY <1>2
  <2>4. u[n + 1] = e
    BY <1>2
  <2> HIDE DEF s, e, u
  <2>5. Append(s, e) \in Seq(AnyByte) /\ Len(Append(s, e)) = n + 1
    BY <2>1, <2>2
  <2>6. \A j \in 1 .. n + 1 : Append(s, e)[j] = u[j]
    BY <2>1, <2>2, <2>3, <2>4
  <2>7. Append(s, e) = u
    BY <2>2, <2>5, <2>6
  <2> QED BY <2>7 DEF s, e, u
<1>4. Page(f, b, 0) = <<>>
  <2> DEFINE s == Page(f, b, 0)
  <2>1. s \in Seq(AnyByte) /\ Len(s) = 0
    BY <1>1
  <2> HIDE DEF s
  <2>2. s = <<>>
    BY <2>1
  <2> QED BY <2>2 DEF s
<1> QED BY <1>1, <1>2, <1>3, <1>4

LEMMA PartIs ==
  ASSUME NEW f \in Nat, NEW t \in Nat
  PROVE  PartProg(f, t) \in ProgState
<1>1. PageOf(t) \in Nat /\ t % PageSize \in Nat
  <2>1. t % PageSize \in 0 .. PageSize - 1 /\ PageSize \in Nat
    BY PageAt, ProgMax
  <2> QED BY <2>1, PageAt
<1>2. Page(f, PageOf(t), t % PageSize) \in Seq(AnyByte)
  BY <1>1, PageIs
<1>3. Stored(f, PageOf(t)) \in [Address -> Cell]
  BY AddressIs DEF Stored, Cell, AnyByte, Byte
<1> QED BY <1>2, <1>3 DEF PartProg, ProgState

LEMMA QuotaReached ==
  ASSUME NEW p \in ProgState
  PROVE  [p EXCEPT !.quota = TRUE] =
           [flash |-> p.flash, page |-> p.page, total |-> p.total, owned |-> p.owned, quota |-> TRUE]
<1> DEFINE x == TRUE
<1> HIDE DEF x
<1>1. [p EXCEPT !.quota = x] =
        [flash |-> p.flash, page |-> p.page, total |-> p.total, owned |-> p.owned, quota |-> x]
  BY DEF ProgState
<1> QED BY <1>1 DEF x

(* One byte more. *)
LEMMA PushPart ==
  ASSUME NEW f \in Nat, NEW t \in Nat, t < PROG_MAX
  PROVE  Push(PartProg(f, t), Byte(f, t + 1)) = After(f, t + 1)
<1> DEFINE p == PartProg(f, t)
           byte == Byte(f, t + 1)
           b == PageOf(t)
           n == t % PageSize
           c == Counted(p, byte)
<1>1. p \in ProgState /\ byte \in AnyByte /\ PageSize \in Nat \ {0} /\ PROG_MAX \in Nat
  BY PartIs, ProgMax DEF AnyByte, Byte
<1>2. /\ b \in Nat /\ n \in 0 .. PageSize - 1 /\ t = b + n
      /\ n + 1 < PageSize => (t + 1) % PageSize = n + 1 /\ PageOf(t + 1) = b
      /\ n + 1 >= PageSize => (t + 1) % PageSize = 0 /\ PageOf(t + 1) = t + 1 /\ t + 1 = b + PageSize
  BY PageAt
<1>3. /\ p.flash = Stored(f, b) /\ p.page = Page(f, b, n) /\ p.total = t
      /\ p.owned = TRUE /\ p.quota = FALSE
  BY DEF PartProg
<1>4. /\ c \in ProgState
      /\ c = [flash |-> p.flash, page |-> Append(p.page, byte), total |-> p.total + 1,
              owned |-> p.owned, quota |-> p.quota]
      /\ Push(p, byte) = IF p.total + 1 >= PROG_MAX THEN [c EXCEPT !.quota = TRUE]
                         ELSE IF Len(p.page) + 1 >= PageSize THEN Flush(c) ELSE c
  BY <1>1, CountedIs
<1>5. Len(p.page) = n /\ Append(p.page, byte) = Page(f, b, n + 1)
  <2> HIDE DEF p, b, n
  <2>1. n \in Nat /\ byte = Byte(f, b + (n + 1))
    BY <1>1, <1>2
  <2>2. Len(Page(f, b, n)) = n /\ Append(Page(f, b, n), Byte(f, b + (n + 1))) = Page(f, b, n + 1)
    <3>1. b \in Nat /\ n \in Nat
      BY <1>2, <2>1
    <3> QED BY <3>1, PageIs, Zenon
  <2> HIDE DEF byte
  <2> QED BY <1>3, <2>1, <2>2, Zenon
<1> HIDE DEF p, b, n, byte
<1>6. c = [flash |-> Stored(f, b), page |-> Page(f, b, n + 1), total |-> t + 1, owned |-> TRUE,
           quota |-> FALSE]
  BY <1>3, <1>4, <1>5
<1> HIDE DEF c
<1>7. Push(p, byte) = IF t + 1 >= PROG_MAX THEN [c EXCEPT !.quota = TRUE]
                      ELSE IF n + 1 >= PageSize THEN Flush(c) ELSE c
  BY <1>3, <1>4, <1>5
<1>8. CASE t + 1 >= PROG_MAX
  <2>1. t + 1 = PROG_MAX /\ PROG_MAX - 1 = t
    BY <1>1, <1>8
  <2>2. n + 1 = PageSize
    <3>1. (t + 1) % PageSize = 0
      BY <2>1, ProgMax
    <3> QED BY <1>1, <1>2, <3>1
  <2>3. [c EXCEPT !.quota = TRUE] =
          [flash |-> Stored(f, b), page |-> Page(f, b, n + 1), total |-> t + 1, owned |-> TRUE,
           quota |-> TRUE]
    <3> DEFINE fl == Stored(f, b)
               pg == Page(f, b, n + 1)
               to == t + 1
    <3>1. c = [flash |-> fl, page |-> pg, total |-> to, owned |-> TRUE, quota |-> FALSE]
      BY <1>6
    <3> HIDE DEF fl, pg, to
    <3>2. [c EXCEPT !.quota = TRUE] =
            [flash |-> c.flash, page |-> c.page, total |-> c.total, owned |-> c.owned,
             quota |-> TRUE]
      BY <1>4, QuotaReached
    <3>3. c.flash = fl /\ c.page = pg /\ c.total = to /\ c.owned = TRUE
      BY <3>1
    <3>4. [c EXCEPT !.quota = TRUE] =
            [flash |-> fl, page |-> pg, total |-> to, owned |-> TRUE, quota |-> TRUE]
      BY <3>2, <3>3, Zenon
    <3> QED BY <3>4 DEF fl, pg, to
  <2>4. [c EXCEPT !.quota = TRUE] = FullProg(f)
    BY <2>1, <2>2, <2>3 DEF FullProg, b
  <2>5. After(f, t + 1) = FullProg(f)
    BY <1>1, <2>1 DEF After
  <2>6. Push(p, byte) = FullProg(f)
    BY <1>7, <1>8, <2>4
  <2> QED BY <2>5, <2>6 DEF p, byte
<1>9. CASE ~ (t + 1 >= PROG_MAX) /\ n + 1 >= PageSize
  <2>1. /\ (t + 1) % PageSize = 0 /\ PageOf(t + 1) = t + 1 /\ t + 1 = b + PageSize
        /\ n + 1 = PageSize
    BY <1>1, <1>2, <1>9
  <2>2. c.total - 1 = t /\ c.total >= 1 /\ c.page = Page(f, b, PageSize) /\ c.flash = Stored(f, b)
    BY <1>6, <2>1
  <2> DEFINE d == Flush(c)
  <2>3. /\ d \in ProgState /\ d.page = <<>> /\ d.total = c.total
        /\ d.owned = c.owned /\ d.quota = c.quota
        /\ \A a \in Address :
             d.flash[a] = IF a \in PageOf(c.total - 1) .. PageOf(c.total - 1) + PageSize - 1
                          THEN Programmed(c.flash[a],
                                 IF a - PageOf(c.total - 1) < Len(c.page)
                                 THEN c.page[a - PageOf(c.total - 1) + 1] ELSE NUL)
                          ELSE c.flash[a]
    BY <1>4, <2>2, FlushIs
  <2> HIDE DEF d
  <2>4. \A a \in Address :
          d.flash[a] = IF a \in b .. b + PageSize - 1
                       THEN Programmed(Stored(f, b)[a],
                              IF a - b < Len(Page(f, b, PageSize))
                              THEN Page(f, b, PageSize)[a - b + 1] ELSE NUL)
                       ELSE Stored(f, b)[a]
    BY <2>2, <2>3 DEF b
  <2>5. ASSUME NEW a \in Address PROVE d.flash[a] = Stored(f, t + 1)[a]
    <3>1. a \in Nat
      BY AddressIs
    <3>2. CASE a \in b .. b + PageSize - 1
      <4>1. Len(Page(f, b, PageSize)) = PageSize /\ a - b + 1 \in 1 .. PageSize
        BY <1>1, <1>2, <3>1, <3>2, PageIs
      <4>2. Page(f, b, PageSize)[a - b + 1] = Byte(f, b + (a - b + 1))
        <5>1. b \in Nat /\ PageSize \in Nat
          BY <1>1, <1>2
        <5> DEFINE g == Page(f, b, PageSize)
        <5>2. \A j \in 1 .. PageSize : g[j] = Byte(f, b + j)
          BY <5>1, PageIs
        <5> HIDE DEF g
        <5>3. g[a - b + 1] = Byte(f, b + (a - b + 1))
          BY <4>1, <5>2
        <5> QED BY <5>3 DEF g
      <4>3. b + (a - b + 1) = a + 1 /\ a - b < PageSize /\ ~ (a < b) /\ a < t + 1
        BY <1>1, <1>2, <2>1, <3>1, <3>2
      <4>4. d.flash[a] = Programmed(ERASED, Byte(f, a + 1))
        BY <2>4, <3>2, <4>1, <4>2, <4>3 DEF Stored
      <4> QED BY <4>3, <4>4 DEF Programmed, Stored
    <3>3. CASE ~ (a \in b .. b + PageSize - 1)
      <4>1. a < b <=> a < t + 1
        BY <1>1, <1>2, <2>1, <3>1, <3>3
      <4> QED BY <2>4, <3>3, <4>1 DEF Stored
    <3> QED BY <3>2, <3>3
  <2>6. d.flash = Stored(f, t + 1)
    <3>1. d.flash \in [Address -> Cell]
      BY <2>3 DEF ProgState
    <3> QED BY <2>5, <3>1 DEF Stored
  <2>7. d = [flash |-> Stored(f, t + 1), page |-> <<>>, total |-> t + 1, owned |-> TRUE,
             quota |-> FALSE]
    <3>1. d = [flash |-> d.flash, page |-> d.page, total |-> d.total, owned |-> d.owned,
               quota |-> d.quota]
      BY <2>3 DEF ProgState
    <3> QED BY <1>6, <2>3, <2>6, <3>1
  <2>8. Page(f, t + 1, 0) = <<>>
    BY PageIs
  <2>9. d = PartProg(f, t + 1)
    BY <2>1, <2>7, <2>8 DEF PartProg
  <2>10. t + 1 < PROG_MAX
    BY <1>1, <1>9
  <2> QED BY <1>7, <1>9, <2>9, <2>10 DEF After, p, byte, d
<1>10. CASE ~ (t + 1 >= PROG_MAX) /\ ~ (n + 1 >= PageSize)
  <2>1. (t + 1) % PageSize = n + 1 /\ PageOf(t + 1) = b
    BY <1>1, <1>2, <1>10
  <2>2. c = PartProg(f, t + 1)
    BY <1>6, <2>1 DEF PartProg
  <2>3. t + 1 < PROG_MAX
    BY <1>1, <1>10
  <2> QED BY <1>7, <1>10, <2>2, <2>3 DEF After, p, byte
<1> QED BY <1>8, <1>9, <1>10

(* km_prog_write stores the bytes of a file that it is given. *)
LEMMA WrittenAfter ==
  ASSUME NEW f \in Nat, NEW t \in Nat, NEW bytes, Len(bytes) \in Nat,
         \A i \in 1 .. Len(bytes) : bytes[i] = Byte(f, t + i)
  PROVE  Written(After(f, t), bytes) = After(f, t + Len(bytes))
<1> DEFINE y == Len(bytes)
<1>1. PICK g : /\ g[0] = After(f, t)
               /\ \A i \in 1 .. y : g[i] = WriteOne(g[i - 1], bytes[i])
               /\ Written(After(f, t), bytes) = g[y]
  BY WrittenIs
<1>2. y \in Nat /\ \A i \in 1 .. y : bytes[i] = Byte(f, t + i)
  OBVIOUS
<1>3. PROG_MAX \in Nat
  BY ProgMax
<1> HIDE DEF y
<1>4. \A u \in Nat : WriteOne(After(f, u), Byte(f, u + 1)) = After(f, u + 1)
  <2> SUFFICES ASSUME NEW u \in Nat PROVE WriteOne(After(f, u), Byte(f, u + 1)) = After(f, u + 1)
    OBVIOUS
  <2>1. CASE u < PROG_MAX
    <3>1. After(f, u) = PartProg(f, u) /\ PartProg(f, u).quota = FALSE
      BY <2>1 DEF After, PartProg
    <3> QED BY <2>1, <3>1, PushPart DEF WriteOne
  <2>2. CASE ~ (u < PROG_MAX)
    <3>1. ~ (u + 1 < PROG_MAX)
      BY <1>3, <2>2
    <3>2. After(f, u) = FullProg(f) /\ After(f, u + 1) = FullProg(f) /\ FullProg(f).quota = TRUE
      BY <2>2, <3>1 DEF After, FullProg
    <3> QED BY <3>2 DEF WriteOne
  <2> QED BY <2>1, <2>2
<1> DEFINE S == {j \in 0 .. y : g[j] = After(f, t + j)}
<1>5. 0 \in S
  <2>1. t + 0 = t
    OBVIOUS
  <2> QED BY <1>1, <1>2, <2>1
<1>6. ASSUME NEW j \in 0 .. y - 1, j \in S PROVE j + 1 \in S
  <2>1. j + 1 \in 1 .. y /\ j + 1 \in 0 .. y /\ (j + 1) - 1 = j /\ t + j \in Nat
        /\ t + (j + 1) = (t + j) + 1
    BY <1>2
  <2>2. g[j + 1] = WriteOne(g[j], bytes[j + 1]) /\ bytes[j + 1] = Byte(f, t + (j + 1))
    BY <1>1, <1>2, <2>1
  <2>3. g[j + 1] = WriteOne(After(f, t + j), Byte(f, (t + j) + 1))
    BY <1>6, <2>1, <2>2
  <2>4. g[j + 1] = After(f, (t + j) + 1)
    <3> DEFINE u == t + j
    <3> HIDE DEF u
    <3>1. u \in Nat /\ g[j + 1] = WriteOne(After(f, u), Byte(f, u + 1))
      BY <2>1, <2>3 DEF u
    <3>2. g[j + 1] = After(f, u + 1)
      BY <1>4, <3>1
    <3> QED BY <3>2 DEF u
  <2> QED BY <2>1, <2>4
<1>7. y \in S
  <2> HIDE DEF S
  <2> QED BY <1>2, <1>5, <1>6, UpTo
<1> QED BY <1>1, <1>7 DEF y

(* The end of a file: all of it is in the flash, followed by zeros up to the
   end of its last page. *)
LEMMA EndedIs ==
  ASSUME NEW f \in Nat, NEW t \in Nat, t < PROG_MAX
  PROVE  \A a \in Address :
           /\ a < t => Ended(PartProg(f, t)).flash[a] = Byte(f, a + 1)
           /\ a = t => Ended(PartProg(f, t)).flash[a] = NUL
           /\ a > t => Ended(PartProg(f, t)).flash[a] \in {NUL, ERASED}
<1> DEFINE p == PartProg(f, t)
           b == PageOf(t)
           n == t % PageSize
           c == Counted(p, NUL)
           x == [c EXCEPT !.quota = TRUE]
           q == Push(p, NUL)
<1>1. p \in ProgState /\ NUL \in AnyByte /\ PageSize \in Nat \ {0} /\ PROG_MAX \in Nat
  BY PartIs, ProgMax DEF AnyByte
<1>2. b \in Nat /\ n \in 0 .. PageSize - 1 /\ t = b + n
  BY PageAt
<1>3. /\ p.flash = Stored(f, b) /\ p.page = Page(f, b, n) /\ p.total = t
  BY DEF PartProg
<1>4. /\ c \in ProgState
      /\ c = [flash |-> p.flash, page |-> Append(p.page, NUL), total |-> p.total + 1,
              owned |-> p.owned, quota |-> p.quota]
      /\ q = IF p.total + 1 >= PROG_MAX THEN x
             ELSE IF Len(p.page) + 1 >= PageSize THEN Flush(c) ELSE c
  BY <1>1, CountedIs
<1> HIDE DEF p, b, n
<1>5. /\ c.flash = Stored(f, b) /\ c.page = Append(Page(f, b, n), NUL) /\ c.total = t + 1
      /\ c.total - 1 = t /\ c.total >= 1
  BY <1>3, <1>4
<1> HIDE DEF c
<1>6. x \in ProgState /\ x.flash = c.flash /\ x.page = c.page /\ x.total = c.total
  BY <1>4 DEF ProgState
<1> HIDE DEF x
<1>7. n \in Nat /\ Page(f, b, n) \in Seq(AnyByte) /\ Len(Page(f, b, n)) = n
  BY <1>1, <1>2, PageIs
<1>8. Len(c.page) = n + 1 /\ c.page # <<>>
  <2> DEFINE s == Page(f, b, n)
  <2>1. s \in Seq(AnyByte) /\ Len(s) = n /\ c.page = Append(s, NUL)
    BY <1>5, <1>7
  <2> HIDE DEF s
  <2>2. NUL \in AnyByte
    BY <1>1
  <2>3. Len(Append(s, NUL)) = Len(s) + 1
    BY <2>1, <2>2
  <2>4. n + 1 # 0
    BY <1>7
  <2> DEFINE e == Append(s, NUL)
  <2> HIDE DEF e
  <2>5. e # <<>>
    BY <2>1, <2>3, <2>4 DEF e
  <2> QED BY <2>1, <2>3, <2>5 DEF e
<1>9. Flush(c).page = <<>> /\ Flush(x).flash = Flush(c).flash
  <2>1. Flush(c) \in ProgState /\ Flush(x) \in ProgState /\ Flush(c).page = <<>>
    BY <1>4, <1>5, <1>6, FlushIs
  <2>2. Flush(c).flash \in [Address -> Cell] /\ Flush(x).flash \in [Address -> Cell]
    BY <2>1 DEF ProgState
  <2>3. \A a \in Address : Flush(x).flash[a] = Flush(c).flash[a]
    <3> DEFINE At(z, a) ==
                 IF a \in PageOf(z.total - 1) .. PageOf(z.total - 1) + PageSize - 1
                 THEN Programmed(z.flash[a], IF a - PageOf(z.total - 1) < Len(z.page)
                                             THEN z.page[a - PageOf(z.total - 1) + 1] ELSE NUL)
                 ELSE z.flash[a]
    <3>1. \A a \in Address : Flush(c).flash[a] = At(c, a)
      BY <1>4, <1>5, FlushIs
    <3>2. \A a \in Address : Flush(x).flash[a] = At(x, a)
      BY <1>5, <1>6, FlushIs
    <3>3. \A a \in Address : At(x, a) = At(c, a)
      BY <1>6, Zenon
    <3> QED BY <3>1, <3>2, <3>3, Zenon
  <2> QED BY <2>1, <2>2, <2>3
<1>10. Ended(p).flash = Flush(c).flash
  <2> DEFINE r == IF q.page # <<>> THEN Flush(q) ELSE q
  <2>1. Ended(p) = [r EXCEPT !.total = 0, !.owned = FALSE]
    BY DEF Ended
  <2>2. r \in ProgState /\ r.flash = Flush(c).flash
    <3>1. Flush(c) \in ProgState /\ Flush(x) \in ProgState
      BY <1>4, <1>5, <1>6, FlushIs
    <3> HIDE DEF q
    <3>2. CASE q = x
      BY <1>6, <1>8, <1>9, <3>1, <3>2
    <3>3. CASE q = Flush(c)
      BY <1>9, <3>1, <3>3
    <3>4. CASE q = c
      BY <1>8, <3>1, <3>4
    <3> QED BY <1>4, <3>2, <3>3, <3>4
  <2> HIDE DEF r
  <2> QED BY <2>1, <2>2 DEF ProgState
<1> SUFFICES ASSUME NEW a \in Address
             PROVE  /\ a < t => Flush(c).flash[a] = Byte(f, a + 1)
                    /\ a = t => Flush(c).flash[a] = NUL
                    /\ a > t => Flush(c).flash[a] \in {NUL, ERASED}
  BY <1>10 DEF p
<1>11. a \in Nat
  BY AddressIs
<1>12. Flush(c).flash[a] =
         IF a \in b .. b + PageSize - 1
         THEN Programmed(Stored(f, b)[a], IF a - b < n + 1 THEN c.page[a - b + 1] ELSE NUL)
         ELSE Stored(f, b)[a]
  <2>1. Flush(c).flash[a] =
          IF a \in PageOf(c.total - 1) .. PageOf(c.total - 1) + PageSize - 1
          THEN Programmed(c.flash[a], IF a - PageOf(c.total - 1) < Len(c.page)
                                      THEN c.page[a - PageOf(c.total - 1) + 1] ELSE NUL)
          ELSE c.flash[a]
    BY <1>4, <1>5, FlushIs
  <2>2. PageOf(c.total - 1) = b
    BY <1>5 DEF b
  <2> QED BY <1>5, <1>8, <2>1, <2>2, Zenon
<1>13. CASE a \in b .. b + PageSize - 1
  <2>1. Stored(f, b)[a] = ERASED
    BY <1>2, <1>11, <1>13 DEF Stored
  <2>2. Flush(c).flash[a] = IF a - b < n + 1 THEN c.page[a - b + 1] ELSE NUL
    BY <1>12, <1>13, <2>1 DEF Programmed
  <2>3. CASE a < t
    <3>1. a - b < n + 1 /\ a - b + 1 \in 1 .. n /\ b + (a - b + 1) = a + 1
      BY <1>2, <1>11, <1>13, <2>3
    <3>2. c.page[a - b + 1] = Page(f, b, n)[a - b + 1]
      BY <1>1, <1>5, <1>7, <3>1
    <3>3. Page(f, b, n)[a - b + 1] = Byte(f, b + (a - b + 1))
      BY <1>2, <1>7, <3>1, PageIs
    <3>4. ~ (a = t) /\ ~ (a > t)
      BY <1>11, <2>3
    <3> QED BY <2>2, <3>1, <3>2, <3>3, <3>4
  <2>4. CASE a = t
    <3>1. a - b < n + 1 /\ a - b + 1 = n + 1
      BY <1>2, <1>11, <2>4
    <3>2. c.page[n + 1] = NUL
      BY <1>1, <1>5, <1>7
    <3>3. ~ (a < t) /\ ~ (a > t)
      BY <1>11, <2>4
    <3> QED BY <2>2, <3>1, <3>2, <3>3
  <2>5. CASE a > t
    <3>1. ~ (a - b < n + 1) /\ ~ (a < t) /\ ~ (a = t)
      BY <1>2, <1>11, <2>5
    <3> QED BY <2>2, <3>1
  <2> QED BY <1>11, <2>3, <2>4, <2>5
<1>14. CASE ~ (a \in b .. b + PageSize - 1)
  <2>1. a < b <=> a < t
    BY <1>1, <1>2, <1>11, <1>14
  <2>2. Flush(c).flash[a] = IF a < t THEN Byte(f, a + 1) ELSE ERASED
    BY <1>12, <1>14, <2>1 DEF Stored
  <2>3. a # t
    BY <1>1, <1>2, <1>14
  <2> QED BY <1>11, <2>2, <2>3
<1> QED BY <1>13, <1>14

(* km_prog_get_size finds the end of string. *)
LEMMA SizeFound ==
  ASSUME NEW p, NEW f \in Nat, NEW t \in Nat, t < PROG_MAX,
         \A a \in Address : /\ a < t => p.flash[a] = Byte(f, a + 1)
                            /\ a = t => p.flash[a] = NUL
  PROVE  GetSize(p) = t
<1>1. t \in Address
  BY AddressIs, ProgMax
<1>2. \A i \in Nat : Byte(f, i) # NUL /\ Byte(f, i) # ERASED
  BY TextAssumption DEF Byte
<1>3. p.flash[0] # ERASED
  <2>1. CASE t = 0
    BY <2>1, AddressIs, TextAssumption
  <2>2. CASE t # 0
    BY <1>2, <2>2, AddressIs
  <2> QED BY <2>1, <2>2
<1>4. t \in Ends(p)
  BY <1>1 DEF Ends
<1>5. \A a \in Ends(p) : t <= a
  <2> SUFFICES ASSUME NEW a \in Ends(p) PROVE ~ (a < t)
    BY AddressIs DEF Ends
  <2>1. a \in Address /\ a \in Nat /\ p.flash[a] = NUL
    BY AddressIs DEF Ends
  <2> QED BY <1>2, <2>1
<1>6. \A a \in Ends(p) : (\A b \in Ends(p) : a <= b) => a = t
  <2>1. \A a \in Ends(p) : a \in Nat
    BY AddressIs DEF Ends
  <2> QED BY <1>4, <1>5, <2>1
<1>7. (CHOOSE a \in Ends(p) : \A b \in Ends(p) : a <= b) = t
  BY <1>4, <1>5, <1>6
<1> QED BY <1>3, <1>4, <1>7 DEF GetSize

LEMMA FreshTyped ==
  /\ FreshProg \in ProgType
  /\ \A p : Begun(p) \in ProgType /\ ~ Begun(p).quota
  /\ \A p \in ProgType : Cleared(p) \in ProgType /\ Cleared(p).quota = p.quota
<1> DEFINE e == ErasedFlash
<1>1. e \in [Address -> Cell]
  BY DEF ErasedFlash, Cell
<1>2. PROG_MAX \in Nat \ {0} /\ PageSize \in Nat \ {0} /\ 0 < PROG_MAX /\ 0 < PageSize
  BY ProgMax
<1>3. <<>> \in Seq(AnyByte) /\ Len(<<>>) = 0
  OBVIOUS
<1>4. FreshProg \in ProgType
  <2> HIDE DEF e
  <2>1. FreshProg = [flash |-> e, page |-> <<>>, total |-> 0, owned |-> FALSE, quota |-> FALSE]
    BY DEF FreshProg, e
  <2>2. FreshProg \in ProgState
    BY <1>1, <1>3, <2>1 DEF ProgState
  <2> QED BY <1>2, <1>3, <2>1, <2>2 DEF ProgType
<1>5. \A p : Begun(p) \in ProgType /\ ~ Begun(p).quota
  <2> SUFFICES ASSUME NEW p PROVE Begun(p) \in ProgType /\ ~ Begun(p).quota
    OBVIOUS
  <2> HIDE DEF e
  <2>1. Begun(p) = [flash |-> e, page |-> <<>>, total |-> 0, owned |-> TRUE, quota |-> FALSE]
    <3> DEFINE x == TRUE
               y == FALSE
    <3> HIDE DEF x, y
    <3>1. [[flash |-> e, page |-> <<>>, total |-> 0, owned |-> y, quota |-> y] EXCEPT !.owned = x]
            = [flash |-> e, page |-> <<>>, total |-> 0, owned |-> x, quota |-> y]
      OBVIOUS
    <3> QED BY <3>1 DEF Begun, FreshProg, e, x, y
  <2>2. Begun(p) \in ProgState
    BY <1>1, <1>3, <2>1 DEF ProgState
  <2> QED BY <1>2, <1>3, <2>1, <2>2 DEF ProgType
<1>6. ASSUME NEW p \in ProgType PROVE Cleared(p) \in ProgType /\ Cleared(p).quota = p.quota
  <2> HIDE DEF e
  <2>1. p \in ProgState
    BY DEF ProgType
  <2>2. Cleared(p) = [flash |-> e, page |-> p.page, total |-> p.total, owned |-> p.owned,
                      quota |-> p.quota]
    BY <2>1 DEF Cleared, ProgState, e
  <2>3. Cleared(p) \in ProgState
    BY <1>1, <2>1, <2>2 DEF ProgState
  <2> QED BY <2>2, <2>3 DEF ProgType
<1> QED BY <1>4, <1>5, <1>6

(* km_prog_write, whatever it is given. *)
LEMMA WrittenTyped ==
  ASSUME NEW p \in ProgType, NEW bytes \in Seq(AnyByte)
  PROVE  Written(p, bytes) \in ProgType
<1>1. Len(bytes) \in Nat /\ \A i \in 1 .. Len(bytes) : bytes[i] \in AnyByte
  OBVIOUS
<1>2. \A q \in ProgType, i \in 1 .. Len(bytes) : ~ q.quota => Push(q, bytes[i]) \in ProgType
  BY <1>1, PushTyped
<1> QED BY <1>1, <1>2, WrittenKeeps
-----------------------------------------------------------------------------
(***************************************************************************)
(* The types of the session.                                               *)
(***************************************************************************)
States == {"off", "offer", "header", "ready", "block", "eot", "end"}
Replies == {"ACK", "NAK", "C", "CA"}

(* A packet with bytes names a file of the batch. *)
Sendable(b) == {m \in Message : m.what \in {"header", "data"} => m.file \in 1 .. Len(b)}

SessionType ==
  /\ mode \in {"idle", "receiving"}
  /\ result \in {"none", "OK", "ABORT", "LIMIT", "DATA"}
  /\ received \in Nat /\ begun \in BOOLEAN /\ errors \in 0 .. MaxErrors + 1
  /\ remained \in Nat
  /\ file \in 0 .. Len(batch)
  /\ mishaps \in 0 .. MaxMishaps

(* While packets are stored the quota has not been reached. *)
ProgramType ==
  prog \in ProgType /\ (mode = "receiving" /\ received > 0 => ~ prog.quota)

LineType == toReceiver \in Seq(Sendable(batch)) /\ toSender \in Seq(Replies)

(* A sender that has a file, or offers one. *)
InBatch(s, b) ==
  /\ s.state \in {"header", "ready", "block", "eot"} => s.file \in 1 .. Len(b)
  /\ s.state = "offer" => s.file >= 1

HostType ==
  /\ batch \in Seq(Nat) /\ batch \in Batches \cup {<<>>}
  /\ sender \in [state : States, file : Nat, block : Nat]
  /\ InBatch(sender, batch)

UploadType == SessionType /\ ProgramType /\ LineType /\ HostType

LEMMA UploadTypeStart == Init => UploadType
<1> SUFFICES ASSUME Init PROVE UploadType
  OBVIOUS
<1>1. <<>> \in Seq(Nat) /\ Len(<<>>) = 0 /\ <<>> \in Seq(Sendable(<<>>)) /\ <<>> \in Seq(Replies)
  OBVIOUS
<1>2. SessionType
  <2>1. 0 \in 0 .. MaxErrors + 1 /\ 0 \in 0 .. MaxMishaps
    BY YmodemAssumption
  <2>2. 0 \in 0 .. Len(batch)
    BY <1>1 DEF Init
  <2> QED BY <2>1, <2>2 DEF Init, SessionType
<1>3. ProgramType
  BY FreshTyped DEF Init, ProgramType
<1>4. LineType
  BY <1>1 DEF Init, LineType
<1>5. HostType
  BY <1>1 DEF Init, HostType, Off, States, InBatch
<1> QED BY <1>2, <1>3, <1>4, <1>5 DEF UploadType

LEMMA UploadTypeIs == UploadType => TypeOK
<1> SUFFICES ASSUME UploadType PROVE TypeOK
  OBVIOUS
<1>1. toReceiver \in Seq(Message)
  <2>1. Sendable(batch) \subseteq Message
    BY DEF Sendable
  <2>2. toReceiver \in Seq(Sendable(batch))
    BY DEF UploadType, LineType
  <2> HIDE DEF UploadType
  <2> QED BY <2>1, <2>2
<1>2. DOMAIN prog.flash = Address /\ prog.total \in 0 .. PROG_MAX /\ Len(prog.page) <= PageSize
  <2>1. prog \in ProgState /\ prog.total <= PROG_MAX /\ Len(prog.page) <= PageSize
    BY DEF UploadType, ProgramType, ProgType
  <2> QED BY <2>1, ProgMax DEF ProgState
<1>3. sender.state \in States
  BY DEF UploadType, HostType
<1> QED BY <1>1, <1>2, <1>3 DEF UploadType, SessionType, LineType, HostType, TypeOK, States, Replies
-----------------------------------------------------------------------------
(***************************************************************************)
(* What the steps do to the line.                                          *)
(***************************************************************************)

(* A reply goes to the end of the line, or nowhere. *)
LEMMA ReplyTyped ==
  ASSUME LineType, NEW rs \in Seq(Replies), Reply(rs)
  PROVE  toSender' \in Seq(Replies)
<1>1. toSender \o rs \in Seq(Replies) /\ <<>> \in Seq(Replies)
  BY DEF LineType
<1> QED BY <1>1 DEF Reply

(* Taking the first packet, damaging it, adding one. *)
LEMMA LineMoves ==
  ASSUME NEW S, NEW q \in Seq(S), NEW m \in S
  PROVE  /\ Append(q, m) \in Seq(S)
         /\ q # <<>> => Tail(q) \in Seq(S) /\ Head(q) \in S /\ <<m>> \o Tail(q) \in Seq(S)
<1>1. q # <<>> => Tail(q) \in Seq(S) /\ Head(q) \in S
  OBVIOUS
<1>2. <<m>> \in Seq(S)
  OBVIOUS
<1> QED BY <1>1, <1>2

LEMMA ControlTyped ==
  ASSUME NEW b, NEW w \in {"end", "EOT", "CA", "bad"}
  PROVE  Control(w) \in Sendable(b)
BY YmodemAssumption DEF Control, Sendable, Message

LEMMA PacketTyped ==
  ASSUME NEW b, NEW st \in {"header", "block", "eot", "end"}, NEW f \in Nat, NEW k \in Nat,
         st \in {"header", "block"} => f \in 1 .. Len(b)
  PROVE  PacketOf(st, f, k) \in Sendable(b)
<1>1. CASE st = "header"
  <2>1. HeaderOf(f) \in Message
    BY YmodemAssumption DEF HeaderOf, Message
  <2> QED BY <1>1, <2>1 DEF PacketOf, HeaderOf, Sendable
<1>2. CASE st = "block"
  <2>1. k % NumberMod \in 0 .. NumberMod - 1
    BY YmodemAssumption
  <2>2. DataOf(f, k) \in Message
    BY <2>1 DEF DataOf, Message
  <2> QED BY <1>2, <2>2 DEF PacketOf, DataOf, Sendable
<1>3. CASE st = "eot"
  BY <1>3, ControlTyped DEF PacketOf
<1>4. CASE st = "end"
  BY <1>4, ControlTyped DEF PacketOf
<1> QED BY <1>1, <1>2, <1>3, <1>4

(* packet_cb is given bytes, no more than remain. *)
LEMMA WantedTyped ==
  ASSUME UploadType, NEW m \in Sendable(batch)
  PROVE  /\ Wanted(m) \in Seq(AnyByte)
         /\ Len(Wanted(m)) = IF remained < BlockSize THEN remained ELSE BlockSize
         /\ Len(Wanted(m)) \in Nat /\ Len(Wanted(m)) <= remained
         /\ \A j \in 1 .. Len(Wanted(m)) : Wanted(m)[j] = BytesOf(m)[j]
<1> DEFINE n == IF remained < BlockSize THEN remained ELSE BlockSize
           s == BytesOf(m)
<1>1. BlockSize \in Nat \ {0} /\ remained \in Nat
  BY YmodemAssumption DEF UploadType, SessionType
<1>2. n \in Nat /\ n <= BlockSize /\ n <= remained
  BY <1>1
<1>3. s \in Seq(AnyByte) /\ Len(s) = BlockSize
  <2>1. m.file \in Nat /\ m.block \in Nat
    BY DEF Sendable, Message
  <2>2. \A j \in 1 .. BlockSize : (m.block - 1) * BlockSize + j \in Int
    BY <1>1, <2>1
  <2>3. \A j \in 1 .. BlockSize : Byte(m.file, (m.block - 1) * BlockSize + j) \in AnyByte
    BY <2>1, <2>2 DEF Byte, AnyByte
  <2>4. PAD \in AnyByte
    BY DEF AnyByte
  <2>5. s = [j \in 1 .. BlockSize |->
               IF m.what = "data" /\ (m.block - 1) * BlockSize + j <= Size(m.file)
               THEN Byte(m.file, (m.block - 1) * BlockSize + j) ELSE PAD]
    BY DEF BytesOf
  <2>6. s \in [1 .. BlockSize -> AnyByte]
    BY <2>3, <2>4, <2>5
  <2> HIDE DEF s
  <2> QED BY <1>1, <2>6
<1>4. Wanted(m) = SubSeq(s, 1, n)
  BY DEF Wanted
<1> HIDE DEF s, n
<1>5. /\ SubSeq(s, 1, n) \in Seq(AnyByte) /\ Len(SubSeq(s, 1, n)) = n
      /\ \A j \in 1 .. n : SubSeq(s, 1, n)[j] = s[j]
  BY <1>1, <1>2, <1>3
<1> QED BY <1>2, <1>4, <1>5 DEF s, n

-----------------------------------------------------------------------------
(***************************************************************************)
(* The steps keep the types.                                               *)
(***************************************************************************)
LEMMA ReceivesTyped ==
  ASSUME UploadType, NEW m, Receives(m)
  PROVE  /\ m \in Sendable(batch) /\ toReceiver' \in Seq(Sendable(batch')) /\ HostType'
         /\ batch' = batch /\ sender' = sender /\ mishaps' = mishaps /\ errors' = 0
         /\ mode = "receiving" /\ toReceiver # <<>> /\ m = Head(toReceiver)
         /\ toReceiver' = Tail(toReceiver)
<1>1. /\ mode = "receiving" /\ toReceiver # <<>> /\ m = Head(toReceiver)
      /\ toReceiver' = Tail(toReceiver) /\ errors' = 0
      /\ batch' = batch /\ sender' = sender /\ mishaps' = mishaps
  BY DEF Receives, host
<1>2. m \in Sendable(batch) /\ Tail(toReceiver) \in Seq(Sendable(batch))
  <2>1. toReceiver \in Seq(Sendable(batch))
    BY DEF UploadType, LineType
  <2> DEFINE S == Sendable(batch)
  <2> HIDE DEF S
  <2>2. Head(toReceiver) \in S /\ Tail(toReceiver) \in Seq(S)
    BY <1>1, <2>1 DEF S
  <2> QED BY <1>1, <2>2 DEF S
<1>3. HostType'
  BY <1>1 DEF UploadType, HostType
<1> QED BY <1>1, <1>2, <1>3

(* A reply of the receiver, and what it leaves alone. *)
LEMMA ReplyKeepsLine ==
  ASSUME UploadType, toReceiver' \in Seq(Sendable(batch')), NEW rs \in Seq(Replies), Reply(rs)
  PROVE  LineType'
<1>1. toSender' \in Seq(Replies)
  BY ReplyTyped DEF UploadType
<1> QED BY <1>1 DEF LineType

LEMMA RepliesAre ==
  /\ <<"ACK">> \in Seq(Replies) /\ <<"NAK">> \in Seq(Replies) /\ <<"CA">> \in Seq(Replies)
  /\ <<"C">> \in Seq(Replies) /\ <<"ACK", "C">> \in Seq(Replies)
BY DEF Replies

(* The turns of the receiver that store nothing. *)
LEMMA QuietTurnsTyped ==
  ASSUME UploadType, NEW m, SenderAborts(m) \/ EndOfFile(m) \/ WrongNumber(m)
  PROVE  UploadType'
<1>1. Receives(m)
  BY DEF SenderAborts, EndOfFile, WrongNumber
<1>2. /\ toReceiver' \in Seq(Sendable(batch')) /\ HostType'
      /\ batch' = batch /\ mishaps' = mishaps /\ errors' = 0
  BY <1>1, ReceivesTyped
<1>3. /\ remained' = remained /\ prog' = prog /\ file' = file /\ begun' = begun
      /\ received' \in {received, 0}
      /\ \/ mode' = mode /\ result' = result
         \/ mode' = "idle" /\ result' = "ABORT"
  BY DEF SenderAborts, EndOfFile, WrongNumber, Return, GoesOn
<1>4. LineType'
  BY <1>2, RepliesAre, ReplyKeepsLine DEF SenderAborts, EndOfFile, WrongNumber
<1>5. SessionType'
  <2>1. 0 \in 0 .. MaxErrors + 1 /\ 0 \in Nat
    BY YmodemAssumption
  <2> QED BY <1>2, <1>3, <2>1 DEF UploadType, SessionType
<1>6. ProgramType'
  <2>1. mode' = "receiving" /\ received' > 0 => mode = "receiving" /\ received > 0
    BY <1>3
  <2> QED BY <1>3, <2>1 DEF UploadType, ProgramType
<1> QED BY <1>2, <1>4, <1>5, <1>6 DEF UploadType

LEMMA HeaderTyped ==
  ASSUME UploadType, NEW m, Header(m)
  PROVE  UploadType'
<1>1. Receives(m) /\ m.what \in {"header", "data"}
  BY DEF Header, IsBlock
<1>2. /\ m \in Sendable(batch) /\ toReceiver' \in Seq(Sendable(batch')) /\ HostType'
      /\ batch' = batch /\ mishaps' = mishaps /\ errors' = 0
  BY <1>1, ReceivesTyped
<1>3. m.file \in 1 .. Len(batch)
  BY <1>1, <1>2 DEF Sendable
<1>4. Size(m.file) \in Nat
  BY <1>3 DEF Size, UploadType, HostType
<1>5. LineType'
  BY <1>2, RepliesAre, ReplyKeepsLine DEF Header
<1>6. SessionType'
  <2>1. 0 \in 0 .. MaxErrors + 1
    BY YmodemAssumption
  <2>2. Len(batch) \in Nat /\ m.file \in 0 .. Len(batch)
    BY <1>3 DEF UploadType, HostType
  <2>3. remained' \in Nat /\ file' = m.file /\ received' = 1 /\ begun' = TRUE
        /\ mode' = mode /\ result' = result
    BY <1>4 DEF Header, GoesOn
  <2> QED BY <1>2, <2>1, <2>2, <2>3 DEF UploadType, SessionType
<1>7. ProgramType'
  BY FreshTyped DEF Header, ProgramType
<1> QED BY <1>2, <1>5, <1>6, <1>7 DEF UploadType

LEMMA EndOfSessionTyped ==
  ASSUME UploadType, NEW m, EndOfSession(m)
  PROVE  UploadType'
<1>1. Receives(m)
  BY DEF EndOfSession
<1>2. /\ toReceiver' \in Seq(Sendable(batch')) /\ HostType'
      /\ batch' = batch /\ mishaps' = mishaps /\ errors' = 0
  BY <1>1, ReceivesTyped
<1>3. LineType'
  BY <1>2, RepliesAre, ReplyKeepsLine DEF EndOfSession
<1>4. /\ received' = received /\ begun' = begun /\ file' = file /\ remained' = 0
      /\ mode' = "idle" /\ result' = "OK" /\ prog' = Ended(prog)
  BY DEF EndOfSession, Return
<1>5. SessionType'
  <2>1. 0 \in 0 .. MaxErrors + 1
    BY YmodemAssumption
  <2> QED BY <1>2, <1>4, <2>1 DEF UploadType, SessionType
<1>6. ProgramType'
  BY <1>4, EndedTyped DEF UploadType, ProgramType
<1> QED BY <1>2, <1>3, <1>5, <1>6 DEF UploadType

LEMMA DataTyped ==
  ASSUME UploadType, NEW m, Data(m)
  PROVE  UploadType'
<1>1. Receives(m)
  BY DEF Data
<1>2. /\ m \in Sendable(batch) /\ toReceiver' \in Seq(Sendable(batch')) /\ HostType'
      /\ batch' = batch /\ mishaps' = mishaps /\ errors' = 0
  BY <1>1, ReceivesTyped
<1>3. /\ Wanted(m) \in Seq(AnyByte) /\ Len(Wanted(m)) \in Nat /\ Len(Wanted(m)) <= remained
  BY <1>2, WantedTyped
<1>4. /\ prog' = Written(prog, Wanted(m)) /\ remained' = remained - Len(Wanted(m))
      /\ received' = received + 1 /\ begun' = TRUE /\ file' = file
      /\ IF prog'.quota THEN Reply(<<"CA">>) /\ mode' = "idle" /\ result' = "DATA"
                        ELSE Reply(<<"ACK">>) /\ mode' = mode /\ result' = result
  BY DEF Data, Return, GoesOn
<1>5. LineType'
  BY <1>2, <1>4, RepliesAre, ReplyKeepsLine
<1>6. SessionType'
  <2>1. 0 \in 0 .. MaxErrors + 1
    BY YmodemAssumption
  <2>2. remained' \in Nat /\ received' \in Nat
    BY <1>3, <1>4 DEF UploadType, SessionType
  <2> QED BY <1>2, <1>4, <2>1, <2>2 DEF UploadType, SessionType
<1>7. ProgramType'
  <2>1. prog' \in ProgType
    BY <1>3, <1>4, WrittenTyped DEF UploadType, ProgramType
  <2>2. mode' = "receiving" => ~ prog'.quota
    BY <1>4
  <2> QED BY <2>1, <2>2 DEF ProgramType
<1> QED BY <1>2, <1>5, <1>6, <1>7 DEF UploadType

(* No packet, or a damaged one. *)
LEMMA FailsTyped ==
  ASSUME UploadType, Fails, toReceiver' \in Seq(Sendable(batch)), mishaps' = mishaps
  PROVE  UploadType'
<1>1. /\ mode' = mode /\ result' = result /\ received' = received /\ begun' = begun
      /\ remained' = remained /\ prog' = prog /\ file' = file /\ batch' = batch
      /\ sender' = sender
      /\ errors' = IF begun /\ errors <= MaxErrors THEN errors + 1 ELSE errors
      /\ Reply(IF errors' > MaxErrors THEN <<"CA">> ELSE <<"C">>)
  BY DEF Fails, host
<1>2. LineType'
  BY <1>1, RepliesAre, ReplyKeepsLine
<1>3. errors' \in 0 .. MaxErrors + 1
  BY <1>1, YmodemAssumption DEF UploadType, SessionType
<1>4. SessionType' /\ ProgramType' /\ HostType'
  BY <1>1, <1>3 DEF UploadType, SessionType, ProgramType, HostType
<1> QED BY <1>2, <1>4 DEF UploadType

(* The line and the host move, the receiver does not. *)
LEMMA LineTyped ==
  ASSUME UploadType, UNCHANGED receiver, batch' = batch, mishaps' \in 0 .. MaxMishaps,
         toReceiver' \in Seq(Sendable(batch)), toSender' \in Seq(Replies),
         sender' \in [state : States, file : Nat, block : Nat],
         InBatch(sender', batch)
  PROVE  UploadType'
<1>1. SessionType' /\ ProgramType'
  BY DEF UploadType, SessionType, ProgramType, receiver
<1>2. LineType' /\ HostType'
  BY DEF UploadType, LineType, HostType
<1> QED BY <1>1, <1>2 DEF UploadType

(* What the sender does with a reply. *)
SentNow(st, f, k) ==
  /\ sender' = [state |-> st, file |-> f, block |-> k]
  /\ toReceiver' = Append(toReceiver, PacketOf(st, f, k))

LEMMA SenderReadsIs ==
  ASSUME SenderReads
  PROVE  LET reply == Head(toSender)
             st == sender.state
             f == sender.file
         IN  /\ st # "off" /\ toSender # <<>>
             /\ UNCHANGED receiver /\ batch' = batch /\ mishaps' = mishaps
             /\ toSender' = IF sender'.state = "off" THEN <<>> ELSE Tail(toSender)
             /\ \/ sender' = Off /\ toReceiver' = toReceiver
                \/ st = "offer" /\ f <= Len(batch) /\ reply = "C" /\ SentNow("header", f, 0)
                \/ st = "offer" /\ ~ (f <= Len(batch)) /\ reply = "C" /\ SentNow("end", f, 0)
                \/ st = "ready" /\ reply = "C" /\ 1 <= Blocks(f) /\ SentNow("block", f, 1)
                \/ st = "ready" /\ reply = "C" /\ ~ (1 <= Blocks(f)) /\ SentNow("eot", f, 0)
                \/ /\ st = "header" /\ reply = "ACK" /\ toReceiver' = toReceiver
                   /\ sender' = [state |-> "ready", file |-> f, block |-> 0]
                \/ /\ st = "block" /\ reply = "ACK" /\ sender.block + 1 <= Blocks(f)
                   /\ SentNow("block", f, sender.block + 1)
                \/ /\ st = "block" /\ reply = "ACK" /\ ~ (sender.block + 1 <= Blocks(f))
                   /\ SentNow("eot", f, 0)
                \/ /\ st = "eot" /\ reply = "ACK" /\ toReceiver' = toReceiver
                   /\ sender' = [state |-> "offer", file |-> f + 1, block |-> 0]
                \/ st \in {"header", "block", "eot", "end"} /\ SentNow(st, f, sender.block)
                \/ /\ sender' = sender /\ toReceiver' = toReceiver
                   /\ reply = "ACK" => st \notin {"header", "block", "eot"}
<1> DEFINE reply == Head(toSender)
           st == sender.state
           f == sender.file
<1>1. /\ st # "off" /\ toSender # <<>>
      /\ UNCHANGED receiver /\ batch' = batch /\ mishaps' = mishaps
      /\ toSender' = IF sender'.state = "off" THEN <<>> ELSE Tail(toSender)
  BY DEF SenderReads
<1>2. CASE reply = "CA"
  BY <1>2 DEF SenderReads
<1>3. CASE reply = "C" /\ st = "offer"
  <2>1. IF f <= Len(batch) THEN Sends("header", f, 0) ELSE Sends("end", f, 0)
    BY <1>3 DEF SenderReads, Waiting
  <2>2. IF f <= Len(batch) THEN SentNow("header", f, 0) ELSE SentNow("end", f, 0)
    BY <2>1 DEF Sends, SentNow
  <2> HIDE DEF reply, st, f
  <2> QED BY <1>1, <1>3, <2>2 DEF reply, st, f
<1>4. CASE reply = "C" /\ st = "ready"
  <2>1. NextBlock(f, 1)
    BY <1>4 DEF SenderReads, Waiting
  <2>2. IF 1 <= Blocks(f) THEN SentNow("block", f, 1) ELSE SentNow("eot", f, 0)
    BY <2>1 DEF NextBlock, Sends, SentNow
  <2> QED BY <1>1, <1>4, <2>2
<1>5. CASE reply = "ACK" /\ st = "header"
  BY <1>5 DEF SenderReads, Moves
<1>6. CASE reply = "ACK" /\ st = "block"
  BY <1>6 DEF SenderReads, NextBlock, Sends, SentNow
<1>7. CASE reply = "ACK" /\ st = "eot"
  BY <1>7 DEF SenderReads, Moves
<1>8. CASE reply = "ACK" /\ st = "end"
  BY <1>8 DEF SenderReads
<1>9. CASE reply \notin {"ACK", "CA"} /\ st \in {"header", "block", "eot", "end"}
  BY <1>9 DEF SenderReads, Waiting, Sends, SentNow
<1>10. CASE reply \notin {"C", "ACK", "CA"} /\ st \in {"offer", "ready"}
  BY <1>10 DEF SenderReads, Waiting
<1>11. CASE reply = "ACK" /\ st \in {"offer", "ready"}
  BY <1>11 DEF SenderReads, Waiting
<1>12. CASE st \notin {"offer", "ready", "header", "block", "eot", "end"} /\ reply # "CA"
  BY <1>12 DEF SenderReads, Waiting
<1> QED BY <1>1, <1>2, <1>3, <1>4, <1>5, <1>6, <1>7, <1>8, <1>9, <1>10, <1>11, <1>12

LEMMA SentTyped ==
  ASSUME UploadType, NEW st \in {"header", "block", "eot", "end"}, NEW f \in Nat, NEW k \in Nat,
         st \in {"header", "block", "eot"} => f \in 1 .. Len(batch),
         SentNow(st, f, k)
  PROVE  /\ toReceiver' \in Seq(Sendable(batch))
         /\ sender' \in [state : States, file : Nat, block : Nat]
         /\ sender'.state # "off"
         /\ InBatch(sender', batch)
<1>1. PacketOf(st, f, k) \in Sendable(batch)
  BY PacketTyped
<1>2. toReceiver' \in Seq(Sendable(batch))
  <2> DEFINE S == Sendable(batch)
             m == PacketOf(st, f, k)
  <2>1. toReceiver \in Seq(S) /\ m \in S /\ toReceiver' = Append(toReceiver, m)
    BY <1>1 DEF UploadType, LineType, SentNow
  <2> HIDE DEF S, m
  <2>2. toReceiver' \in Seq(S)
    BY <2>1
  <2> QED BY <2>2 DEF S
<1>3. sender' = [state |-> st, file |-> f, block |-> k]
  BY DEF SentNow
<1> QED BY <1>2, <1>3 DEF States, InBatch

LEMMA SenderReadsTyped ==
  ASSUME UploadType, SenderReads
  PROVE  UploadType'
<1> DEFINE reply == Head(toSender)
           st == sender.state
           f == sender.file
           k == sender.block
           Host == [state : States, file : Nat, block : Nat]
           Ok == /\ toReceiver' \in Seq(Sendable(batch)) /\ sender' \in Host
                 /\ InBatch(sender', batch)
<1>1. /\ st \in States /\ f \in Nat /\ k \in Nat /\ sender \in Host
      /\ st \in {"header", "ready", "block", "eot"} => f \in 1 .. Len(batch)
      /\ st = "offer" => f >= 1
      /\ Len(batch) \in Nat /\ InBatch(sender, batch)
      /\ toReceiver \in Seq(Sendable(batch)) /\ toSender \in Seq(Replies)
  BY DEF UploadType, HostType, LineType, InBatch
<1>2. /\ st # "off" /\ toSender # <<>>
      /\ UNCHANGED receiver /\ batch' = batch /\ mishaps' = mishaps
      /\ toSender' = IF sender'.state = "off" THEN <<>> ELSE Tail(toSender)
  BY SenderReadsIs
<1>3. toSender' \in Seq(Replies)
  <2>1. Tail(toSender) \in Seq(Replies) /\ <<>> \in Seq(Replies)
    BY <1>1, <1>2
  <2> QED BY <1>2, <2>1
<1>4. mishaps' \in 0 .. MaxMishaps
  BY <1>2 DEF UploadType, SessionType
<1>5. CASE sender' = Off /\ toReceiver' = toReceiver
  <2>1. Ok
    BY <1>1, <1>5 DEF Off, States, InBatch
  <2> QED BY <1>2, <1>3, <1>4, <2>1, LineTyped
<1>6. CASE \/ st = "offer" /\ f <= Len(batch) /\ reply = "C" /\ SentNow("header", f, 0)
           \/ st = "offer" /\ ~ (f <= Len(batch)) /\ reply = "C" /\ SentNow("end", f, 0)
  <2>1. CASE st = "offer" /\ f <= Len(batch) /\ SentNow("header", f, 0)
    <3>1. f \in 1 .. Len(batch)
      BY <1>1, <2>1
    <3>2. Ok
      BY <2>1, <3>1, SentTyped, <1>1
    <3> QED BY <1>2, <1>3, <1>4, <3>2, LineTyped
  <2>2. CASE SentNow("end", f, 0)
    <3>1. Ok
      BY <2>2, SentTyped, <1>1
    <3> QED BY <1>2, <1>3, <1>4, <3>1, LineTyped
  <2> QED BY <1>6, <2>1, <2>2
<1>7. CASE \/ st = "ready" /\ reply = "C" /\ 1 <= Blocks(f) /\ SentNow("block", f, 1)
           \/ st = "ready" /\ reply = "C" /\ ~ (1 <= Blocks(f)) /\ SentNow("eot", f, 0)
  <2>1. Ok
    BY <1>1, <1>7, SentTyped
  <2> QED BY <1>2, <1>3, <1>4, <2>1, LineTyped
<1>8. CASE \/ /\ st = "block" /\ reply = "ACK" /\ k + 1 <= Blocks(f)
              /\ SentNow("block", f, k + 1)
           \/ /\ st = "block" /\ reply = "ACK" /\ ~ (k + 1 <= Blocks(f))
              /\ SentNow("eot", f, 0)
  <2>1. k + 1 \in Nat
    BY <1>1
  <2>2. Ok
    BY <1>1, <1>8, <2>1, SentTyped
  <2> QED BY <1>2, <1>3, <1>4, <2>2, LineTyped
<1>9. CASE \/ /\ st = "header" /\ reply = "ACK" /\ toReceiver' = toReceiver
              /\ sender' = [state |-> "ready", file |-> f, block |-> 0]
           \/ /\ st = "eot" /\ reply = "ACK" /\ toReceiver' = toReceiver
              /\ sender' = [state |-> "offer", file |-> f + 1, block |-> 0]
  <2>1. Ok
    BY <1>1, <1>9 DEF States, InBatch
  <2> QED BY <1>2, <1>3, <1>4, <2>1, LineTyped
<1>10. CASE st \in {"header", "block", "eot", "end"} /\ SentNow(st, f, k)
  <2>1. Ok
    BY <1>1, <1>10, SentTyped
  <2> QED BY <1>2, <1>3, <1>4, <2>1, LineTyped
<1>11. CASE sender' = sender /\ toReceiver' = toReceiver
  <2>1. Ok
    BY <1>1, <1>11
  <2> QED BY <1>2, <1>3, <1>4, <2>1, LineTyped
<1> QED BY SenderReadsIs, <1>5, <1>6, <1>7, <1>8, <1>9, <1>10, <1>11

LEMMA SenderRepeatsTyped ==
  ASSUME UploadType, SenderRepeats
  PROVE  UploadType'
<1> DEFINE st == sender.state
           f == sender.file
           k == sender.block
<1>1. /\ st \in {"header", "block", "eot", "end"} /\ SentNow(st, f, k)
      /\ UNCHANGED receiver /\ batch' = batch /\ mishaps' = mishaps /\ toSender' = toSender
  BY DEF SenderRepeats, Waiting, Sends, SentNow
<1>2. f \in Nat /\ k \in Nat /\ (st \in {"header", "block", "eot"} => f \in 1 .. Len(batch))
  BY <1>1 DEF UploadType, HostType, InBatch
<1>3. /\ toReceiver' \in Seq(Sendable(batch))
      /\ sender' \in [state : States, file : Nat, block : Nat]
      /\ InBatch(sender', batch)
  BY <1>1, <1>2, SentTyped
<1>4. mishaps' \in 0 .. MaxMishaps /\ toSender' \in Seq(Replies)
  BY <1>1 DEF UploadType, SessionType, LineType
<1> QED BY <1>1, <1>3, <1>4, LineTyped

(* The line and those who use it fail. *)
LEMMA MishapTyped ==
  ASSUME UploadType,
         LosePacket \/ DamagePacket \/ LoseReply \/ UserAborts \/ SenderStops
  PROVE  UploadType'
<1> DEFINE S == Sendable(batch)
<1>1. /\ sender \in [state : States, file : Nat, block : Nat]
      /\ InBatch(sender, batch)
      /\ toReceiver \in Seq(S) /\ toSender \in Seq(Replies)
  BY DEF UploadType, HostType, LineType
<1>2. mishaps' \in 0 .. MaxMishaps
  BY YmodemAssumption
     DEF LosePacket, DamagePacket, LoseReply, UserAborts, SenderStops, Mishap, UploadType, SessionType
<1>3. /\ toReceiver # <<>> => Tail(toReceiver) \in Seq(S)
      /\ toReceiver # <<>> => <<Control("bad")>> \o Tail(toReceiver) \in Seq(S)
      /\ Append(toReceiver, Control("CA")) \in Seq(S)
  <2>1. Control("bad") \in S /\ Control("CA") \in S
    BY ControlTyped
  <2> HIDE DEF S
  <2> QED BY <1>1, <2>1, LineMoves
<1>4. (toSender # <<>> => Tail(toSender) \in Seq(Replies)) /\ <<>> \in Seq(Replies)
  BY <1>1
<1>5. Off \in [state : States, file : Nat, block : Nat] /\ InBatch(Off, batch)
  BY DEF Off, States, InBatch
<1> HIDE DEF S
<1>6. CASE LosePacket
  <2>1. /\ UNCHANGED receiver /\ batch' = batch /\ sender' = sender /\ toSender' = toSender
        /\ toReceiver # <<>> /\ toReceiver' = Tail(toReceiver)
    BY <1>6 DEF LosePacket, host
  <2> QED BY <1>1, <1>2, <1>3, <2>1, LineTyped DEF S
<1>7. CASE DamagePacket
  <2>1. /\ UNCHANGED receiver /\ batch' = batch /\ sender' = sender /\ toSender' = toSender
        /\ toReceiver # <<>> /\ toReceiver' = <<Control("bad")>> \o Tail(toReceiver)
    BY <1>7 DEF DamagePacket, host
  <2> QED BY <1>1, <1>2, <1>3, <2>1, LineTyped DEF S
<1>8. CASE LoseReply
  <2>1. /\ UNCHANGED receiver /\ batch' = batch /\ sender' = sender /\ toReceiver' = toReceiver
        /\ toSender # <<>> /\ toSender' = Tail(toSender)
    BY <1>8 DEF LoseReply, host
  <2> QED BY <1>1, <1>2, <1>4, <2>1, LineTyped DEF S
<1>9. CASE UserAborts
  <2>1. /\ mode' = "idle" /\ result' = "ABORT" /\ received' = received /\ begun' = begun
        /\ errors' = errors /\ remained' = remained /\ prog' = prog /\ file' = file
        /\ toReceiver' = toReceiver /\ batch' = batch /\ sender' = sender
        /\ Reply(<<"CA">>)
    BY <1>9 DEF UserAborts, Return, host
  <2>2. LineType'
    BY <1>1, <2>1, RepliesAre, ReplyKeepsLine DEF S
  <2>3. SessionType' /\ ProgramType' /\ HostType'
    BY <1>2, <2>1 DEF UploadType, SessionType, ProgramType, HostType
  <2> QED BY <2>2, <2>3 DEF UploadType
<1>10. CASE SenderStops
  <2>1. /\ UNCHANGED receiver /\ batch' = batch /\ sender' = Off /\ toSender' = <<>>
        /\ toReceiver' \in {toReceiver, Append(toReceiver, Control("CA"))}
    BY <1>10 DEF SenderStops
  <2>2. toReceiver' \in Seq(S)
    BY <1>1, <1>3, <2>1
  <2> QED BY <1>2, <1>4, <1>5, <2>1, <2>2, LineTyped DEF S
<1> QED BY <1>6, <1>7, <1>8, <1>9, <1>10

LEMMA ReceiverTyped ==
  ASSUME UploadType, ReceiverStep
  PROVE  UploadType'
<1> DEFINE S == Sendable(batch)
<1>1. toReceiver \in Seq(S) /\ (toReceiver # <<>> => Tail(toReceiver) \in Seq(S))
  <2>1. toReceiver \in Seq(S)
    BY DEF UploadType, LineType
  <2> HIDE DEF S
  <2> QED BY <2>1
<1>2. CASE toReceiver # <<>> /\ Receive(Head(toReceiver))
  BY <1>2, QuietTurnsTyped, HeaderTyped, EndOfSessionTyped, DataTyped DEF Receive
<1>3. CASE BadPacket
  BY <1>1, <1>3, FailsTyped DEF BadPacket
<1>4. CASE Timeout
  BY <1>1, <1>4, FailsTyped DEF Timeout
<1>5. CASE Discard
  <2>1. /\ UNCHANGED receiver /\ batch' = batch /\ sender' = sender /\ toSender' = toSender
        /\ mishaps' = mishaps /\ toReceiver # <<>> /\ toReceiver' = Tail(toReceiver)
    BY <1>5 DEF Discard, host
  <2>2. /\ sender \in [state : States, file : Nat, block : Nat]
        /\ InBatch(sender, batch)
        /\ toSender \in Seq(Replies) /\ mishaps \in 0 .. MaxMishaps
    BY DEF UploadType, HostType, LineType, SessionType
  <2> QED BY <1>1, <2>1, <2>2, LineTyped
<1> QED BY <1>2, <1>3, <1>4, <1>5 DEF ReceiverStep

LEMMA StartTyped ==
  ASSUME UploadType, (\E b \in Batches : Start(b)) \/ EraseFlash
  PROVE  UploadType'
<1>1. CASE \E b \in Batches : Start(b)
  <2>1. PICK b \in Batches : Start(b)
    BY <1>1
  <2>2. b \in Seq(Nat) /\ batch' = b /\ Len(b) \in Nat
    BY <2>1, YmodemAssumption DEF Start
  <2>3. SessionType'
    <3>1. 0 \in 0 .. MaxErrors + 1 /\ 0 \in 0 .. MaxMishaps /\ 0 \in 0 .. Len(b)
      BY <2>2, YmodemAssumption
    <3> QED BY <2>1, <2>2, <3>1 DEF Start, UploadType, SessionType
  <2>4. ProgramType'
    BY <2>1 DEF Start, UploadType, ProgramType
  <2>5. LineType'
    <3>1. \A S : <<>> \in Seq(S)
      OBVIOUS
    <3> QED BY <2>1, <3>1 DEF Start, LineType
  <2>6. HostType'
    BY <2>1, <2>2 DEF Start, HostType, States, InBatch
  <2> QED BY <2>3, <2>4, <2>5, <2>6 DEF UploadType
<1>2. CASE EraseFlash
  <2>1. /\ prog' = Cleared(prog) /\ file' = 0 /\ result' = "none" /\ mode' = mode
        /\ received' = received /\ begun' = begun /\ errors' = errors /\ remained' = remained
        /\ toReceiver' = toReceiver /\ toSender' = toSender /\ batch' = batch
        /\ sender' = sender /\ mishaps' = mishaps
    BY <1>2 DEF EraseFlash, line, host
  <2>2. 0 \in 0 .. Len(batch)
    BY DEF UploadType, HostType
  <2>3. SessionType' /\ LineType' /\ HostType'
    BY <2>1, <2>2 DEF UploadType, SessionType, LineType, HostType
  <2>4. ProgramType'
    BY <2>1, FreshTyped DEF UploadType, ProgramType
  <2> QED BY <2>3, <2>4 DEF UploadType
<1> QED BY <1>1, <1>2

LEMMA UploadTypeStep == UploadType /\ [Next]_vars => UploadType'
<1> SUFFICES ASSUME UploadType, [Next]_vars PROVE UploadType'
  OBVIOUS
<1>1. CASE Next
  BY <1>1, StartTyped, ReceiverTyped, SenderReadsTyped, SenderRepeatsTyped, MishapTyped
     DEF Next, SenderStep
<1>2. CASE UNCHANGED vars
  BY <1>2 DEF vars, receiver, line, host, UploadType, SessionType, ProgramType, LineType, HostType
<1> QED BY <1>1, <1>2

(* The state of the upload is well formed whatever is sent, and the counters
   of the program memory stay within a page and the quota. *)
THEOREM UploadTypeCorrect == Spec => []TypeOK
<1>1. Init => UploadType
  BY UploadTypeStart
<1>2. UploadType /\ [Next]_vars => UploadType'
  BY UploadTypeStep
<1>3. UploadType => TypeOK
  BY UploadTypeIs
<1> QED BY <1>1, <1>2, <1>3, PTL DEF Spec

-----------------------------------------------------------------------------
(***************************************************************************)
(* The protocol, for a host that sends one file.                           *)
(*                                                                         *)
(* A session has stages: at stage 0 the receiver waits for the header, at  *)
(* stage k for block k of B, then for the end of the file and, at stage    *)
(* B + 2, for the end of the session.  The sender has sent the packet of   *)
(* the receiver's stage or only that of the stage before, and on the line  *)
(* are packets of these two stages alone, those of the earlier stage       *)
(* first.                                                                  *)
(***************************************************************************)
PacketAt(k, B) ==
  IF k <= 0 THEN HeaderOf(1)
  ELSE IF k <= B THEN DataOf(1, k)
  ELSE IF k = B + 1 THEN Control("EOT") ELSE Control("end")

Due(m, R, B)  == m = PacketAt(R, B)
Late(m, R, B) == R > 0 /\ m = PacketAt(R - 1, B)
Noise(m)      == m.what \in {"CA", "bad"}

InLine(q, R, B) ==
  /\ \A i \in 1 .. Len(q) : Late(q[i], R, B) \/ Due(q[i], R, B) \/ Noise(q[i])
  /\ \A i, j \in 1 .. Len(q) : i < j /\ Due(q[i], R, B) => ~ Late(q[j], R, B)
NoneDue(q, R, B) == \A i \in 1 .. Len(q) : ~ Due(q[i], R, B)

(* The stage whose packet sender s sent last. *)
Sent(s, B) ==
  IF s.state = "offer" THEN (IF s.file = 1 THEN -1 ELSE B + 1)
  ELSE IF s.state \in {"header", "ready"} THEN 0
  ELSE IF s.state = "block" THEN s.block
  ELSE IF s.state = "eot" THEN B + 1 ELSE B + 2

SenderAt(s, R, B) ==
  /\ s.file \in {1, 2}
  /\ s.file = 2 <=> s.state = "end" \/ (s.state = "offer" /\ R = B + 2)
  /\ s.state = "block" => s.block \in 1 .. B
  /\ Sent(s, B) \in {R - 1, R}
  /\ s.state \in {"offer", "ready"} => Sent(s, B) = R - 1

(* Before the last stage an acknowledgement is of the packet sent last, comes
   once, and not before the packet has arrived. *)
NoAck(a)  == \A i \in 1 .. Len(a) : a[i] # "ACK"
OneAck(a) == \A i, j \in 1 .. Len(a) : a[i] = "ACK" /\ a[j] = "ACK" => i = j
Settled(s, R, B) == Sent(s, B) = R \/ s.state \in {"offer", "ready"}

Protocol(R, q, a, s, B) ==
  /\ InLine(q, R, B)
  /\ s.state # "off" =>
       /\ SenderAt(s, R, B)
       /\ Sent(s, B) = R - 1 => NoneDue(q, R, B)
       /\ R < B + 2 => OneAck(a) /\ (Settled(s, R, B) => NoAck(a))
-----------------------------------------------------------------------------
(* Stages have packets of their own. *)
LEMMA PacketsDiffer ==
  ASSUME NEW B \in Nat, NEW i \in 0 .. B + 2, NEW j \in 0 .. B + 2, i < j
  PROVE  PacketAt(i, B) # PacketAt(j, B)
<1>1. CASE i = 0
  <2>1. PacketAt(i, B).what = "header"
    BY <1>1 DEF PacketAt, HeaderOf
  <2>2. PacketAt(j, B).what # "header"
    BY DEF PacketAt, DataOf, Control
  <2> QED BY <2>1, <2>2
<1>2. CASE i \in 1 .. B
  <2>1. PacketAt(i, B).what = "data" /\ PacketAt(i, B).block = i
    BY <1>2 DEF PacketAt, DataOf
  <2>2. PacketAt(j, B).what # "data" \/ PacketAt(j, B).block = j
    BY <1>2 DEF PacketAt, DataOf, Control
  <2> QED BY <2>1, <2>2
<1>3. CASE i = B + 1
  <2>1. PacketAt(i, B).what = "EOT" /\ PacketAt(j, B).what = "end"
    BY <1>3 DEF PacketAt, Control
  <2> QED BY <2>1
<1> QED BY <1>1, <1>2, <1>3

LEMMA PacketWhat ==
  ASSUME NEW B \in Nat, NEW k \in 0 .. B + 2
  PROVE  /\ k = 0 => PacketAt(k, B) = HeaderOf(1) /\ PacketAt(k, B).what = "header"
         /\ k \in 1 .. B => PacketAt(k, B) = DataOf(1, k) /\ PacketAt(k, B).what = "data"
         /\ k = B + 1 => PacketAt(k, B) = Control("EOT") /\ PacketAt(k, B).what = "EOT"
         /\ k = B + 2 => PacketAt(k, B) = Control("end") /\ PacketAt(k, B).what = "end"
         /\ ~ Noise(PacketAt(k, B))
BY DEF PacketAt, HeaderOf, DataOf, Control, Noise

(* The packets of two stages in turn have different numbers. *)
LEMMA NumbersDiffer ==
  ASSUME NEW k \in Nat PROVE k % NumberMod # (k + 1) % NumberMod
<1> DEFINE d == NumberMod
           a == k \div d
           b == k % d
<1>0. d \in Nat \ {0, 1}
  BY YmodemAssumption
<1>1. a \in Nat /\ b \in 0 .. d - 1 /\ k = a * d + b
  BY <1>0
<1> HIDE DEF a, b
<1>2. CASE b + 1 < d
  <2>1. k + 1 \in Int /\ b + 1 \in 0 .. d - 1 /\ k + 1 = a * d + (b + 1)
    BY <1>0, <1>1, <1>2
  <2> HIDE DEF d
  <2> DEFINE x == k + 1
             r == b + 1
  <2>2. x \in Int /\ a \in Int /\ d \in Nat \ {0} /\ r \in 0 .. d - 1 /\ x = a * d + r
    BY <1>0, <1>1, <2>1
  <2> HIDE DEF x, r
  <2>3. x % d = r
    BY <2>2, DivMod
  <2>4. (k + 1) % d = b + 1
    BY <2>3 DEF x, r
  <2> QED BY <1>1, <2>4 DEF b, d
<1>3. CASE ~ (b + 1 < d)
  <2> HIDE DEF d
  <2> DEFINE x == k + 1
             q == a + 1
  <2>1. x \in Int /\ q \in Int /\ d \in Nat \ {0} /\ 0 \in 0 .. d - 1 /\ x = q * d + 0 /\ b # 0
    BY <1>0, <1>1, <1>3
  <2> HIDE DEF x, q
  <2>2. x % d = 0
    BY <2>1, DivMod
  <2>3. (k + 1) % d = 0
    BY <2>2 DEF x
  <2> QED BY <2>1, <2>3 DEF b, d
<1> QED BY <1>2, <1>3
-----------------------------------------------------------------------------
(***************************************************************************)
(* The line of packets.                                                    *)
(***************************************************************************)
LEMMA TailIs ==
  ASSUME NEW S, NEW q \in Seq(S), q # <<>>
  PROVE  /\ Tail(q) \in Seq(S) /\ Len(Tail(q)) = Len(q) - 1 /\ Len(q) \in Nat \ {0}
         /\ Head(q) = q[1] /\ Head(q) \in S
         /\ \A i \in 1 .. Len(q) - 1 : Tail(q)[i] = q[i + 1]
         /\ \A i \in 1 .. Len(Tail(q)) : i + 1 \in 1 .. Len(q) /\ Tail(q)[i] = q[i + 1]
OBVIOUS

LEMMA TailInLine ==
  ASSUME NEW S, NEW q \in Seq(S), q # <<>>, NEW R, NEW B, InLine(q, R, B)
  PROVE  /\ InLine(Tail(q), R, B)
         /\ NoneDue(q, R, B) => NoneDue(Tail(q), R, B)
         /\ Late(Head(q), R, B) \/ Due(Head(q), R, B) \/ Noise(Head(q))
<1>1. /\ Len(Tail(q)) = Len(q) - 1 /\ Len(q) \in Nat \ {0} /\ Head(q) = q[1]
      /\ \A i \in 1 .. Len(Tail(q)) : i + 1 \in 1 .. Len(q) /\ Tail(q)[i] = q[i + 1]
  BY TailIs
<1>2. \A i, j \in 1 .. Len(Tail(q)) : i < j => i + 1 < j + 1
  BY <1>1
<1>3. \A i \in 1 .. Len(Tail(q)) :
        Late(Tail(q)[i], R, B) \/ Due(Tail(q)[i], R, B) \/ Noise(Tail(q)[i])
  BY <1>1 DEF InLine
<1>4. \A i, j \in 1 .. Len(Tail(q)) :
        i < j /\ Due(Tail(q)[i], R, B) => ~ Late(Tail(q)[j], R, B)
  BY <1>1, <1>2 DEF InLine
<1>5. NoneDue(q, R, B) => NoneDue(Tail(q), R, B)
  BY <1>1 DEF NoneDue
<1>6. Late(Head(q), R, B) \/ Due(Head(q), R, B) \/ Noise(Head(q))
  BY <1>1 DEF InLine
<1> QED BY <1>3, <1>4, <1>5, <1>6 DEF InLine

LEMMA DamagedInLine ==
  ASSUME NEW S, NEW q \in Seq(S), q # <<>>, NEW B \in Nat, NEW R \in 0 .. B + 2, InLine(q, R, B),
         NEW m \in S, Noise(m)
  PROVE  /\ InLine(<<m>> \o Tail(q), R, B)
         /\ NoneDue(q, R, B) => NoneDue(<<m>> \o Tail(q), R, B)
<1> DEFINE z == <<m>> \o Tail(q)
<1>1. /\ Len(z) = Len(q) /\ Len(q) \in Nat \ {0} /\ z[1] = m
      /\ \A i \in 2 .. Len(q) : z[i] = q[i]
  <2>1. Tail(q) \in Seq(S) /\ Len(Tail(q)) = Len(q) - 1 /\ Len(q) \in Nat \ {0}
        /\ \A i \in 1 .. Len(q) - 1 : Tail(q)[i] = q[i + 1]
    BY TailIs
  <2> DEFINE u == Tail(q)
  <2> HIDE DEF u
  <2>2. <<m>> \in Seq(S) /\ Len(<<m>>) = 1 /\ <<m>>[1] = m
    OBVIOUS
  <2>3. Len(<<m>> \o u) = Len(u) + 1 /\ (<<m>> \o u)[1] = m
        /\ \A i \in 2 .. Len(u) + 1 : (<<m>> \o u)[i] = u[i - 1]
    BY <2>1, <2>2 DEF u
  <2>4. \A i \in 2 .. Len(q) : i - 1 \in 1 .. Len(q) - 1 /\ (i - 1) + 1 = i
    BY <2>1
  <2> QED BY <2>1, <2>3, <2>4 DEF u
<1>2. ~ Due(m, R, B) /\ ~ Late(m, R, B)
  <2>1. \A k \in 0 .. B + 2 : m # PacketAt(k, B)
    BY PacketWhat
  <2>2. R > 0 => R - 1 \in 0 .. B + 2
    OBVIOUS
  <2> QED BY <2>1, <2>2 DEF Due, Late
<1> HIDE DEF z
<1>3. \A i \in 1 .. Len(z) : i = 1 \/ (i \in 2 .. Len(q) /\ i \in 1 .. Len(q))
  BY <1>1
<1>4. \A i \in 1 .. Len(z) : z[i] = m \/ (i \in 1 .. Len(q) /\ z[i] = q[i])
  BY <1>1, <1>3
<1>5. \A i \in 1 .. Len(z) : Late(z[i], R, B) \/ Due(z[i], R, B) \/ Noise(z[i])
  BY <1>4 DEF InLine
<1>6. \A i, j \in 1 .. Len(z) : i < j /\ Due(z[i], R, B) => ~ Late(z[j], R, B)
  BY <1>2, <1>4 DEF InLine
<1>7. NoneDue(q, R, B) => NoneDue(z, R, B)
  BY <1>2, <1>4 DEF NoneDue
<1> QED BY <1>5, <1>6, <1>7 DEF InLine, z

(* What may be sent. *)
LEMMA AppendInLine ==
  ASSUME NEW S, NEW q \in Seq(S), NEW B \in Nat, NEW R \in 0 .. B + 2, InLine(q, R, B),
         NEW m \in S
  PROVE  /\ Noise(m) => InLine(Append(q, m), R, B)
         /\ Due(m, R, B) => InLine(Append(q, m), R, B)
         /\ Late(m, R, B) /\ NoneDue(q, R, B) =>
              InLine(Append(q, m), R, B) /\ NoneDue(Append(q, m), R, B)
<1> DEFINE z == Append(q, m)
           n == Len(q) + 1
<1>1. Len(z) = n /\ Len(q) \in Nat /\ z[n] = m /\ \A i \in 1 .. Len(q) : z[i] = q[i]
  OBVIOUS
<1>2. Noise(m) => ~ Due(m, R, B) /\ ~ Late(m, R, B)
  <2>1. Noise(m) => \A k \in 0 .. B + 2 : m # PacketAt(k, B)
    BY PacketWhat
  <2>2. R > 0 => R - 1 \in 0 .. B + 2
    OBVIOUS
  <2> QED BY <2>1, <2>2 DEF Due, Late
<1>3. ~ (Due(m, R, B) /\ Late(m, R, B))
  <2>1. SUFFICES ASSUME Due(m, R, B), Late(m, R, B) PROVE FALSE
    OBVIOUS
  <2> DEFINE e == R - 1
  <2>2. e \in 0 .. B + 2 /\ e < R
    BY <2>1 DEF Late
  <2>3. m = PacketAt(R, B) /\ m = PacketAt(e, B)
    BY <2>1 DEF Due, Late
  <2> HIDE DEF e
  <2> QED BY <2>2, <2>3, PacketsDiffer
<1> HIDE DEF z, n
<1>4. \A i \in 1 .. Len(z) : i = n \/ i \in 1 .. Len(q)
  BY <1>1 DEF n
<1>5. \A i, j \in 1 .. Len(z) : i < j => i \in 1 .. Len(q)
  BY <1>1 DEF n
<1>6. ASSUME Noise(m) \/ Due(m, R, B) \/ Late(m, R, B)
      PROVE  \A i \in 1 .. Len(z) : Late(z[i], R, B) \/ Due(z[i], R, B) \/ Noise(z[i])
  BY <1>1, <1>4, <1>6 DEF InLine
<1>7. ASSUME ~ Late(m, R, B) \/ NoneDue(q, R, B)
      PROVE  \A i, j \in 1 .. Len(z) : i < j /\ Due(z[i], R, B) => ~ Late(z[j], R, B)
  BY <1>1, <1>4, <1>5, <1>7 DEF InLine, NoneDue
<1>8. ASSUME ~ Due(m, R, B), NoneDue(q, R, B) PROVE NoneDue(z, R, B)
  BY <1>1, <1>4, <1>8 DEF NoneDue
<1> QED BY <1>2, <1>3, <1>6, <1>7, <1>8 DEF InLine, z

(* The packet that was due has come: what follows it on the line is late. *)
LEMMA NextInLine ==
  ASSUME NEW S, NEW q \in Seq(S), q # <<>>, NEW B \in Nat, NEW R \in 0 .. B + 1, InLine(q, R, B),
         Due(Head(q), R, B)
  PROVE  InLine(Tail(q), R + 1, B) /\ NoneDue(Tail(q), R + 1, B) /\ ~ NoneDue(q, R, B)
<1> DEFINE z == Tail(q)
           T == R + 1
<1>1. /\ Len(z) = Len(q) - 1 /\ Len(q) \in Nat \ {0} /\ Head(q) = q[1]
      /\ \A i \in 1 .. Len(z) : i + 1 \in 1 .. Len(q) /\ z[i] = q[i + 1]
  BY TailIs
<1>2. 1 \in 1 .. Len(q) /\ \A i \in 1 .. Len(z) : 1 < i + 1
  BY <1>1
<1>3. T \in 0 .. B + 2 /\ R \in 0 .. B + 2 /\ T > 0 /\ T - 1 = R /\ R < T
  OBVIOUS
<1> HIDE DEF z, T
<1>4. \A i \in 1 .. Len(z) : Due(z[i], R, B) \/ Noise(z[i])
  <2> SUFFICES ASSUME NEW i \in 1 .. Len(z) PROVE Due(z[i], R, B) \/ Noise(z[i])
    OBVIOUS
  <2> DEFINE j == i + 1
  <2>1. j \in 1 .. Len(q) /\ z[i] = q[j] /\ 1 < j
    BY <1>1, <1>2
  <2> HIDE DEF j
  <2>2. ~ Late(q[j], R, B)
    BY <1>1, <1>2, <2>1 DEF InLine
  <2> QED BY <2>1, <2>2 DEF InLine
<1>5. \A m : Due(m, R, B) => Late(m, T, B)
  BY <1>3 DEF Due, Late
<1>6. \A m : Due(m, R, B) \/ Noise(m) => ~ Due(m, T, B)
  BY <1>3, PacketsDiffer, PacketWhat DEF Due
<1>7. InLine(z, T, B)
  BY <1>4, <1>5, <1>6 DEF InLine
<1>8. NoneDue(z, T, B)
  BY <1>4, <1>6 DEF NoneDue
<1>9. ~ NoneDue(q, R, B)
  BY <1>1, <1>2 DEF NoneDue
<1> QED BY <1>7, <1>8, <1>9 DEF z, T
-----------------------------------------------------------------------------
(***************************************************************************)
(* The line of replies.                                                    *)
(***************************************************************************)
LEMMA TailReplies ==
  ASSUME NEW a \in Seq(Replies), a # <<>>
  PROVE  /\ NoAck(a) => NoAck(Tail(a)) /\ Head(a) # "ACK"
         /\ OneAck(a) => OneAck(Tail(a))
         /\ OneAck(a) /\ Head(a) = "ACK" => NoAck(Tail(a))
<1> DEFINE z == Tail(a)
<1>1. /\ Len(z) = Len(a) - 1 /\ Len(a) \in Nat \ {0} /\ Head(a) = a[1]
      /\ \A i \in 1 .. Len(z) : i + 1 \in 1 .. Len(a) /\ z[i] = a[i + 1]
  BY TailIs
<1>2. 1 \in 1 .. Len(a) /\ \A i \in 1 .. Len(z) : 1 # i + 1
  BY <1>1
<1>3. \A i, j \in 1 .. Len(z) : i + 1 = j + 1 => i = j
  BY <1>1
<1> HIDE DEF z
<1>4. NoAck(a) => NoAck(z) /\ Head(a) # "ACK"
  BY <1>1, <1>2 DEF NoAck
<1>5. OneAck(a) => OneAck(z)
  BY <1>1, <1>3 DEF OneAck
<1>6. OneAck(a) /\ Head(a) = "ACK" => NoAck(z)
  BY <1>1, <1>2 DEF OneAck, NoAck
<1> QED BY <1>4, <1>5, <1>6 DEF z

LEMMA MoreReplies ==
  ASSUME NEW a \in Seq(Replies), NEW rs \in Seq(Replies)
  PROVE  /\ NoAck(rs) /\ NoAck(a) => NoAck(a \o rs)
         /\ NoAck(rs) /\ OneAck(a) => OneAck(a \o rs)
         /\ OneAck(rs) /\ NoAck(a) => OneAck(a \o rs)
<1> DEFINE z == a \o rs
           n == Len(a)
<1>1. /\ n \in Nat /\ Len(rs) \in Nat /\ Len(z) = n + Len(rs)
      /\ \A i \in 1 .. n : z[i] = a[i]
      /\ \A i \in n + 1 .. n + Len(rs) : z[i] = rs[i - n]
  OBVIOUS
<1>2. \A i \in 1 .. Len(z) : i \in 1 .. n \/ (i \in n + 1 .. n + Len(rs) /\ i - n \in 1 .. Len(rs))
  BY <1>1
<1>3. \A i, j \in 1 .. Len(z) : i - n = j - n => i = j
  BY <1>1
<1> HIDE DEF z
<1>4. \A i \in 1 .. Len(z) :
        (i \in 1 .. n /\ z[i] = a[i]) \/ (i - n \in 1 .. Len(rs) /\ z[i] = rs[i - n])
  BY <1>1, <1>2
<1>5. NoAck(rs) /\ NoAck(a) => NoAck(z)
  BY <1>4 DEF NoAck
<1>6. NoAck(rs) /\ OneAck(a) => OneAck(z)
  BY <1>4 DEF NoAck, OneAck
<1>7. OneAck(rs) /\ NoAck(a) => OneAck(z)
  BY <1>3, <1>4 DEF NoAck, OneAck
<1> QED BY <1>5, <1>6, <1>7 DEF z

LEMMA AcksIn ==
  /\ NoAck(<<"NAK">>) /\ NoAck(<<"C">>) /\ NoAck(<<"CA">>)
  /\ OneAck(<<"ACK">>) /\ OneAck(<<"ACK", "C">>)
BY DEF NoAck, OneAck

-----------------------------------------------------------------------------
(***************************************************************************)
(* What the receiver does keeps the protocol.                              *)
(***************************************************************************)
Replied(a, s, rs) == IF s.state = "off" THEN <<>> ELSE a \o rs

(* A packet is lost or turned down. *)
LEMMA ProtocolTail ==
  ASSUME NEW S, NEW q \in Seq(S), q # <<>>, NEW R, NEW a, NEW s, NEW B, Protocol(R, q, a, s, B)
  PROVE  Protocol(R, Tail(q), a, s, B)
<1>1. InLine(Tail(q), R, B) /\ (NoneDue(q, R, B) => NoneDue(Tail(q), R, B))
  BY TailInLine DEF Protocol
<1> QED BY <1>1 DEF Protocol

LEMMA ProtocolDamage ==
  ASSUME NEW S, NEW q \in Seq(S), q # <<>>, NEW B \in Nat, NEW R \in 0 .. B + 2, NEW a, NEW s,
         Protocol(R, q, a, s, B), NEW m \in S, Noise(m)
  PROVE  Protocol(R, <<m>> \o Tail(q), a, s, B)
<1>1. /\ InLine(<<m>> \o Tail(q), R, B)
      /\ NoneDue(q, R, B) => NoneDue(<<m>> \o Tail(q), R, B)
  BY DamagedInLine DEF Protocol
<1> QED BY <1>1 DEF Protocol

(* A reply that acknowledges nothing. *)
LEMMA ProtocolReply ==
  ASSUME NEW R, NEW q, NEW a \in Seq(Replies), NEW s, NEW B, Protocol(R, q, a, s, B),
         NEW rs \in Seq(Replies), NoAck(rs)
  PROVE  Protocol(R, q, Replied(a, s, rs), s, B)
<1>1. s.state # "off" => Replied(a, s, rs) = a \o rs
  BY DEF Replied
<1>2. (NoAck(a) => NoAck(a \o rs)) /\ (OneAck(a) => OneAck(a \o rs))
  BY MoreReplies
<1> QED BY <1>1, <1>2 DEF Protocol

LEMMA ProtocolLoses ==
  ASSUME NEW R, NEW q, NEW a \in Seq(Replies), a # <<>>, NEW s, NEW B, Protocol(R, q, a, s, B)
  PROVE  Protocol(R, q, Tail(a), s, B)
<1>1. (NoAck(a) => NoAck(Tail(a))) /\ (OneAck(a) => OneAck(Tail(a)))
  BY TailReplies
<1> QED BY <1>1 DEF Protocol

(* In the last stage replies do not matter. *)
LEMMA ProtocolLast ==
  ASSUME NEW q, NEW a, NEW s, NEW B \in Nat, Protocol(B + 2, q, a, s, B), NEW z
  PROVE  Protocol(B + 2, q, z, s, B)
<1>1. ~ (B + 2 < B + 2)
  OBVIOUS
<1> QED BY <1>1 DEF Protocol

(* The packet of the stage has come: the next stage. *)
LEMMA ProtocolNext ==
  ASSUME NEW S, NEW q \in Seq(S), q # <<>>, NEW B \in Nat, NEW R \in 0 .. B + 1,
         NEW a \in Seq(Replies), NEW s, Protocol(R, q, a, s, B),
         s.state \in States, Due(Head(q), R, B), NEW rs \in Seq(Replies), OneAck(rs)
  PROVE  Protocol(R + 1, Tail(q), Replied(a, s, rs), s, B)
<1>1. InLine(Tail(q), R + 1, B) /\ NoneDue(Tail(q), R + 1, B) /\ ~ NoneDue(q, R, B)
  BY NextInLine DEF Protocol
<1>2. ASSUME s.state # "off"
      PROVE  /\ SenderAt(s, R + 1, B) /\ OneAck(Replied(a, s, rs)) /\ ~ Settled(s, R + 1, B)
  <2>1. SenderAt(s, R, B) /\ Sent(s, B) # R - 1 /\ (Settled(s, R, B) => NoAck(a))
    <3>1. R < B + 2
      OBVIOUS
    <3> QED BY <1>1, <1>2, <3>1 DEF Protocol
  <2>2. Sent(s, B) = R /\ s.state \notin {"offer", "ready"}
    BY <2>1 DEF SenderAt
  <2>3. s.state # "end" /\ s.file # 2
    <3>1. s.state = "end" => Sent(s, B) = B + 2
      BY DEF Sent
    <3>2. R # B + 2
      OBVIOUS
    <3> QED BY <2>1, <2>2, <3>1, <3>2 DEF SenderAt
  <2>4. Sent(s, B) = (R + 1) - 1 /\ Sent(s, B) # R + 1
    BY <2>2
  <2>5. SenderAt(s, R + 1, B)
    BY <2>1, <2>2, <2>3, <2>4 DEF SenderAt
  <2>6. ~ Settled(s, R + 1, B)
    BY <2>2, <2>4 DEF Settled
  <2>7. NoAck(a)
    BY <2>1, <2>2 DEF Settled
  <2>8. OneAck(a \o rs) /\ Replied(a, s, rs) = a \o rs
    BY <1>2, <2>7, MoreReplies DEF Replied
  <2> QED BY <2>5, <2>6, <2>8
<1> QED BY <1>1, <1>2 DEF Protocol
-----------------------------------------------------------------------------
(***************************************************************************)
(* What the sender does keeps the protocol.                                *)
(***************************************************************************)
At(st, f, k) == [state |-> st, file |-> f, block |-> k]

(* The sender gives up, with or without a word. *)
LEMMA ProtocolStops ==
  ASSUME NEW S, NEW q \in Seq(S), NEW B \in Nat, NEW R \in 0 .. B + 2, NEW a, NEW s, NEW z,
         Protocol(R, q, a, s, B), NEW m \in S, Noise(m)
  PROVE  Protocol(R, q, z, Off, B) /\ Protocol(R, Append(q, m), z, Off, B)
<1>1. InLine(q, R, B) /\ InLine(Append(q, m), R, B)
  BY AppendInLine DEF Protocol
<1> QED BY <1>1 DEF Protocol, Off

(* The packet sent last is sent again. *)
LEMMA ProtocolRepeats ==
  ASSUME NEW S, NEW q \in Seq(S), NEW B \in Nat, NEW R \in 0 .. B + 2, NEW a, NEW s,
         Protocol(R, q, a, s, B), s.state \in {"header", "block", "eot", "end"},
         PacketOf(s.state, s.file, s.block) \in S
  PROVE  Protocol(R, Append(q, PacketOf(s.state, s.file, s.block)), a, s, B)
<1> DEFINE m == PacketOf(s.state, s.file, s.block)
<1>1. SenderAt(s, R, B) /\ (Sent(s, B) = R - 1 => NoneDue(q, R, B)) /\ InLine(q, R, B)
  BY DEF Protocol
<1>2. m = PacketAt(Sent(s, B), B) /\ Sent(s, B) >= 0
  <2>1. CASE s.state = "header"
    BY <1>1, <2>1 DEF PacketOf, Sent, PacketAt, SenderAt
  <2>2. CASE s.state = "block"
    BY <1>1, <2>2 DEF PacketOf, Sent, PacketAt, SenderAt
  <2>3. CASE s.state = "eot"
    BY <2>3 DEF PacketOf, Sent, PacketAt
  <2>4. CASE s.state = "end"
    BY <2>4 DEF PacketOf, Sent, PacketAt
  <2> QED BY <2>1, <2>2, <2>3, <2>4
<1>3. m \in S
  OBVIOUS
<1> HIDE DEF m
<1>4. CASE Sent(s, B) = R
  <2>1. Due(m, R, B)
    BY <1>2, <1>4 DEF Due
  <2>2. InLine(Append(q, m), R, B) /\ Sent(s, B) # R - 1
    BY <1>1, <1>3, <1>4, <2>1, AppendInLine
  <2> QED BY <2>2 DEF Protocol, m
<1>5. CASE Sent(s, B) = R - 1
  <2>1. Late(m, R, B)
    BY <1>2, <1>5 DEF Late
  <2>2. InLine(Append(q, m), R, B) /\ NoneDue(Append(q, m), R, B)
    BY <1>1, <1>3, <1>5, <2>1, AppendInLine
  <2> QED BY <2>2 DEF Protocol, m
<1> QED BY <1>1, <1>4, <1>5 DEF SenderAt

(* The sender goes on to the packet that is due. *)
LEMMA ProtocolSends ==
  ASSUME NEW S, NEW q \in Seq(S), NEW B \in Nat, NEW R \in 0 .. B + 2, NEW a,
         InLine(q, R, B), NEW s, SenderAt(s, R, B), Sent(s, B) = R,
         s.state \in {"header", "block", "eot", "end"},
         R < B + 2 => NoAck(a),
         NEW m \in S, Due(m, R, B)
  PROVE  Protocol(R, Append(q, m), a, s, B)
<1>1. InLine(Append(q, m), R, B)
  BY AppendInLine
<1>2. R # R - 1
  OBVIOUS
<1>3. NoAck(a) => OneAck(a)
  BY DEF NoAck, OneAck
<1> QED BY <1>1, <1>2, <1>3 DEF Protocol

LEMMA ProtocolHeader ==
  ASSUME NEW S, NEW q \in Seq(S), NEW B \in Nat, NEW R \in 0 .. B + 2, NEW a \in Seq(Replies),
         a # <<>>, NEW s, Protocol(R, q, a, s, B), s.state = "offer", s.file = 1,
         HeaderOf(1) \in S
  PROVE  Protocol(R, Append(q, HeaderOf(1)), Tail(a), At("header", 1, 0), B)
<1> DEFINE t == At("header", 1, 0)
<1>1. /\ InLine(q, R, B) /\ SenderAt(s, R, B) /\ Settled(s, R, B)
      /\ R < B + 2 => NoAck(a)
  BY DEF Protocol, Settled
<1>2. R = 0
  BY <1>1 DEF SenderAt, Sent
<1>3. t.state = "header" /\ t.file = 1
  BY DEF At
<1> HIDE DEF t
<1>4. Sent(t, B) = R
  BY <1>2, <1>3 DEF Sent
<1>5. SenderAt(t, R, B)
  BY <1>2, <1>3, <1>4 DEF SenderAt
<1>6. NoAck(Tail(a))
  BY <1>1, <1>2, TailReplies
<1>7. Due(HeaderOf(1), R, B)
  BY <1>2 DEF Due, PacketAt
<1>8. Protocol(R, Append(q, HeaderOf(1)), Tail(a), t, B)
  BY <1>1, <1>3, <1>4, <1>5, <1>6, <1>7, ProtocolSends
<1> QED BY <1>8 DEF t

LEMMA ProtocolEnd ==
  ASSUME NEW S, NEW q \in Seq(S), NEW B \in Nat, NEW R \in 0 .. B + 2, NEW a, NEW z,
         NEW s, Protocol(R, q, a, s, B), s.state = "offer", s.file = 2, Control("end") \in S
  PROVE  Protocol(R, Append(q, Control("end")), z, At("end", 2, 0), B)
<1> DEFINE t == At("end", 2, 0)
<1>1. InLine(q, R, B) /\ SenderAt(s, R, B)
  BY DEF Protocol
<1>2. R = B + 2
  BY <1>1 DEF SenderAt
<1>3. t.state = "end" /\ t.file = 2
  BY DEF At
<1> HIDE DEF t
<1>4. Sent(t, B) = R
  BY <1>2, <1>3 DEF Sent
<1>5. SenderAt(t, R, B)
  BY <1>3, <1>4 DEF SenderAt
<1>6. Due(Control("end"), R, B)
  BY <1>2 DEF Due, PacketAt
<1>7. Protocol(R, Append(q, Control("end")), z, t, B)
  BY <1>1, <1>2, <1>3, <1>4, <1>5, <1>6, ProtocolSends
<1> QED BY <1>7 DEF t

(* Block k, or the end of the file when there is none. *)
LEMMA ProtocolBlock ==
  ASSUME NEW S, NEW q \in Seq(S), NEW B \in Nat, NEW R \in 0 .. B + 2, NEW a,
         InLine(q, R, B), NoAck(a), R \in 1 .. B + 1,
         DataOf(1, R) \in S, Control("EOT") \in S
  PROVE  /\ R <= B => Protocol(R, Append(q, DataOf(1, R)), a, At("block", 1, R), B)
         /\ ~ (R <= B) => Protocol(R, Append(q, Control("EOT")), a, At("eot", 1, 0), B)
<1>1. ASSUME R <= B PROVE Protocol(R, Append(q, DataOf(1, R)), a, At("block", 1, R), B)
  <2> DEFINE t == At("block", 1, R)
  <2>1. t.state = "block" /\ t.file = 1 /\ t.block = R
    BY DEF At
  <2> HIDE DEF t
  <2>2. Sent(t, B) = R
    BY <2>1 DEF Sent
  <2>3. SenderAt(t, R, B)
    BY <1>1, <2>1, <2>2 DEF SenderAt
  <2>4. Due(DataOf(1, R), R, B)
    BY <1>1 DEF Due, PacketAt
  <2>5. Protocol(R, Append(q, DataOf(1, R)), a, t, B)
    BY <2>1, <2>2, <2>3, <2>4, ProtocolSends
  <2> QED BY <2>5 DEF t
<1>2. ASSUME ~ (R <= B) PROVE Protocol(R, Append(q, Control("EOT")), a, At("eot", 1, 0), B)
  <2> DEFINE t == At("eot", 1, 0)
  <2>1. t.state = "eot" /\ t.file = 1 /\ R = B + 1
    BY <1>2 DEF At
  <2> HIDE DEF t
  <2>2. Sent(t, B) = R
    BY <2>1 DEF Sent
  <2>3. SenderAt(t, R, B)
    BY <2>1, <2>2 DEF SenderAt
  <2>4. Due(Control("EOT"), R, B)
    BY <2>1 DEF Due, PacketAt
  <2>5. Protocol(R, Append(q, Control("EOT")), a, t, B)
    BY <2>1, <2>2, <2>3, <2>4, ProtocolSends
  <2> QED BY <2>5 DEF t
<1> QED BY <1>1, <1>2

(* The sender may send the next block, after its header or a block was
   acknowledged. *)
LEMMA ProtocolReady ==
  ASSUME NEW B \in Nat, NEW R \in 0 .. B + 2, NEW q, NEW a \in Seq(Replies), a # <<>>,
         NEW s, Protocol(R, q, a, s, B), s.state = "block" => Head(a) = "ACK",
         s.state \in {"ready", "block"}
  PROVE  NoAck(Tail(a)) /\ R \in 1 .. B + 1
<1>1. /\ InLine(q, R, B) /\ SenderAt(s, R, B) /\ Sent(s, B) \in {R - 1, R} /\ s.file = 1
      /\ R < B + 2 => OneAck(a) /\ (Settled(s, R, B) => NoAck(a))
  BY DEF Protocol, SenderAt
<1>2. CASE s.state = "ready"
  <2>1. R = 1 /\ R < B + 2 /\ Settled(s, R, B)
    BY <1>1, <1>2 DEF SenderAt, Sent, Settled
  <2> QED BY <1>1, <1>2, <2>1, TailReplies
<1>3. CASE s.state = "block" /\ Head(a) = "ACK"
  <2>1. s.block \in 1 .. B /\ Sent(s, B) = s.block
    BY <1>1, <1>3 DEF SenderAt, Sent
  <2>2. R < B + 2 /\ R \in 1 .. B + 1
    BY <1>1, <2>1
  <2>3. ~ NoAck(a)
    BY <1>3, TailReplies
  <2>4. Sent(s, B) # R
    BY <1>1, <2>2, <2>3 DEF Settled
  <2>5. R = s.block + 1
    BY <1>1, <2>1, <2>4
  <2> QED BY <1>1, <1>3, <2>2, <2>5, TailReplies
<1> QED BY <1>2, <1>3

(* The header was acknowledged, or the end of the file. *)
LEMMA ProtocolMoves ==
  ASSUME NEW B \in Nat, NEW R \in 0 .. B + 2, NEW q, NEW a \in Seq(Replies), a # <<>>,
         NEW s, Protocol(R, q, a, s, B), Head(a) = "ACK"
  PROVE  /\ s.state = "header" => s.file = 1 /\ Protocol(R, q, Tail(a), At("ready", 1, 0), B)
         /\ s.state = "eot" => s.file = 1 /\ Protocol(R, q, Tail(a), At("offer", 2, 0), B)
<1>1. /\ s.state # "off" => InLine(q, R, B) /\ SenderAt(s, R, B) /\ Sent(s, B) \in {R - 1, R}
      /\ s.state # "off" /\ Sent(s, B) = R - 1 => NoneDue(q, R, B)
      /\ s.state # "off" /\ R < B + 2 => OneAck(a) /\ (Settled(s, R, B) => NoAck(a))
  BY DEF Protocol, SenderAt
<1>2. ~ NoAck(a)
  BY TailReplies
<1>3. ASSUME s.state = "header"
      PROVE  s.file = 1 /\ Protocol(R, q, Tail(a), At("ready", 1, 0), B)
  <2> DEFINE t == At("ready", 1, 0)
  <2>1. Sent(s, B) = 0 /\ R \in {0, 1} /\ R < B + 2 /\ s.file = 1
    BY <1>1, <1>3 DEF Sent, SenderAt
  <2>2. R = 1
    BY <1>1, <1>2, <1>3, <2>1 DEF Settled
  <2>3. NoAck(Tail(a)) /\ OneAck(Tail(a))
    BY <1>1, <1>3, <2>1, TailReplies
  <2>4. t.state = "ready" /\ t.file = 1
    BY DEF At
  <2> HIDE DEF t
  <2>5. Sent(t, B) = R - 1
    BY <2>2, <2>4 DEF Sent
  <2>6. SenderAt(t, R, B)
    BY <2>4, <2>5 DEF SenderAt
  <2>7. InLine(q, R, B) /\ NoneDue(q, R, B)
    BY <1>1, <1>3, <2>1, <2>2
  <2>8. Protocol(R, q, Tail(a), t, B)
    BY <2>3, <2>4, <2>5, <2>6, <2>7 DEF Protocol
  <2> QED BY <2>1, <2>8 DEF t
<1>4. ASSUME s.state = "eot"
      PROVE  s.file = 1 /\ Protocol(R, q, Tail(a), At("offer", 2, 0), B)
  <2> DEFINE t == At("offer", 2, 0)
  <2>1. Sent(s, B) = B + 1 /\ R \in {B + 1, B + 2} /\ s.file = 1
    BY <1>1, <1>4 DEF Sent, SenderAt
  <2>2. R = B + 2
    BY <1>1, <1>2, <1>4, <2>1 DEF Settled
  <2>3. t.state = "offer" /\ t.file = 2
    BY DEF At
  <2> HIDE DEF t
  <2>4. Sent(t, B) = R - 1
    BY <2>2, <2>3 DEF Sent
  <2>5. SenderAt(t, R, B)
    BY <2>2, <2>3, <2>4 DEF SenderAt
  <2>6. InLine(q, R, B) /\ NoneDue(q, R, B) /\ ~ (R < B + 2)
    BY <1>1, <1>4, <2>1, <2>2
  <2>7. Protocol(R, q, Tail(a), t, B)
    BY <2>3, <2>4, <2>5, <2>6 DEF Protocol
  <2> QED BY <2>1, <2>7 DEF t
<1> QED BY <1>3, <1>4

-----------------------------------------------------------------------------
(***************************************************************************)
(* The invariant of an upload of one file.                                 *)
(***************************************************************************)
SingleFile == \A b \in Batches : Len(b) = 1

StageOf(r, b, B) == IF r > 0 THEN r ELSE IF b THEN B + 2 ELSE 0
Stage == StageOf(received, begun, Blocks(1))

(* What has been stored when stage R is reached, of a file of B blocks and s
   bytes. *)
Done(R, B, s) == IF R <= B THEN (R - 1) * BlockSize ELSE s

Kept(R, B, s, f, p, n) ==
  /\ R = 0 => f = 0
  /\ R > 0 => /\ f = 1 /\ p = PartProg(1, Done(R, B, s)) /\ Done(R, B, s) < PROG_MAX
              /\ n = s - Done(R, B, s)

Running ==
  /\ Len(batch) = 1 /\ result = "none"
  /\ received \in 0 .. Blocks(1) + 1 /\ (received > 0 => begun)
  /\ Protocol(Stage, toReceiver, toSender, sender, Blocks(1))
  /\ Kept(Stage, Blocks(1), Size(1), file, prog, remained)

(* What was stored is still there when the session is over. *)
Over == StoredAsSent /\ DoneMeansStored /\ RefusesOnlyTooLarge

UploadInv ==
  UploadType /\ (mode = "receiving" => Running) /\ (mode = "idle" => Over)

(* A file of s bytes has as many blocks as are needed. *)
LEMMA BlockCount ==
  ASSUME NEW s \in Nat
  PROVE  LET B == (s + BlockSize - 1) \div BlockSize
         IN  /\ B \in Nat /\ s <= B * BlockSize
             /\ \A k \in 1 .. B : (k - 1) * BlockSize \in Nat /\ (k - 1) * BlockSize < s
<1> DEFINE d == BlockSize
           x == s + d - 1
           B == x \div d
           r == x % d
<1>1. d \in Nat \ {0} /\ x \in Nat
  BY YmodemAssumption
<1>2. B \in Nat /\ r \in 0 .. d - 1 /\ x = B * d + r
  <2> HIDE DEF x, d
  <2> QED BY <1>1
<1>3. B * d \in Nat /\ s + d - 1 = B * d + r
  BY <1>1, <1>2
<1> HIDE DEF B, r, d, x
<1>4. s <= B * d
  BY <1>1, <1>2, <1>3
<1>5. ASSUME NEW k \in 1 .. B PROVE (k - 1) * d \in Nat /\ (k - 1) * d < s
  <2>1. k - 1 \in Nat /\ (k - 1) * d \in Nat
    BY <1>1, <1>2
  <2>2. B - k \in Nat /\ (B - k) * d >= 0
    BY <1>1, <1>2
  <2>3. (k - 1) * d + d + (B - k) * d = B * d
    BY <1>1, <1>2
  <2> DEFINE u == (k - 1) * d
             v == (B - k) * d
             w == B * d
  <2>4. u \in Nat /\ v >= 0 /\ v \in Int /\ w \in Nat /\ u + d + v = w /\ s + d - 1 = w + r
    BY <1>1, <1>2, <1>3, <2>1, <2>2, <2>3
  <2> HIDE DEF u, v, w
  <2>5. u < s
    BY <1>1, <1>2, <2>4
  <2> QED BY <2>1, <2>5 DEF u
<1> QED BY <1>2, <1>4, <1>5 DEF B, d, x

LEMMA ElementIs ==
  ASSUME NEW S, NEW q \in Seq(S), NEW i \in 1 .. Len(q) PROVE q[i] \in S
OBVIOUS

LEMMA FileIs ==
  ASSUME UploadType, Len(batch) = 1
  PROVE  /\ Blocks(1) \in Nat /\ Size(1) \in Nat /\ Size(1) <= Blocks(1) * BlockSize
         /\ \A k \in 1 .. Blocks(1) : (k - 1) * BlockSize \in Nat /\ (k - 1) * BlockSize < Size(1)
<1>1. Size(1) \in Nat
  <2>1. batch \in Seq(Nat)
    BY DEF UploadType, HostType
  <2>2. 1 \in 1 .. Len(batch)
    OBVIOUS
  <2>3. batch[1] \in Nat
    BY <2>1, <2>2, ElementIs
  <2> QED BY <2>3 DEF Size
<1>2. Blocks(1) = (Size(1) + BlockSize - 1) \div BlockSize
  BY DEF Blocks
<1> QED BY <1>1, <1>2, BlockCount

LEMMA StageIs ==
  ASSUME UploadType, Running
  PROVE  /\ Blocks(1) \in Nat /\ Size(1) \in Nat /\ Stage \in 0 .. Blocks(1) + 2
         /\ received > 0 => Stage = received /\ begun /\ Stage \in 1 .. Blocks(1) + 1
         /\ received = 0 => Stage = IF begun THEN Blocks(1) + 2 ELSE 0
         /\ received \in 0 .. Blocks(1) + 1
         /\ Stage > 0 => Done(Stage, Blocks(1), Size(1)) \in Nat
         /\ Done(Stage, Blocks(1), Size(1)) <= Size(1)
<1>1. Blocks(1) \in Nat /\ Size(1) \in Nat
  BY FileIs DEF Running
<1>2. received \in 0 .. Blocks(1) + 1 /\ (received > 0 => begun)
  BY DEF Running
<1>3. Stage \in 0 .. Blocks(1) + 2
  BY <1>1, <1>2 DEF Stage, StageOf
<1>4. (Stage > 0 => Done(Stage, Blocks(1), Size(1)) \in Nat)
      /\ Done(Stage, Blocks(1), Size(1)) <= Size(1)
  <2>1. CASE Stage \in 1 .. Blocks(1)
    <3>1. (Stage - 1) * BlockSize \in Nat /\ (Stage - 1) * BlockSize < Size(1)
      BY <2>1, FileIs DEF Running
    <3>2. Stage <= Blocks(1)
      BY <1>1, <2>1
    <3> DEFINE u == (Stage - 1) * BlockSize
    <3>3. u \in Nat /\ u < Size(1) /\ Done(Stage, Blocks(1), Size(1)) = u
      BY <3>1, <3>2 DEF Done
    <3> HIDE DEF u
    <3> QED BY <1>1, <3>3
  <2>2. CASE Stage > Blocks(1)
    <3>1. Done(Stage, Blocks(1), Size(1)) = Size(1)
      BY <1>1, <1>3, <2>2 DEF Done
    <3> QED BY <1>1, <3>1
  <2>3. CASE Stage = 0
    <3>1. Done(Stage, Blocks(1), Size(1)) = (0 - 1) * BlockSize
      BY <1>1, <2>3 DEF Done
    <3>2. (0 - 1) * BlockSize <= 0
      BY YmodemAssumption
    <3> DEFINE u == (0 - 1) * BlockSize
    <3>3. u \in Int /\ u <= 0
      BY <3>2, YmodemAssumption
    <3> HIDE DEF u
    <3>4. Done(Stage, Blocks(1), Size(1)) <= Size(1)
      BY <1>1, <3>1, <3>3 DEF u
    <3> QED BY <2>3, <3>4
  <2>4. Stage \in 1 .. Blocks(1) \/ Stage > Blocks(1) \/ Stage = 0
    BY <1>1, <1>3
  <2> QED BY <2>1, <2>2, <2>3, <2>4, Zenon
<1>5. /\ received > 0 => Stage = received /\ begun /\ Stage \in 1 .. Blocks(1) + 1
      /\ received = 0 => Stage = IF begun THEN Blocks(1) + 2 ELSE 0
  BY <1>1, <1>2 DEF Stage, StageOf
<1> QED BY <1>1, <1>2, <1>3, <1>4, <1>5
-----------------------------------------------------------------------------
(***************************************************************************)
(* What is stored.                                                         *)
(***************************************************************************)

(* The part of a file that has been received is the file's. *)
LEMMA PartStored ==
  ASSUME NEW f \in Nat, NEW t \in Nat, t <= Size(f), Size(f) \in Nat
  PROVE  \A a \in Address : PartProg(f, t).flash[a] \in {ERASED, Content(f)[a]}
<1> SUFFICES ASSUME NEW a \in Address
             PROVE  PartProg(f, t).flash[a] \in {ERASED, Content(f)[a]}
  OBVIOUS
<1>1. a \in Nat /\ PageOf(t) \in Nat /\ PageOf(t) <= t
  <2>1. a \in Nat
    BY AddressIs
  <2>2. PageOf(t) \in Nat /\ t % PageSize \in 0 .. PageSize - 1 /\ t = PageOf(t) + (t % PageSize)
    BY PageAt
  <2> DEFINE r == t % PageSize
             b == PageOf(t)
  <2>3. b \in Nat /\ r >= 0 /\ r \in Int /\ t = b + r
    BY <2>2, YmodemAssumption, ProgAssumption
  <2> HIDE DEF r, b
  <2>4. b <= t
    BY <2>3
  <2> QED BY <2>1, <2>3, <2>4 DEF b
<1>2. PartProg(f, t).flash[a] = IF a < PageOf(t) THEN Byte(f, a + 1) ELSE ERASED
  BY DEF PartProg, Stored
<1>3. a < PageOf(t) => a < Size(f)
  BY <1>1
<1> QED BY <1>2, <1>3 DEF Content

LEMMA FullStored ==
  ASSUME NEW f \in Nat, PROG_MAX <= Size(f), Size(f) \in Nat
  PROVE  \A a \in Address : FullProg(f).flash[a] \in {ERASED, Content(f)[a]}
<1> SUFFICES ASSUME NEW a \in Address
             PROVE  FullProg(f).flash[a] \in {ERASED, Content(f)[a]}
  OBVIOUS
<1>1. a \in Nat /\ a < Size(f)
  BY AddressIs, ProgMax
<1>2. FullProg(f).flash[a] = IF a < PageOf(PROG_MAX - 1) THEN Byte(f, a + 1) ELSE ERASED
  BY DEF FullProg, Stored
<1> QED BY <1>1, <1>2 DEF Content

LEMMA RunningIsStored ==
  ASSUME UploadType, Running PROVE Over
<1>1. result = "none"
  BY DEF Running
<1>2. StoredAsSent
  <2> DEFINE t == Done(Stage, Blocks(1), Size(1))
  <2>1. CASE Stage = 0
    <3>1. file = 0
      BY <2>1 DEF Running, Kept
    <3> QED BY <3>1 DEF StoredAsSent
  <2>2. CASE Stage > 0
    <3>1. t \in Nat /\ t <= Size(1) /\ Size(1) \in Nat
      BY <2>2, StageIs
    <3>2. file = 1 /\ prog = PartProg(1, t)
      BY <2>2 DEF Running, Kept
    <3> HIDE DEF t
    <3> QED BY <3>1, <3>2, PartStored DEF StoredAsSent
  <2> QED BY <2>1, <2>2, StageIs
<1> QED BY <1>1, <1>2 DEF Over, DoneMeansStored, RefusesOnlyTooLarge

LEMMA InvIsOver == ASSUME UploadInv PROVE Over
<1>1. UploadType /\ mode \in {"idle", "receiving"}
  BY DEF UploadInv, UploadType, SessionType
<1> QED BY <1>1, RunningIsStored DEF UploadInv

(* Nothing but a session changes what is stored. *)
LEMMA OverStays ==
  ASSUME Over, prog' = prog, file' = file, batch' = batch,
         result' \in {result, "none", "ABORT"}
  PROVE  Over'
<1>1. StoredAsSent'
  BY DEF Over, StoredAsSent, Content, Size
<1>2. DoneMeansStored'
  BY DEF Over, DoneMeansStored, Content, Size
<1>3. RefusesOnlyTooLarge'
  BY DEF Over, RefusesOnlyTooLarge, Size
<1> QED BY <1>1, <1>2, <1>3 DEF Over

-----------------------------------------------------------------------------
(***************************************************************************)
(* Which packet the receiver takes for what.                               *)
(***************************************************************************)
LEMMA HeadIs ==
  ASSUME UploadType, Running, NEW m, Receives(m)
  PROVE  /\ toReceiver \in Seq(Sendable(batch)) /\ toReceiver # <<>> /\ m = Head(toReceiver)
         /\ m = PacketAt(Stage, Blocks(1)) \/ Noise(m)
              \/ (Stage > 0 /\ m = PacketAt(Stage - 1, Blocks(1)))
         /\ Protocol(Stage, toReceiver, toSender, sender, Blocks(1))
<1>1. /\ toReceiver \in Seq(Sendable(batch)) /\ toReceiver # <<>> /\ m = Head(toReceiver)
  BY ReceivesTyped DEF UploadType, LineType
<1>2. Protocol(Stage, toReceiver, toSender, sender, Blocks(1))
  BY DEF Running
<1>3. InLine(toReceiver, Stage, Blocks(1))
  BY <1>2 DEF Protocol
<1>4. Late(m, Stage, Blocks(1)) \/ Due(m, Stage, Blocks(1)) \/ Noise(m)
  BY <1>1, <1>3, TailInLine
<1> QED BY <1>1, <1>2, <1>4 DEF Late, Due

LEMMA HeaderComes ==
  ASSUME UploadType, Running, NEW m, Header(m)
  PROVE  Stage = 0 /\ m = HeaderOf(1) /\ m = PacketAt(Stage, Blocks(1))
<1> DEFINE B == Blocks(1)
           R == Stage
           e == R - 1
<1>1. Receives(m) /\ m.what \in {"header", "data"} /\ received = 0
  BY DEF Header, IsBlock
<1>2. B \in Nat /\ R \in {0, B + 2}
  BY <1>1, StageIs
<1>3. m = PacketAt(R, B) \/ Noise(m) \/ (R > 0 /\ m = PacketAt(e, B))
  BY <1>1, HeadIs
<1> HIDE DEF B, R
<1>4. R > 0 => e = B + 1
  BY <1>2
<1> HIDE DEF e
<1>5. ~ Noise(m)
  BY <1>1 DEF Noise
<1>6. PacketAt(B + 1, B).what = "EOT" /\ PacketAt(B + 2, B).what = "end"
      /\ PacketAt(0, B) = HeaderOf(1)
  BY <1>2, PacketWhat
<1>7. R = 0
  BY <1>1, <1>2, <1>3, <1>4, <1>5, <1>6
<1> QED BY <1>2, <1>3, <1>5, <1>6, <1>7 DEF R, B

LEMMA DataComes ==
  ASSUME UploadType, Running, NEW m, Data(m)
  PROVE  /\ Stage \in 1 .. Blocks(1) /\ Stage = received
         /\ m = DataOf(1, Stage) /\ m = PacketAt(Stage, Blocks(1))
<1> DEFINE B == Blocks(1)
           R == Stage
           e == R - 1
<1>1. /\ Receives(m) /\ m.what \in {"header", "data", "end"} /\ received > 0
      /\ m.number = received % NumberMod
  BY DEF Data, IsBlock, Expected
<1>2. B \in Nat /\ R \in 1 .. B + 1 /\ R = received
  BY <1>1, StageIs
<1>3. m = PacketAt(R, B) \/ Noise(m) \/ (R > 0 /\ m = PacketAt(e, B))
  BY <1>1, HeadIs
<1> HIDE DEF B, R
<1>4. e \in 0 .. B /\ e + 1 = R
  BY <1>2
<1> HIDE DEF e
<1>5. ~ Noise(m)
  BY <1>1 DEF Noise
<1>6. m # PacketAt(e, B)
  <2>1. PacketAt(e, B).number = e % NumberMod
    <3>1. CASE e = 0
      <4>1. 0 % NumberMod = 0
        BY YmodemAssumption
      <4> QED BY <3>1, <4>1 DEF PacketAt, HeaderOf
    <3>2. CASE e \in 1 .. B
      BY <3>2 DEF PacketAt, DataOf
    <3> QED BY <1>2, <1>4, <3>1, <3>2
  <2>2. e % NumberMod # R % NumberMod
    BY <1>4, NumbersDiffer
  <2> QED BY <1>1, <1>2, <2>1, <2>2
<1>7. m = PacketAt(R, B)
  BY <1>3, <1>5, <1>6
<1>8. R # B + 1
  <2>1. PacketAt(B + 1, B).what = "EOT"
    BY <1>2, PacketWhat
  <2> QED BY <1>1, <1>7, <2>1
<1>9. R \in 1 .. B /\ m = DataOf(1, R)
  <2>1. R \in 1 .. B
    BY <1>2, <1>8
  <2> QED BY <1>2, <1>7, <2>1 DEF PacketAt
<1> QED BY <1>2, <1>7, <1>9 DEF R, B

LEMMA EndComes ==
  ASSUME UploadType, Running, NEW m, EndOfSession(m)
  PROVE  Stage = Blocks(1) + 2 /\ Stage > Blocks(1) /\ Stage > 0
<1> DEFINE B == Blocks(1)
           R == Stage
<1>1. Receives(m) /\ m.what = "end" /\ received = 0
  BY DEF EndOfSession
<1>2. B \in Nat /\ R \in {0, B + 2}
  BY <1>1, StageIs
<1>3. m = PacketAt(R, B) \/ Noise(m) \/ (R > 0 /\ m = PacketAt(R - 1, B))
  BY <1>1, HeadIs
<1> HIDE DEF B, R
<1>4. R # 0
  <2>1. PacketAt(0, B).what = "header" /\ ~ Noise(m)
    BY <1>1, <1>2, PacketWhat DEF Noise
  <2> QED BY <1>1, <1>3, <2>1
<1> QED BY <1>2, <1>4 DEF B, R

LEMMA EotComes ==
  ASSUME UploadType, Running, NEW m, EndOfFile(m)
  PROVE  \/ Stage = Blocks(1) + 1 /\ m = PacketAt(Stage, Blocks(1)) /\ begun
         \/ Stage = Blocks(1) + 2 /\ begun
<1> DEFINE B == Blocks(1)
           R == Stage
           e == R - 1
<1>1. Receives(m) /\ m.what = "EOT"
  BY DEF EndOfFile
<1>2. B \in Nat /\ R \in 0 .. B + 2 /\ (R > 0 => begun)
  BY StageIs
<1>3. m = PacketAt(R, B) \/ Noise(m) \/ (R > 0 /\ m = PacketAt(e, B))
  BY <1>1, HeadIs
<1> HIDE DEF B, R
<1>4. R > 0 => e \in 0 .. B + 2 /\ e + 1 = R
  BY <1>2
<1> HIDE DEF e
<1>5. ~ Noise(m)
  BY <1>1 DEF Noise
<1>6. \A k \in 0 .. B + 2 : PacketAt(k, B).what = "EOT" => k = B + 1
  <2> SUFFICES ASSUME NEW k \in 0 .. B + 2, PacketAt(k, B).what = "EOT" PROVE k = B + 1
    OBVIOUS
  <2>1. k = 0 \/ k \in 1 .. B \/ k = B + 1 \/ k = B + 2
    BY <1>2
  <2> QED BY <1>2, <2>1, PacketWhat
<1>7. CASE m = PacketAt(R, B)
  <2>1. R = B + 1 /\ R > 0
    BY <1>1, <1>2, <1>6, <1>7
  <2> QED BY <1>2, <1>7, <2>1 DEF B, R
<1>8. CASE R > 0 /\ m = PacketAt(e, B)
  <2>1. e = B + 1
    BY <1>1, <1>4, <1>6, <1>8
  <2>2. R = B + 2
    BY <1>2, <1>4, <1>8, <2>1
  <2> QED BY <1>2, <1>8, <2>2 DEF B, R
<1> QED BY <1>3, <1>5, <1>7, <1>8
-----------------------------------------------------------------------------
(***************************************************************************)
(* The receiver's turns keep the invariant of the session.                 *)
(***************************************************************************)

(* The stage stays. *)
LEMMA SameStage ==
  ASSUME Running, batch' = batch, received' = received, begun' = begun, file' = file,
         prog' = prog, remained' = remained, result' = result,
         Protocol(Stage, toReceiver', toSender', sender', Blocks(1))
  PROVE  Running'
<1>1. Blocks(1)' = Blocks(1) /\ Size(1)' = Size(1)
  BY DEF Blocks, Size
<1>2. Stage' = Stage
  BY <1>1 DEF Stage
<1>3. Protocol(Stage, toReceiver, toSender, sender, Blocks(1))'
  BY <1>1, <1>2
<1>4. Kept(Stage, Blocks(1), Size(1), file, prog, remained)'
  BY <1>1, <1>2 DEF Running
<1> QED BY <1>1, <1>3, <1>4 DEF Running

LEMMA WrongNumberRuns ==
  ASSUME UploadType, Running, NEW m, WrongNumber(m)
  PROVE  Running'
<1>1. /\ Receives(m) /\ Reply(<<"NAK">>) /\ received' = received /\ begun' = begun
      /\ remained' = remained /\ prog' = prog /\ file' = file /\ result' = result
  BY DEF WrongNumber, GoesOn
<1>2. batch' = batch /\ sender' = sender /\ toReceiver' = Tail(toReceiver)
  BY <1>1, ReceivesTyped
<1>3. toSender' = Replied(toSender, sender, <<"NAK">>) /\ toSender \in Seq(Replies)
  BY <1>1 DEF Reply, Replied, UploadType, LineType
<1>4. Protocol(Stage, Tail(toReceiver), toSender, sender, Blocks(1))
  BY <1>1, HeadIs, ProtocolTail
<1>5. Protocol(Stage, Tail(toReceiver), Replied(toSender, sender, <<"NAK">>), sender, Blocks(1))
  BY <1>3, <1>4, RepliesAre, AcksIn, ProtocolReply
<1>6. Protocol(Stage, toReceiver', toSender', sender', Blocks(1))
  BY <1>2, <1>3, <1>5
<1> QED BY <1>1, <1>2, <1>6, SameStage

LEMMA FailsRuns ==
  ASSUME UploadType, Running, Fails,
         \/ toReceiver' = toReceiver
         \/ toReceiver # <<>> /\ toReceiver' = Tail(toReceiver)
  PROVE  Running'
<1> DEFINE rs == IF errors' > MaxErrors THEN <<"CA">> ELSE <<"C">>
<1>1. /\ result' = result /\ received' = received /\ begun' = begun
      /\ remained' = remained /\ prog' = prog /\ file' = file /\ batch' = batch
      /\ sender' = sender /\ Reply(rs)
  BY DEF Fails, host
<1>2. rs \in Seq(Replies) /\ NoAck(rs)
  BY RepliesAre, AcksIn
<1> HIDE DEF rs
<1>3. toSender' = Replied(toSender, sender, rs) /\ toSender \in Seq(Replies)
  BY <1>1 DEF Reply, Replied, UploadType, LineType
<1>4. Protocol(Stage, toReceiver', toSender, sender, Blocks(1))
  <2>1. Protocol(Stage, toReceiver, toSender, sender, Blocks(1))
    BY DEF Running
  <2>2. toReceiver \in Seq(Sendable(batch))
    BY DEF UploadType, LineType
  <2>3. CASE toReceiver' = toReceiver
    BY <2>1, <2>3
  <2>4. CASE toReceiver # <<>> /\ toReceiver' = Tail(toReceiver)
    <3>1. Protocol(Stage, Tail(toReceiver), toSender, sender, Blocks(1))
      BY <2>1, <2>2, <2>4, ProtocolTail
    <3> QED BY <2>4, <3>1
  <2> QED BY <2>3, <2>4
<1>5. Protocol(Stage, toReceiver', Replied(toSender, sender, rs), sender, Blocks(1))
  <2> DEFINE q == toReceiver'
  <2>1. Protocol(Stage, q, toSender, sender, Blocks(1))
    BY <1>4
  <2> HIDE DEF q
  <2>2. Protocol(Stage, q, Replied(toSender, sender, rs), sender, Blocks(1))
    BY <1>2, <1>3, <2>1, ProtocolReply
  <2> QED BY <2>2 DEF q
<1>6. Protocol(Stage, toReceiver', toSender', sender', Blocks(1))
  BY <1>1, <1>3, <1>5
<1> QED BY <1>1, <1>6, SameStage

(* The next stage. *)
LEMMA NextStage ==
  ASSUME UploadType, Running, NEW m, Receives(m), m = PacketAt(Stage, Blocks(1)),
         Stage \in 0 .. Blocks(1) + 1, NEW rs \in Seq(Replies), OneAck(rs), Reply(rs)
  PROVE  Protocol(Stage + 1, toReceiver', toSender', sender', Blocks(1))
<1>1. /\ toReceiver \in Seq(Sendable(batch)) /\ toReceiver # <<>> /\ m = Head(toReceiver)
      /\ Protocol(Stage, toReceiver, toSender, sender, Blocks(1))
  BY HeadIs
<1>2. batch' = batch /\ sender' = sender /\ toReceiver' = Tail(toReceiver)
  BY ReceivesTyped
<1>3. toSender' = Replied(toSender, sender, rs) /\ toSender \in Seq(Replies)
      /\ sender.state \in States
  BY DEF Reply, Replied, UploadType, LineType, HostType
<1>4. Due(Head(toReceiver), Stage, Blocks(1)) /\ Blocks(1) \in Nat
  BY <1>1, StageIs DEF Due
<1>5. Protocol(Stage + 1, Tail(toReceiver), Replied(toSender, sender, rs), sender, Blocks(1))
  BY <1>1, <1>3, <1>4, ProtocolNext
<1> QED BY <1>2, <1>3, <1>5

LEMMA HeaderRuns ==
  ASSUME UploadType, Running, NEW m, Header(m)
  PROVE  Running'
<1>1. /\ Receives(m) /\ prog' = Begun(prog) /\ file' = m.file /\ received' = 1 /\ begun' = TRUE
      /\ remained' = IF m.what = "header" THEN Size(m.file) ELSE 0
      /\ Reply(<<"ACK", "C">>) /\ result' = result
  BY DEF Header, GoesOn
<1>2. Stage = 0 /\ m = HeaderOf(1) /\ m = PacketAt(Stage, Blocks(1))
  BY HeaderComes
<1>3. Blocks(1) \in Nat /\ Size(1) \in Nat /\ Size(1) <= Blocks(1) * BlockSize
      /\ Len(batch) = 1 /\ result = "none"
  BY FileIs DEF Running
<1>4. Stage \in 0 .. Blocks(1) + 1
  BY <1>2, <1>3
<1>5. Protocol(Stage + 1, toReceiver', toSender', sender', Blocks(1))
  BY <1>1, <1>2, <1>4, RepliesAre, AcksIn, NextStage
<1>6. batch' = batch
  BY <1>1, ReceivesTyped
<1>7. Blocks(1)' = Blocks(1) /\ Size(1)' = Size(1)
  BY <1>6 DEF Blocks, Size
<1>8. Stage' = 1 /\ Stage + 1 = 1
  BY <1>1, <1>2 DEF Stage, StageOf
<1>9. Done(1, Blocks(1), Size(1)) = 0
  <2>1. CASE 1 <= Blocks(1)
    <3>1. (1 - 1) * BlockSize = 0
      BY YmodemAssumption
    <3> QED BY <2>1, <3>1 DEF Done
  <2>2. CASE ~ (1 <= Blocks(1))
    <3>1. Blocks(1) = 0 /\ 0 * BlockSize = 0
      BY <1>3, <2>2, YmodemAssumption
    <3>2. Size(1) = 0
      BY <1>3, <3>1
    <3> QED BY <2>2, <3>2 DEF Done
  <2> QED BY <2>1, <2>2
<1>10. file' = 1 /\ remained' = Size(1)
  BY <1>1, <1>2 DEF HeaderOf
<1>11. Begun(prog) = PartProg(1, 0)
  <2>1. PageOf(0) = 0 /\ 0 % PageSize = 0 /\ 0 \in Nat
    BY ProgMax
  <2>2. Page(1, 0, 0) = <<>>
    BY PageIs
  <2>3. Stored(1, 0) = ErasedFlash
    <3>1. \A a \in Address : ~ (a < 0)
      BY AddressIs
    <3> QED BY <3>1 DEF Stored, ErasedFlash
  <2> DEFINE e == ErasedFlash
             x == TRUE
             y == FALSE
  <2> HIDE DEF e, x, y
  <2>4. [[flash |-> e, page |-> <<>>, total |-> 0, owned |-> y, quota |-> y] EXCEPT !.owned = x]
          = [flash |-> e, page |-> <<>>, total |-> 0, owned |-> x, quota |-> y]
    OBVIOUS
  <2>5. Begun(prog) = [flash |-> e, page |-> <<>>, total |-> 0, owned |-> x, quota |-> y]
    BY <2>4 DEF Begun, FreshProg, e, x, y
  <2> QED BY <2>1, <2>2, <2>3, <2>5 DEF PartProg, e, x, y
<1>12. Kept(1, Blocks(1), Size(1), 1, PartProg(1, 0), Size(1))
  <2>1. 0 < PROG_MAX /\ Size(1) - 0 = Size(1)
    BY <1>3, ProgMax
  <2> QED BY <1>9, <2>1 DEF Kept
<1>13. Kept(Stage, Blocks(1), Size(1), file, prog, remained)'
  BY <1>1, <1>7, <1>8, <1>10, <1>11, <1>12
<1>14. Protocol(Stage, toReceiver, toSender, sender, Blocks(1))'
  BY <1>5, <1>7, <1>8
<1>15. 1 \in 0 .. Blocks(1) + 1
  BY <1>3
<1> QED BY <1>1, <1>3, <1>6, <1>7, <1>13, <1>14, <1>15 DEF Running

LEMMA EndOfFileRuns ==
  ASSUME UploadType, Running, NEW m, EndOfFile(m)
  PROVE  Running'
<1> DEFINE B == Blocks(1)
<1>1. /\ Receives(m) /\ received' = 0 /\ Reply(<<"ACK">>) /\ result' = result
      /\ begun' = begun /\ remained' = remained /\ prog' = prog /\ file' = file
  BY DEF EndOfFile, GoesOn
<1>2. /\ toReceiver \in Seq(Sendable(batch)) /\ toReceiver # <<>>
      /\ Protocol(Stage, toReceiver, toSender, sender, B)
  BY <1>1, HeadIs
<1>3. batch' = batch /\ sender' = sender /\ toReceiver' = Tail(toReceiver)
  BY <1>1, ReceivesTyped
<1>4. Blocks(1)' = B /\ Size(1)' = Size(1)
  BY <1>3 DEF Blocks, Size
<1>5. B \in Nat /\ Size(1) \in Nat
  BY StageIs
<1>6. begun /\ Stage' = B + 2
  <2>1. begun
    BY EotComes
  <2> QED BY <1>1, <1>4, <2>1 DEF Stage, StageOf
<1>7. Stage \in {B + 1, B + 2} /\ Stage > 0 /\ ~ (Stage <= B) /\ ~ (B + 2 <= B)
  BY <1>5, EotComes
<1>8. Protocol(B + 2, toReceiver', toSender', sender', B)
  <2>1. CASE Stage = B + 1 /\ m = PacketAt(Stage, Blocks(1))
    <3>1. Stage \in 0 .. Blocks(1) + 1 /\ Stage + 1 = B + 2
      BY <1>5, <2>1
    <3>2. Protocol(Stage + 1, toReceiver', toSender', sender', Blocks(1))
      BY <1>1, <2>1, <3>1, RepliesAre, AcksIn, NextStage
    <3> QED BY <3>1, <3>2
  <2>2. CASE Stage = B + 2
    <3>1. Protocol(B + 2, Tail(toReceiver), toSender, sender, B)
      BY <1>2, <2>2, ProtocolTail
    <3> DEFINE z == toSender'
    <3>2. Protocol(B + 2, Tail(toReceiver), z, sender, B)
      <4> HIDE DEF z, B
      <4> QED BY <1>5, <3>1, ProtocolLast
    <3> QED BY <1>3, <3>2
  <2> QED BY <2>1, <2>2, EotComes
<1>9. Kept(B + 2, B, Size(1), file, prog, remained)
  <2>1. Done(Stage, B, Size(1)) = Size(1) /\ Done(B + 2, B, Size(1)) = Size(1)
    BY <1>7 DEF Done
  <2>2. B + 2 # 0
    BY <1>5
  <2> QED BY <1>7, <2>1, <2>2 DEF Running, Kept
<1>10. Kept(Stage, Blocks(1), Size(1), file, prog, remained)'
  BY <1>1, <1>4, <1>6, <1>9
<1>11. Protocol(Stage, toReceiver, toSender, sender, Blocks(1))'
  BY <1>4, <1>6, <1>8
<1>12. 0 \in 0 .. B + 1 /\ ~ (0 > 0)
  BY <1>5
<1> QED BY <1>1, <1>3, <1>4, <1>10, <1>11, <1>12 DEF Running

(* packet_cb stores the block. *)
LEMMA DataStores ==
  ASSUME UploadType, Running, NEW m, Data(m)
  PROVE  /\ Stage + 1 > 0 /\ Stage + 1 \in 1 .. Blocks(1) + 1
         /\ Done(Stage + 1, Blocks(1), Size(1)) \in Nat
         /\ Done(Stage + 1, Blocks(1), Size(1)) <= Size(1)
         /\ prog' = After(1, Done(Stage + 1, Blocks(1), Size(1)))
         /\ remained' = Size(1) - Done(Stage + 1, Blocks(1), Size(1))
<1> DEFINE B == Blocks(1)
           R == Stage
           s == Size(1)
           t == Done(R, B, s)
           w == Wanted(m)
           n == Len(w)
           u == Done(R + 1, B, s)
<1>1. Receives(m) /\ prog' = Written(prog, w) /\ remained' = remained - n
  BY DEF Data
<1>2. R \in 1 .. B /\ m = DataOf(1, R)
  BY DataComes
<1>3. B \in Nat /\ s \in Nat /\ s <= B * BlockSize
      /\ \A k \in 1 .. B : (k - 1) * BlockSize \in Nat /\ (k - 1) * BlockSize < s
  BY FileIs DEF Running
<1>4. t = (R - 1) * BlockSize /\ t \in Nat /\ t < s
  BY <1>2, <1>3 DEF Done
<1>5. prog = PartProg(1, t) /\ remained = s - t /\ t < PROG_MAX
  <2>1. R > 0
    BY <1>2
  <2> QED BY <2>1 DEF Running, Kept
<1>6. /\ n = IF remained < BlockSize THEN remained ELSE BlockSize
      /\ n \in Nat /\ n <= remained
      /\ \A j \in 1 .. n : w[j] = BytesOf(m)[j]
  <2>1. m \in Sendable(batch)
    BY <1>1, ReceivesTyped
  <2> QED BY <2>1, WantedTyped
<1>7. BlockSize \in Nat \ {0}
  BY YmodemAssumption
<1>8. \A j \in 1 .. n : w[j] = Byte(1, t + j)
  <2> SUFFICES ASSUME NEW j \in 1 .. n PROVE w[j] = Byte(1, t + j)
    OBVIOUS
  <2>1. m.what = "data" /\ m.file = 1 /\ m.block = R
    BY <1>2 DEF DataOf
  <2>2. w[j] = BytesOf(m)[j]
    BY <1>6
  <2> HIDE DEF R, s, B, t, w, n
  <2>3. t + j <= s /\ j \in 1 .. BlockSize
    BY <1>3, <1>4, <1>5, <1>6, <1>7
  <2> DEFINE i == (m.block - 1) * BlockSize + j
  <2>4. i = t + j
    BY <1>4, <2>1
  <2>5. BytesOf(m)[j] = IF m.what = "data" /\ i <= Size(m.file) THEN Byte(m.file, i) ELSE PAD
    BY <2>3 DEF BytesOf
  <2> HIDE DEF i
  <2>6. BytesOf(m)[j] = Byte(1, t + j)
    BY <2>1, <2>3, <2>4, <2>5 DEF s
  <2> QED BY <2>2, <2>6
<1>9. u = t + n
  <2> HIDE DEF s, B, R, n
  <2>1. CASE R + 1 <= B
    <3>1. R + 1 \in 1 .. B /\ (R + 1) - 1 = R
      BY <1>2, <1>3, <2>1
    <3>2. R * BlockSize < s /\ R * BlockSize \in Nat
      BY <1>3, <3>1
    <3>3. R * BlockSize = (R - 1) * BlockSize + BlockSize
      BY <1>2, <1>3, <1>7
    <3>4. u = R * BlockSize
      BY <2>1, <3>1 DEF Done
    <3> DEFINE x == R * BlockSize
    <3>5. x \in Nat /\ x < s /\ x = t + BlockSize /\ u = x
      BY <1>4, <3>2, <3>3, <3>4
    <3> HIDE DEF x, t, u
    <3>6. ~ (remained < BlockSize)
      BY <1>3, <1>4, <1>5, <1>7, <3>5
    <3> QED BY <1>6, <3>5, <3>6
  <2>2. CASE ~ (R + 1 <= B)
    <3>1. R = B
      BY <1>2, <1>3, <2>2
    <3>2. u = s
      BY <2>2 DEF Done
    <3>3. B * BlockSize = (R - 1) * BlockSize + BlockSize
      BY <1>2, <1>3, <1>7, <3>1
    <3> DEFINE x == B * BlockSize
    <3>4. x \in Int /\ s <= x /\ x = t + BlockSize
      BY <1>3, <1>4, <1>7, <3>3
    <3> HIDE DEF x, t, u
    <3>5. remained <= BlockSize /\ remained \in Nat
      BY <1>3, <1>4, <1>5, <1>7, <3>4
    <3>6. n = remained
      BY <1>6, <1>7, <3>5
    <3> QED BY <1>3, <1>4, <1>5, <3>2, <3>6
  <2> QED BY <2>1, <2>2
<1> HIDE DEF t, n, w, u
<1>10. u \in Nat /\ u <= s /\ remained' = s - u
  <2> HIDE DEF s
  <2> QED BY <1>1, <1>3, <1>4, <1>5, <1>6, <1>9
<1>11. prog' = After(1, u)
  <2>1. prog = After(1, t)
    BY <1>5 DEF After
  <2>2. Written(After(1, t), w) = After(1, t + n)
    BY <1>4, <1>6, <1>8, WrittenAfter DEF n
  <2> QED BY <1>1, <1>9, <2>1, <2>2
<1>12. R + 1 > 0 /\ R + 1 \in 1 .. B + 1
  <2> HIDE DEF R, B
  <2> QED BY <1>2, <1>3
<1> QED BY <1>10, <1>11, <1>12 DEF u

LEMMA DataRuns ==
  ASSUME UploadType, Running, NEW m, Data(m), ~ prog'.quota
  PROVE  Running'
<1> DEFINE B == Blocks(1)
           u == Done(Stage + 1, B, Size(1))
<1>1. /\ Receives(m) /\ received' = received + 1 /\ begun' = TRUE /\ file' = file
      /\ Reply(<<"ACK">>) /\ result' = result
  BY DEF Data, GoesOn
<1>2. Stage \in 1 .. B /\ Stage = received /\ m = PacketAt(Stage, B)
  BY DataComes
<1>3. B \in Nat /\ Size(1) \in Nat
  BY StageIs
<1>4. /\ Stage + 1 > 0 /\ Stage + 1 \in 1 .. B + 1
      /\ u \in Nat /\ u <= Size(1)
      /\ prog' = After(1, u) /\ remained' = Size(1) - u
  BY DataStores
<1> HIDE DEF u
<1>5. batch' = batch
  BY <1>1, ReceivesTyped
<1>6. Blocks(1)' = B /\ Size(1)' = Size(1)
  BY <1>5 DEF Blocks, Size
<1>7. Stage' = Stage + 1
  BY <1>1, <1>2, <1>4 DEF Stage, StageOf
<1>8. Protocol(Stage + 1, toReceiver', toSender', sender', B)
  <2>1. Stage \in 0 .. Blocks(1) + 1
    BY <1>2, <1>3
  <2> QED BY <1>1, <1>2, <2>1, RepliesAre, AcksIn, NextStage
<1>9. u < PROG_MAX /\ prog' = PartProg(1, u)
  <2>1. CASE u < PROG_MAX
    BY <1>4, <2>1 DEF After
  <2>2. CASE ~ (u < PROG_MAX)
    <3>1. prog'.quota = TRUE
      BY <1>4, <2>2 DEF After, FullProg
    <3> QED BY <3>1
  <2> QED BY <2>1, <2>2
<1>10. file = 1
  <2>1. Stage > 0
    BY <1>2
  <2> QED BY <2>1 DEF Running, Kept
<1>11. Kept(Stage + 1, B, Size(1), file', prog', remained')
  <2>1. Stage + 1 # 0
    BY <1>4
  <2> QED BY <1>1, <1>4, <1>9, <1>10, <2>1 DEF Kept, u
<1>12. Kept(Stage, Blocks(1), Size(1), file, prog, remained)'
  BY <1>6, <1>7, <1>11
<1>13. Protocol(Stage, toReceiver, toSender, sender, Blocks(1))'
  BY <1>6, <1>7, <1>8
<1>14. received' \in 0 .. B + 1
  BY <1>1, <1>2, <1>3
<1> QED BY <1>1, <1>5, <1>6, <1>12, <1>13, <1>14 DEF Running

(* A file without room for the end of string is refused, one that fits is
   not. *)
LEMMA DataRefuses ==
  ASSUME UploadType, Running, NEW m, Data(m), prog'.quota
  PROVE  Over'
<1> DEFINE u == Done(Stage + 1, Blocks(1), Size(1))
<1>1. Receives(m) /\ file' = file /\ result' = "DATA"
  BY DEF Data, Return
<1>2. u \in Nat /\ u <= Size(1) /\ prog' = After(1, u)
  BY DataStores
<1> HIDE DEF u
<1>3. batch' = batch
  BY <1>1, ReceivesTyped
<1>4. Size(1) \in Nat /\ Size(1)' = Size(1) /\ Content(1)' = Content(1)
  BY <1>3, StageIs DEF Size, Content
<1>5. file = 1
  <2>1. Stage > 0
    BY DataComes, StageIs
  <2> QED BY <2>1 DEF Running, Kept
<1>6. ~ (u < PROG_MAX) /\ prog' = FullProg(1)
  <2>1. CASE u < PROG_MAX
    <3>1. prog'.quota = FALSE
      BY <1>2, <2>1 DEF After, PartProg
    <3> QED BY <3>1
  <2>2. CASE ~ (u < PROG_MAX)
    BY <1>2, <2>2 DEF After
  <2> QED BY <2>1, <2>2
<1>7. PROG_MAX <= Size(1) /\ Size(1) >= PROG_MAX
  BY <1>2, <1>4, <1>6, ProgMax
<1>8. \A a \in Address : FullProg(1).flash[a] \in {ERASED, Content(1)[a]}
  BY <1>4, <1>7, FullStored
<1>9. StoredAsSent'
  BY <1>1, <1>3, <1>4, <1>5, <1>6, <1>8 DEF StoredAsSent
<1>10. DoneMeansStored' /\ RefusesOnlyTooLarge'
  BY <1>1, <1>3, <1>4, <1>5, <1>7 DEF DoneMeansStored, RefusesOnlyTooLarge
<1> QED BY <1>9, <1>10 DEF Over

(* Done: the program can be read back. *)
LEMMA EndStores ==
  ASSUME UploadType, Running, NEW m, EndOfSession(m)
  PROVE  Over'
<1> DEFINE t == Size(1)
           p == Ended(PartProg(1, t))
<1>1. Receives(m) /\ prog' = Ended(prog) /\ file' = file /\ result' = "OK"
  BY DEF EndOfSession, Return
<1>2. Stage > Blocks(1) /\ Stage > 0
  BY EndComes
<1>3. t \in Nat /\ Blocks(1) \in Nat /\ Stage \in 0 .. Blocks(1) + 2
  BY StageIs
<1>4. file = 1 /\ prog = PartProg(1, t) /\ t < PROG_MAX /\ Len(batch) = 1
  <2>1. Done(Stage, Blocks(1), Size(1)) = t
    BY <1>2, <1>3 DEF Done
  <2> QED BY <1>2, <2>1 DEF Running, Kept
<1>5. batch' = batch
  BY <1>1, ReceivesTyped
<1>6. Size(1)' = t /\ Content(1)' = Content(1)
  BY <1>5 DEF Size, Content
<1>7. \A a \in Address : /\ a < t => p.flash[a] = Byte(1, a + 1)
                         /\ a = t => p.flash[a] = NUL
                         /\ a > t => p.flash[a] \in {NUL, ERASED}
  <2> HIDE DEF t
  <2> QED BY <1>3, <1>4, EndedIs
<1>8. GetSize(p) = t
  <2> HIDE DEF t, p
  <2> QED BY <1>3, <1>4, <1>7, SizeFound
<1>9. \A a \in Address : Content(1)[a] = IF a < t THEN Byte(1, a + 1) ELSE NUL
  BY DEF Content
<1>10. prog' = p
  BY <1>1, <1>4
<1> HIDE DEF p, t
<1>11. \A a \in Address : p.flash[a] \in {ERASED, Content(1)[a]}
  <2> SUFFICES ASSUME NEW a \in Address PROVE p.flash[a] \in {ERASED, Content(1)[a]}
    OBVIOUS
  <2>1. a < t \/ a = t \/ a > t
    BY <1>3, AddressIs
  <2>2. a = t \/ a > t => ~ (a < t)
    BY <1>3, AddressIs
  <2> QED BY <1>7, <1>9, <2>1, <2>2
<1>12. \A a \in 0 .. t : p.flash[a] = Content(1)[a]
  <2> SUFFICES ASSUME NEW a \in 0 .. t PROVE p.flash[a] = Content(1)[a]
    OBVIOUS
  <2>1. a \in Address /\ (a < t \/ (a = t /\ ~ (a < t)))
    BY <1>3, <1>4, AddressIs, ProgMax
  <2> QED BY <1>7, <1>9, <2>1
<1>13. StoredAsSent'
  BY <1>1, <1>4, <1>6, <1>10, <1>11 DEF StoredAsSent
<1>14. DoneMeansStored'
  BY <1>1, <1>4, <1>5, <1>6, <1>8, <1>10, <1>12 DEF DoneMeansStored
<1>15. RefusesOnlyTooLarge'
  BY <1>1 DEF RefusesOnlyTooLarge
<1> QED BY <1>13, <1>14, <1>15 DEF Over

-----------------------------------------------------------------------------
(***************************************************************************)
(* The host and the line keep the invariant of the session.                *)
(***************************************************************************)
LEMMA SenderReadsRuns ==
  ASSUME UploadType, Running, SenderReads
  PROVE  Running'
<1> DEFINE B == Blocks(1)
           q == toReceiver
           a == toSender
           s == sender
           S == Sendable(batch)
<1>1. /\ s.state # "off" /\ a # <<>> /\ UNCHANGED receiver /\ batch' = batch
      /\ toSender' = IF sender'.state = "off" THEN <<>> ELSE Tail(a)
  BY SenderReadsIs
<1>2. /\ q \in Seq(S) /\ a \in Seq(Replies) /\ s.state \in States
      /\ s \in [state : States, file : Nat, block : Nat] /\ InBatch(s, batch)
  BY DEF UploadType, LineType, HostType
<1>3. /\ B \in Nat /\ Stage \in 0 .. B + 2 /\ Protocol(Stage, q, a, s, B) /\ Len(batch) = 1
      /\ s.file \in {1, 2}
  BY <1>1, StageIs DEF Running, Protocol, SenderAt
<1>4. SUFFICES Protocol(Stage, toReceiver', toSender', sender', B)
  BY <1>1, SameStage DEF receiver
<1>5. /\ Control("bad") \in S /\ Control("end") \in S /\ Control("EOT") \in S
      /\ Noise(Control("bad"))
  BY ControlTyped DEF Noise, Control
<1> HIDE DEF B, S
<1>6. CASE sender' = Off /\ toReceiver' = q
  <2>1. Protocol(Stage, q, <<>>, Off, B)
    BY <1>2, <1>3, <1>5, ProtocolStops
  <2>2. toSender' = <<>>
    BY <1>1, <1>6 DEF Off
  <2> QED BY <1>6, <2>1, <2>2
<1>7. CASE \/ s.state = "offer" /\ s.file <= Len(batch) /\ SentNow("header", s.file, 0)
           \/ s.state = "offer" /\ ~ (s.file <= Len(batch)) /\ SentNow("end", s.file, 0)
  <2>1. CASE s.state = "offer" /\ s.file <= Len(batch) /\ SentNow("header", s.file, 0)
    <3>1. s.file = 1
      BY <1>3, <2>1
    <3>2. HeaderOf(1) \in S /\ PacketOf("header", 1, 0) = HeaderOf(1)
      <4>1. 1 \in 1 .. Len(batch)
        BY <1>3
      <4>2. PacketOf("header", 1, 0) \in Sendable(batch)
        BY <4>1, PacketTyped
      <4> QED BY <4>2 DEF PacketOf, S
    <3>3. Protocol(Stage, Append(q, HeaderOf(1)), Tail(a), At("header", 1, 0), B)
      BY <1>1, <1>2, <1>3, <2>1, <3>1, <3>2, ProtocolHeader
    <3>4. /\ sender' = At("header", 1, 0) /\ toReceiver' = Append(q, HeaderOf(1))
          /\ sender'.state # "off"
      BY <2>1, <3>1, <3>2 DEF SentNow, At
    <3> QED BY <1>1, <3>3, <3>4
  <2>2. CASE s.state = "offer" /\ ~ (s.file <= Len(batch)) /\ SentNow("end", s.file, 0)
    <3>1. s.file = 2
      BY <1>3, <2>2
    <3>2. Protocol(Stage, Append(q, Control("end")), Tail(a), At("end", 2, 0), B)
      BY <1>2, <1>3, <1>5, <2>2, <3>1, ProtocolEnd
    <3>3. /\ sender' = At("end", 2, 0) /\ toReceiver' = Append(q, Control("end"))
          /\ sender'.state # "off"
      BY <2>2, <3>1 DEF SentNow, At, PacketOf
    <3> QED BY <1>1, <3>2, <3>3
  <2> QED BY <1>7, <2>1, <2>2
<1>8. CASE \/ s.state = "ready"
           \/ s.state = "block" /\ Head(a) = "ACK"
  <2>1. /\ s.file = 1 /\ InLine(q, Stage, B) /\ NoAck(Tail(a)) /\ Stage \in 1 .. B + 1
        /\ s.state = "ready" => Stage = 1
        /\ s.state = "block" => Stage = s.block + 1
    <3>1. /\ B \in Nat /\ Stage \in 0 .. B + 2 /\ Protocol(Stage, q, a, s, B)
          /\ a \in Seq(Replies) /\ a # <<>>
      BY <1>1, <1>2, <1>3
    <3>2. s.state \in {"ready", "block"} /\ (s.state = "block" => Head(a) = "ACK")
      BY <1>8
    <3> HIDE DEF q, a, s
    <3>3. s.file = 1 /\ InLine(q, Stage, B)
      BY <3>1, <3>2 DEF Protocol, SenderAt
    <3>4. NoAck(Tail(a)) /\ Stage \in 1 .. B + 1
      BY <3>1, <3>2, ProtocolReady
    <3>5. s.state = "ready" => Stage = 1
      BY <3>1 DEF Protocol, SenderAt, Sent
    <3>6. s.state = "block" => Stage = s.block + 1
      <4>1. s.state = "block" => ~ NoAck(a)
        BY <3>1, <3>2, TailReplies
      <4> QED BY <3>1, <3>4, <4>1 DEF Protocol, SenderAt, Sent, Settled
    <3> QED BY <3>3, <3>4, <3>5, <3>6
  <2>2. CASE Stage <= B /\ SentNow("block", 1, Stage)
    <3>1. DataOf(1, Stage) \in S /\ PacketOf("block", 1, Stage) = DataOf(1, Stage)
      <4>1. 1 \in 1 .. Len(batch) /\ Stage \in Nat
        BY <1>3, <2>1
      <4>2. PacketOf("block", 1, Stage) \in Sendable(batch)
        BY <4>1, PacketTyped
      <4> QED BY <4>2 DEF PacketOf, S
    <3>2. Protocol(Stage, Append(q, DataOf(1, Stage)), Tail(a), At("block", 1, Stage), B)
      <4>1. DataOf(1, Stage) \in S /\ Control("EOT") \in S
        BY <1>5, <3>1
      <4> QED BY <1>2, <1>3, <2>1, <2>2, <4>1, ProtocolBlock
    <3>3. /\ sender' = At("block", 1, Stage) /\ toReceiver' = Append(q, DataOf(1, Stage))
          /\ sender'.state # "off"
      BY <2>2, <3>1 DEF SentNow, At
    <3> QED BY <1>1, <3>2, <3>3
  <2>3. CASE ~ (Stage <= B) /\ SentNow("eot", 1, 0)
    <3>1. DataOf(1, Stage) \in S
      <4>1. 1 \in 1 .. Len(batch) /\ Stage \in Nat
        BY <1>3, <2>1
      <4>2. PacketOf("block", 1, Stage) \in Sendable(batch)
        BY <4>1, PacketTyped
      <4> QED BY <4>2 DEF PacketOf, S
    <3>2. Protocol(Stage, Append(q, Control("EOT")), Tail(a), At("eot", 1, 0), B)
      BY <1>2, <1>3, <1>5, <2>1, <2>3, <3>1, ProtocolBlock
    <3>3. /\ sender' = At("eot", 1, 0) /\ toReceiver' = Append(q, Control("EOT"))
          /\ sender'.state # "off"
      BY <2>3 DEF SentNow, At, PacketOf
    <3> QED BY <1>1, <3>2, <3>3
  <2>4. CASE \/ s.state = "ready" /\ 1 <= Blocks(s.file) /\ SentNow("block", s.file, 1)
             \/ s.state = "ready" /\ ~ (1 <= Blocks(s.file)) /\ SentNow("eot", s.file, 0)
    BY <2>1, <2>2, <2>3, <2>4 DEF B
  <2>5. CASE \/ /\ s.state = "block" /\ s.block + 1 <= Blocks(s.file)
                /\ SentNow("block", s.file, s.block + 1)
             \/ /\ s.state = "block" /\ ~ (s.block + 1 <= Blocks(s.file))
                /\ SentNow("eot", s.file, 0)
    BY <2>1, <2>2, <2>3, <2>5 DEF B
  <2>6. CASE s.state = "block" /\ SentNow(s.state, s.file, s.block)
    <3>1. PacketOf(s.state, s.file, s.block) \in S
      BY <1>2, <2>6, PacketTyped DEF InBatch, S
    <3>2. Protocol(Stage, Append(q, PacketOf(s.state, s.file, s.block)), a, s, B)
      BY <1>2, <1>3, <2>6, <3>1, ProtocolRepeats
    <3>3. Protocol(Stage, Append(q, PacketOf(s.state, s.file, s.block)), Tail(a), s, B)
      BY <1>1, <1>2, <3>2, ProtocolLoses
    <3>4. sender' = s /\ toReceiver' = Append(q, PacketOf(s.state, s.file, s.block))
      BY <1>2, <2>6 DEF SentNow
    <3> QED BY <1>1, <3>3, <3>4
  <2>7. CASE sender' = s /\ toReceiver' = q
    <3>1. Protocol(Stage, q, Tail(a), s, B)
      BY <1>1, <1>2, <1>3, ProtocolLoses
    <3> QED BY <1>1, <2>7, <3>1
  <2> QED BY <1>6, <1>8, <2>4, <2>5, <2>6, <2>7, SenderReadsIs
<1>9. CASE \/ /\ s.state = "header" /\ Head(a) = "ACK" /\ toReceiver' = q
              /\ sender' = [state |-> "ready", file |-> s.file, block |-> 0]
           \/ /\ s.state = "eot" /\ Head(a) = "ACK" /\ toReceiver' = q
              /\ sender' = [state |-> "offer", file |-> s.file + 1, block |-> 0]
  <2>1. /\ s.state = "header" => s.file = 1 /\ Protocol(Stage, q, Tail(a), At("ready", 1, 0), B)
        /\ s.state = "eot" => s.file = 1 /\ Protocol(Stage, q, Tail(a), At("offer", 2, 0), B)
    BY <1>1, <1>2, <1>3, <1>9, ProtocolMoves
  <2>2. /\ s.state = "header" => sender' = At("ready", 1, 0)
        /\ s.state = "eot" => sender' = At("offer", 2, 0)
        /\ sender'.state # "off"
    <3>1. CASE s.state = "header"
      BY <1>9, <2>1, <3>1 DEF At
    <3>2. CASE s.state = "eot"
      BY <1>9, <2>1, <3>2 DEF At
    <3> QED BY <1>9, <3>1, <3>2
  <2> QED BY <1>1, <1>9, <2>1, <2>2
<1>10. CASE s.state \in {"header", "block", "eot", "end"} /\ SentNow(s.state, s.file, s.block)
  <2>1. PacketOf(s.state, s.file, s.block) \in S
    BY <1>2, <1>10, PacketTyped DEF InBatch, S
  <2>2. Protocol(Stage, Append(q, PacketOf(s.state, s.file, s.block)), a, s, B)
    BY <1>2, <1>3, <1>10, <2>1, ProtocolRepeats
  <2>3. Protocol(Stage, Append(q, PacketOf(s.state, s.file, s.block)), Tail(a), s, B)
    BY <1>1, <1>2, <2>2, ProtocolLoses
  <2>4. sender' = s /\ toReceiver' = Append(q, PacketOf(s.state, s.file, s.block))
    BY <1>2, <1>10 DEF SentNow
  <2> QED BY <1>1, <2>3, <2>4
<1>11. CASE sender' = s /\ toReceiver' = q
  <2>1. Protocol(Stage, q, Tail(a), s, B)
    BY <1>1, <1>2, <1>3, ProtocolLoses
  <2> QED BY <1>1, <1>11, <2>1
<1> QED BY <1>6, <1>7, <1>8, <1>9, <1>10, <1>11, SenderReadsIs

LEMMA SenderRepeatsRuns ==
  ASSUME UploadType, Running, SenderRepeats
  PROVE  Running'
<1> DEFINE s == sender
           m == PacketOf(s.state, s.file, s.block)
           S == Sendable(batch)
<1>1. /\ s.state \in {"header", "block", "eot", "end"} /\ SentNow(s.state, s.file, s.block)
      /\ UNCHANGED receiver /\ batch' = batch /\ toSender' = toSender
  BY DEF SenderRepeats, Waiting, Sends, SentNow
<1>2. /\ toReceiver \in Seq(S) /\ s \in [state : States, file : Nat, block : Nat]
      /\ InBatch(s, batch)
  BY DEF UploadType, LineType, HostType
<1>3. m \in S
  BY <1>1, <1>2, PacketTyped DEF InBatch
<1>4. Protocol(Stage, toReceiver, toSender, s, Blocks(1)) /\ Blocks(1) \in Nat
      /\ Stage \in 0 .. Blocks(1) + 2
  BY StageIs DEF Running
<1> HIDE DEF S
<1>5. Protocol(Stage, Append(toReceiver, m), toSender, s, Blocks(1))
  BY <1>1, <1>2, <1>3, <1>4, ProtocolRepeats
<1>6. sender' = s /\ toReceiver' = Append(toReceiver, m)
  BY <1>1, <1>2 DEF SentNow
<1>7. Protocol(Stage, toReceiver', toSender', sender', Blocks(1))
  BY <1>1, <1>5, <1>6
<1> QED BY <1>1, <1>7, SameStage DEF receiver

LEMMA MishapRuns ==
  ASSUME UploadType, Running, LosePacket \/ DamagePacket \/ LoseReply \/ SenderStops
  PROVE  Running'
<1> DEFINE S == Sendable(batch)
           B == Blocks(1)
<1>1. /\ toReceiver \in Seq(S) /\ toSender \in Seq(Replies) /\ B \in Nat /\ Stage \in 0 .. B + 2
      /\ Protocol(Stage, toReceiver, toSender, sender, B)
      /\ Control("bad") \in S /\ Control("CA") \in S
      /\ Noise(Control("bad")) /\ Noise(Control("CA"))
  BY StageIs, ControlTyped DEF Running, UploadType, LineType, Noise, Control
<1>2. UNCHANGED receiver /\ batch' = batch
  BY DEF LosePacket, DamagePacket, LoseReply, SenderStops, host
<1>3. SUFFICES Protocol(Stage, toReceiver', toSender', sender', B)
  BY <1>2, SameStage DEF receiver
<1> HIDE DEF S, B
<1>4. CASE LosePacket
  <2>1. /\ sender' = sender /\ toSender' = toSender
        /\ toReceiver # <<>> /\ toReceiver' = Tail(toReceiver)
    BY <1>4 DEF LosePacket, host
  <2>2. Protocol(Stage, Tail(toReceiver), toSender, sender, B)
    BY <1>1, <2>1, ProtocolTail
  <2> QED BY <2>1, <2>2
<1>5. CASE DamagePacket
  <2>1. /\ sender' = sender /\ toSender' = toSender
        /\ toReceiver # <<>> /\ toReceiver' = <<Control("bad")>> \o Tail(toReceiver)
    BY <1>5 DEF DamagePacket, host
  <2>2. Protocol(Stage, <<Control("bad")>> \o Tail(toReceiver), toSender, sender, B)
    BY <1>1, <2>1, ProtocolDamage
  <2> QED BY <2>1, <2>2
<1>6. CASE LoseReply
  <2>1. /\ sender' = sender /\ toReceiver' = toReceiver
        /\ toSender # <<>> /\ toSender' = Tail(toSender)
    BY <1>6 DEF LoseReply, host
  <2>2. Protocol(Stage, toReceiver, Tail(toSender), sender, B)
    BY <1>1, <2>1, ProtocolLoses
  <2> QED BY <2>1, <2>2
<1>7. CASE SenderStops
  <2>1. /\ sender' = Off /\ toSender' = <<>>
        /\ toReceiver' \in {toReceiver, Append(toReceiver, Control("CA"))}
    BY <1>7 DEF SenderStops
  <2>2. /\ Protocol(Stage, toReceiver, <<>>, Off, B)
        /\ Protocol(Stage, Append(toReceiver, Control("CA")), <<>>, Off, B)
    BY <1>1, ProtocolStops
  <2> QED BY <2>1, <2>2
<1> QED BY <1>4, <1>5, <1>6, <1>7

LEMMA StartRuns ==
  ASSUME SingleFile, NEW b \in Batches, Start(b)
  PROVE  Running'
<1>1. /\ result' = "none" /\ received' = 0 /\ begun' = FALSE /\ file' = 0
      /\ toReceiver' = <<>> /\ toSender' = <<>>
      /\ batch' = b /\ sender' = [state |-> "offer", file |-> 1, block |-> 0]
  BY DEF Start
<1>2. b \in Seq(Nat) /\ Len(b) = 1
  BY YmodemAssumption DEF SingleFile
<1> DEFINE B == Blocks(1)'
           t == At("offer", 1, 0)
<1>3. B \in Nat
  <2>1. b[1] \in Nat
    <3>1. 1 \in 1 .. Len(b)
      BY <1>2
    <3> QED BY <1>2, <3>1, ElementIs
  <2>2. (b[1] + BlockSize - 1) \div BlockSize \in Nat
    BY <2>1, BlockCount
  <2> QED BY <1>1, <2>2 DEF Blocks, Size
<1>4. Stage' = 0
  BY <1>1 DEF Stage, StageOf
<1>5. sender' = t
  BY <1>1 DEF At
<1> HIDE DEF B
<1>6. Protocol(0, <<>>, <<>>, t, B)
  <2>1. t.state = "offer" /\ t.file = 1
    BY DEF At
  <2> HIDE DEF t
  <2>2. Sent(t, B) = 0 - 1 /\ 0 # B + 2
    BY <1>3, <2>1 DEF Sent
  <2>3. SenderAt(t, 0, B)
    BY <2>1, <2>2 DEF SenderAt
  <2>4. InLine(<<>>, 0, B) /\ NoneDue(<<>>, 0, B) /\ NoAck(<<>>) /\ OneAck(<<>>)
    BY DEF InLine, NoneDue, NoAck, OneAck
  <2> QED BY <2>3, <2>4 DEF Protocol
<1>7. Protocol(Stage, toReceiver, toSender, sender, Blocks(1))'
  BY <1>1, <1>4, <1>5, <1>6 DEF B
<1>8. Kept(Stage, Blocks(1), Size(1), file, prog, remained)'
  BY <1>1, <1>4 DEF Kept
<1>9. 0 \in 0 .. B + 1
  BY <1>3
<1> QED BY <1>1, <1>2, <1>7, <1>8, <1>9 DEF Running, B
-----------------------------------------------------------------------------
LEMMA UploadInvStart == Init => UploadInv
<1> SUFFICES ASSUME Init PROVE UploadInv
  OBVIOUS
<1>1. UploadType
  BY UploadTypeStart
<1>2. Over
  BY DEF Init, Over, StoredAsSent, DoneMeansStored, RefusesOnlyTooLarge
<1>3. mode = "idle"
  BY DEF Init
<1> QED BY <1>1, <1>2, <1>3 DEF UploadInv

(* A turn of the receiver in a session. *)
LEMMA TurnKeeps ==
  ASSUME UploadInv, NEW m, Receive(m)
  PROVE  (mode' = "receiving" => Running') /\ (mode' = "idle" => Over')
<1>1. Receives(m) /\ mode = "receiving" /\ UploadType /\ Running /\ Over
  <2>1. Receives(m)
    BY DEF Receive, SenderAborts, EndOfFile, WrongNumber, Header, EndOfSession, Data
  <2> QED BY <2>1, InvIsOver DEF Receives, UploadInv
<1>2. CASE SenderAborts(m)
  <2>1. prog' = prog /\ file' = file /\ result' = "ABORT" /\ mode' = "idle" /\ batch' = batch
    BY <1>2 DEF SenderAborts, Return, Receives, host
  <2> QED BY <1>1, <2>1, OverStays
<1>3. CASE EndOfFile(m)
  <2>1. mode' = mode
    BY <1>3 DEF EndOfFile, GoesOn
  <2> QED BY <1>1, <1>3, <2>1, EndOfFileRuns
<1>4. CASE WrongNumber(m)
  <2>1. mode' = mode
    BY <1>4 DEF WrongNumber, GoesOn
  <2> QED BY <1>1, <1>4, <2>1, WrongNumberRuns
<1>5. CASE Header(m)
  <2>1. mode' = mode
    BY <1>5 DEF Header, GoesOn
  <2> QED BY <1>1, <1>5, <2>1, HeaderRuns
<1>6. CASE EndOfSession(m)
  <2>1. mode' = "idle"
    BY <1>6 DEF EndOfSession, Return
  <2> QED BY <1>1, <1>6, <2>1, EndStores
<1>7. CASE Data(m)
  <2>1. CASE prog'.quota
    <3>1. mode' = "idle"
      BY <1>7, <2>1 DEF Data, Return
    <3> QED BY <1>1, <1>7, <2>1, <3>1, DataRefuses
  <2>2. CASE ~ prog'.quota
    <3>1. mode' = "receiving"
      BY <1>1, <1>7, <2>2 DEF Data, GoesOn
    <3> QED BY <1>1, <1>7, <2>2, <3>1, DataRuns
  <2> QED BY <2>1, <2>2
<1> QED BY <1>2, <1>3, <1>4, <1>5, <1>6, <1>7 DEF Receive

LEMMA FailsKeeps ==
  ASSUME UploadInv, BadPacket \/ Timeout
  PROVE  (mode' = "receiving" => Running') /\ (mode' = "idle" => Over')
<1>1. Fails /\ mode = "receiving" /\ mode' = mode /\ UploadType /\ Running
  BY DEF BadPacket, Timeout, Fails, UploadInv
<1>2. \/ toReceiver' = toReceiver
      \/ toReceiver # <<>> /\ toReceiver' = Tail(toReceiver)
  BY DEF BadPacket, Timeout
<1>3. Running'
  BY <1>1, <1>2, FailsRuns
<1> QED BY <1>1, <1>3

(* The receiver does not move. *)
LEMMA LineKeeps ==
  ASSUME UploadInv, UNCHANGED receiver, batch' = batch, mode = "receiving" => Running'
  PROVE  (mode' = "receiving" => Running') /\ (mode' = "idle" => Over')
<1>1. Over /\ mode' = mode /\ prog' = prog /\ file' = file /\ result' = result
  BY InvIsOver DEF receiver
<1>2. Over'
  BY <1>1, OverStays
<1> QED BY <1>1, <1>2

LEMMA UploadInvStep == SingleFile /\ UploadInv /\ [Next]_vars => UploadInv'
<1> SUFFICES ASSUME SingleFile, UploadInv, [Next]_vars PROVE UploadInv'
  OBVIOUS
<1>1. UploadType /\ UploadType' /\ Over /\ (mode = "receiving" => Running)
  BY UploadTypeStep, InvIsOver DEF UploadInv
<1>2. SUFFICES (mode' = "receiving" => Running') /\ (mode' = "idle" => Over')
  BY <1>1 DEF UploadInv
<1>3. CASE \E b \in Batches : Start(b)
  <2>1. PICK b \in Batches : Start(b)
    BY <1>3
  <2>2. mode' = "receiving"
    BY <2>1 DEF Start
  <2> QED BY <2>1, <2>2, StartRuns
<1>4. CASE EraseFlash
  <2>1. mode' = mode /\ mode = "idle" /\ file' = 0 /\ result' = "none"
    BY <1>4 DEF EraseFlash
  <2>2. Over'
    BY <2>1 DEF Over, StoredAsSent, DoneMeansStored, RefusesOnlyTooLarge
  <2> QED BY <2>1, <2>2
<1>5. CASE ReceiverStep
  <2>1. CASE toReceiver # <<>> /\ Receive(Head(toReceiver))
    BY <2>1, TurnKeeps
  <2>2. CASE BadPacket \/ Timeout
    BY <2>2, FailsKeeps
  <2>3. CASE Discard
    <3>1. UNCHANGED receiver /\ batch' = batch /\ mode # "receiving"
      BY <2>3 DEF Discard, host
    <3> QED BY <3>1, LineKeeps
  <2> QED BY <1>5, <2>1, <2>2, <2>3 DEF ReceiverStep
<1>6. CASE SenderStep
  <2>1. UNCHANGED receiver /\ batch' = batch
    BY <1>6 DEF SenderStep, SenderReads, SenderRepeats
  <2>2. mode = "receiving" => Running'
    BY <1>1, <1>6, SenderReadsRuns, SenderRepeatsRuns DEF SenderStep
  <2> QED BY <2>1, <2>2, LineKeeps
<1>7. CASE LosePacket \/ DamagePacket \/ LoseReply \/ SenderStops
  <2>1. UNCHANGED receiver /\ batch' = batch
    BY <1>7 DEF LosePacket, DamagePacket, LoseReply, SenderStops, host
  <2>2. mode = "receiving" => Running'
    BY <1>1, <1>7, MishapRuns
  <2> QED BY <2>1, <2>2, LineKeeps
<1>8. CASE UserAborts
  <2>1. prog' = prog /\ file' = file /\ batch' = batch /\ result' = "ABORT" /\ mode' = "idle"
    BY <1>8 DEF UserAborts, Return, host
  <2>2. Over'
    BY <1>1, <2>1, OverStays
  <2> QED BY <2>1, <2>2
<1>9. CASE UNCHANGED vars
  <2>1. UNCHANGED receiver /\ batch' = batch
    BY <1>9 DEF vars, receiver, host
  <2>2. ASSUME mode = "receiving" PROVE Running'
    <3>1. /\ toReceiver' = toReceiver /\ toSender' = toSender /\ sender' = sender
          /\ Protocol(Stage, toReceiver, toSender, sender, Blocks(1))
      BY <1>1, <1>9, <2>2 DEF vars, line, host, Running
    <3>2. Protocol(Stage, toReceiver', toSender', sender', Blocks(1))
      BY <3>1
    <3> QED BY <1>1, <2>1, <2>2, <3>2, SameStage DEF receiver
  <2> QED BY <2>1, <2>2, LineKeeps
<1> QED BY <1>3, <1>4, <1>5, <1>6, <1>7, <1>8, <1>9 DEF Next

LEMMA UploadInvHolds == ASSUME SingleFile PROVE Spec => []UploadInv
<1>1. Init => UploadInv
  BY UploadInvStart
<1>2. UploadInv /\ [Next]_vars => UploadInv'
  BY UploadInvStep
<1> QED BY <1>1, <1>2, PTL DEF Spec

(* In a session of one file no byte of it is stored at a wrong place, twice
   or with another's bits, whatever the line loses, damages or delays. *)
THEOREM StoredAsSentAlways == ASSUME SingleFile PROVE Spec => []StoredAsSent
<1>1. UploadInv => StoredAsSent
  BY InvIsOver DEF Over
<1> QED BY <1>1, UploadInvHolds, PTL

(* Done is printed only when the file can be read back. *)
THEOREM DoneMeansStoredAlways == ASSUME SingleFile PROVE Spec => []DoneMeansStored
<1>1. UploadInv => DoneMeansStored
  BY InvIsOver DEF Over
<1> QED BY <1>1, UploadInvHolds, PTL

(* packet_cb gets the blocks of the file one after the other, each once,
   though a packet carries the number of its block modulo 256 only. *)
THEOREM InOrderAlways == ASSUME SingleFile PROVE Spec => InOrder
<1> DEFINE Taken == LET m == Head(toReceiver)
                    IN  m.block = received /\ (received > 0 => m.file = file)
<1>1. UploadInv /\ [Next]_vars => [received' = received + 1 => Taken]_vars
  <2> SUFFICES ASSUME UploadInv, Next, received' = received + 1 PROVE Taken
    OBVIOUS
  <2>1. UploadType /\ received \in Nat /\ received + 1 # received /\ received + 1 # 0
    BY DEF UploadInv, UploadType, SessionType
  <2> DEFINE m == Head(toReceiver)
  <2>2. Header(m) \/ Data(m)
    <3>1. CASE ReceiverStep
      BY <2>1, <3>1 DEF ReceiverStep, Receive, SenderAborts, EndOfFile, WrongNumber, EndOfSession,
                        BadPacket, Timeout, Fails, Discard, receiver
    <3>2. CASE ~ ReceiverStep
      BY <2>1, <3>2 DEF Next, Start, EraseFlash, SenderStep, SenderReads, SenderRepeats, LosePacket,
                        DamagePacket, LoseReply, UserAborts, SenderStops, receiver
    <3> QED BY <3>1, <3>2
  <2>3. Running
    BY <2>2 DEF Header, Data, Receives, UploadInv
  <2>4. CASE Header(m)
    <3>1. m = HeaderOf(1) /\ received = 0
      BY <2>1, <2>3, <2>4, HeaderComes DEF Header
    <3> QED BY <3>1 DEF HeaderOf
  <2>5. CASE Data(m)
    <3>1. Stage \in 1 .. Blocks(1) /\ Stage = received /\ m = DataOf(1, Stage)
      BY <2>1, <2>3, <2>5, DataComes
    <3>2. file = 1
      <4>1. Stage > 0
        BY <3>1, <2>1, <2>3, StageIs
      <4> QED BY <2>3, <4>1 DEF Running, Kept
    <3> QED BY <3>1, <3>2 DEF DataOf
  <2> QED BY <2>2, <2>4, <2>5
<1> HIDE DEF Taken
<1>2. Spec => [][received' = received + 1 => Taken]_vars
  BY <1>1, UploadInvHolds, PTL DEF Spec
<1> QED BY <1>2 DEF InOrder, Taken

-----------------------------------------------------------------------------
(***************************************************************************)
(* Sessions of several files: no page is programmed twice.                 *)
(***************************************************************************)

(* The page buffer holds the first bytes of the next page, from which on the
   flash is erased. *)
Ahead(p) == \A a \in Address : a >= PageOf(p.total) => p.flash[a] = ERASED
Clean ==
  {p \in ProgType : ~ p.quota /\ Len(p.page) = p.total % PageSize /\ Ahead(p)}

(* What is programmed in flash f stays in q's. *)
Stays(f, q) == \A a \in Address : f[a] # ERASED => q.flash[a] = f[a]

(* page_buffer_flush changes a page that is erased. *)
LEMMA FlushStays ==
  ASSUME NEW p \in ProgState, p.total >= 1,
         \A a \in Address : a >= PageOf(p.total - 1) => p.flash[a] = ERASED
  PROVE  /\ Stays(p.flash, Flush(p))
         /\ \A a \in Address : a >= PageOf(p.total - 1) + PageSize => Flush(p).flash[a] = ERASED
<1> DEFINE b == PageOf(p.total - 1)
           g == Flush(p).flash
           f == p.flash
<1>1. b \in Nat /\ PageSize \in Nat /\ Address \subseteq Nat
  <2>1. p.total - 1 \in Nat
    BY DEF ProgState
  <2> QED BY <2>1, PageAt, ProgAssumption, AddressIs
<1>2. \A a \in Address : ~ (a \in b .. b + PageSize - 1) => g[a] = f[a]
  BY FlushIs
<1>3. \A a \in Address : a >= b => f[a] = ERASED
  OBVIOUS
<1> HIDE DEF b, g, f
<1>4. \A a \in Address : f[a] # ERASED => g[a] = f[a]
  <2> SUFFICES ASSUME NEW a \in Address, f[a] # ERASED PROVE g[a] = f[a]
    OBVIOUS
  <2>1. ~ (a >= b) /\ a \in Nat
    BY <1>1, <1>3
  <2> QED BY <1>1, <1>2, <2>1
<1>5. \A a \in Address : a >= b + PageSize => g[a] = ERASED
  <2> SUFFICES ASSUME NEW a \in Address, a >= b + PageSize PROVE g[a] = ERASED
    OBVIOUS
  <2>1. a \in Nat /\ a >= b /\ ~ (a \in b .. b + PageSize - 1)
    BY <1>1
  <2> QED BY <1>2, <1>3, <2>1
<1> QED BY <1>4, <1>5 DEF Stays, b, f, g

(* page_buffer_push of a clean program: its state, unless the quota is
   reached, is clean again. *)
LEMMA PushStays ==
  ASSUME NEW p \in Clean, NEW byte \in AnyByte
  PROVE  LET q == Push(p, byte)
         IN  /\ q \in ProgType /\ Stays(p.flash, q)
             /\ ~ q.quota => q \in Clean
             /\ q.page # <<>> => q.total = p.total + 1 /\ q.flash = p.flash
<1> DEFINE c == Counted(p, byte)
           n == p.total % PageSize
           b == PageOf(p.total)
           q == Push(p, byte)
<1>1. /\ p \in ProgType /\ p \in ProgState /\ ~ p.quota /\ p.total \in Nat /\ Len(p.page) = n
      /\ \A a \in Address : a >= b => p.flash[a] = ERASED
  BY DEF Clean, Ahead, ProgType, ProgState
<1>2. /\ b \in Nat /\ n \in Nat /\ PageSize \in Nat \ {0}
      /\ n + 1 < PageSize => (p.total + 1) % PageSize = n + 1 /\ PageOf(p.total + 1) = b
      /\ n + 1 >= PageSize =>
           (p.total + 1) % PageSize = 0 /\ PageOf(p.total + 1) = b + PageSize
  <2> DEFINE x == p.total
             r == x % PageSize
             s == (x + 1) % PageSize
  <2>1. x \in Nat
    BY <1>1
  <2> HIDE DEF x
  <2>2. /\ PageOf(x) \in Nat /\ r \in 0 .. PageSize - 1
        /\ r + 1 < PageSize => s = r + 1 /\ PageOf(x + 1) = PageOf(x)
        /\ r + 1 >= PageSize => s = 0 /\ PageOf(x + 1) = PageOf(x) + PageSize
    BY <2>1, PageAt
  <2>3. PageSize \in Nat \ {0}
    BY ProgAssumption
  <2> HIDE DEF r, s
  <2>4. r \in Nat
    BY <2>2, <2>3
  <2> QED BY <2>2, <2>3, <2>4 DEF x, r, s
<1>3. /\ c \in ProgState /\ c.flash = p.flash /\ c.total = p.total + 1
      /\ Len(c.page) = n + 1 /\ c.quota = p.quota /\ c.page # <<>>
      /\ q = IF p.total + 1 >= PROG_MAX THEN [c EXCEPT !.quota = TRUE]
             ELSE IF n + 1 >= PageSize THEN Flush(c) ELSE c
  <2>1. /\ c \in ProgState /\ c = [flash |-> p.flash, page |-> Append(p.page, byte),
                                   total |-> p.total + 1, owned |-> p.owned, quota |-> p.quota]
        /\ Len(Append(p.page, byte)) = n + 1
        /\ q = IF p.total + 1 >= PROG_MAX THEN [c EXCEPT !.quota = TRUE]
               ELSE IF n + 1 >= PageSize THEN Flush(c) ELSE c
    BY <1>1, CountedIs
  <2> DEFINE a == Append(p.page, byte)
  <2> HIDE DEF c, q, n, a
  <2>2. c.flash = p.flash /\ c.page = a /\ c.total = p.total + 1 /\ c.quota = p.quota
    BY <2>1 DEF a
  <2>3. Len(a) = n + 1 /\ n + 1 # 0 /\ Len(<<>>) = 0
    BY <1>2, <2>1 DEF a
  <2>4. a # <<>>
    BY <2>3
  <2> QED BY <2>1, <2>2, <2>3, <2>4
<1>4. q \in ProgType
  BY <1>1, PushTyped
<1> HIDE DEF c, q, n, b
<1>5. CASE p.total + 1 >= PROG_MAX
  <2> DEFINE r == [c EXCEPT !.quota = TRUE]
  <2>1. r.flash = p.flash /\ r.total = p.total + 1 /\ r.quota = TRUE
    BY <1>3 DEF ProgState
  <2> HIDE DEF r
  <2>2. q = r
    BY <1>3, <1>5 DEF r
  <2> QED BY <1>4, <2>1, <2>2 DEF Stays, q
<1>6. CASE ~ (p.total + 1 >= PROG_MAX) /\ n + 1 >= PageSize
  <2> DEFINE d == Flush(c)
  <2>1. c.total >= 1 /\ c.total - 1 = p.total
    BY <1>1, <1>3
  <2>2. PageOf(c.total - 1) = b
    BY <2>1 DEF b
  <2>3. \A a \in Address : a >= PageOf(c.total - 1) => c.flash[a] = ERASED
    BY <1>1, <1>3, <2>2
  <2>4. /\ Stays(p.flash, d)
        /\ \A a \in Address : a >= b + PageSize => d.flash[a] = ERASED
    BY <1>3, <2>1, <2>2, <2>3, FlushStays
  <2>5. d.page = <<>> /\ d.total = p.total + 1 /\ d.quota = p.quota
    BY <1>3, <2>1, FlushIs
  <2> HIDE DEF d
  <2>6. q = d
    BY <1>3, <1>6 DEF d
  <2>7. Len(d.page) = d.total % PageSize /\ PageOf(d.total) = b + PageSize
    BY <1>2, <1>6, <2>5
  <2>8. q \in Clean
    BY <1>1, <1>4, <2>4, <2>5, <2>6, <2>7 DEF Clean, Ahead
  <2> QED BY <1>4, <2>4, <2>5, <2>6, <2>8 DEF q
<1>7. CASE ~ (p.total + 1 >= PROG_MAX) /\ ~ (n + 1 >= PageSize)
  <2>1. q = c
    BY <1>3, <1>7
  <2>2. Len(c.page) = c.total % PageSize /\ PageOf(c.total) = b
    BY <1>2, <1>3, <1>7
  <2>3. Ahead(c)
    BY <1>1, <1>3, <2>2 DEF Ahead
  <2>4. q \in Clean
    BY <1>1, <1>3, <1>4, <2>1, <2>2, <2>3 DEF Clean
  <2> QED BY <1>3, <1>4, <2>1, <2>4 DEF Stays, q
<1> QED BY <1>5, <1>6, <1>7

(* km_prog_write and km_prog_end of a clean program. *)
LEMMA WrittenStays ==
  ASSUME NEW p \in Clean, NEW bytes \in Seq(AnyByte)
  PROVE  LET q == Written(p, bytes)
         IN  Stays(p.flash, q) /\ (~ q.quota => q \in Clean)
<1> DEFINE G == {q \in ProgType : Stays(p.flash, q) /\ (~ q.quota => q \in Clean)}
<1>1. Len(bytes) \in Nat /\ \A i \in 1 .. Len(bytes) : bytes[i] \in AnyByte
  OBVIOUS
<1>2. p \in G
  BY DEF Clean, Stays
<1>3. ASSUME NEW q \in G, NEW i \in 1 .. Len(bytes), ~ q.quota
      PROVE  Push(q, bytes[i]) \in G
  <2> DEFINE r == Push(q, bytes[i])
  <2>1. q \in Clean /\ Stays(p.flash, q)
    BY <1>3
  <2>2. r \in ProgType /\ Stays(q.flash, r) /\ (~ r.quota => r \in Clean)
    BY <1>1, <2>1, PushStays
  <2> HIDE DEF r
  <2>3. Stays(p.flash, r)
    BY <2>1, <2>2 DEF Stays
  <2>4. r \in G
    BY <2>2, <2>3
  <2> QED BY <2>4 DEF r
<1>4. Written(p, bytes) \in G
  <2> HIDE DEF G
  <2> QED BY <1>1, <1>2, <1>3, WrittenKeeps
<1> QED BY <1>4

LEMMA EndedStays == ASSUME NEW p \in Clean PROVE Stays(p.flash, Ended(p))
<1> DEFINE q == Push(p, NUL)
           r == IF q.page # <<>> THEN Flush(q) ELSE q
<1>1. /\ q \in ProgType /\ Stays(p.flash, q)
      /\ q.page # <<>> => q.total = p.total + 1 /\ q.flash = p.flash
  <2>1. NUL \in AnyByte
    BY DEF AnyByte
  <2> QED BY <2>1, PushStays
<1>2. p.total \in Nat /\ \A a \in Address : a >= PageOf(p.total) => p.flash[a] = ERASED
  BY DEF Clean, Ahead, ProgType, ProgState
<1> HIDE DEF q
<1>3. q \in ProgState
  BY <1>1 DEF ProgType
<1>4. Stays(p.flash, r)
  <2>1. CASE q.page # <<>>
    <3>1. q.total >= 1 /\ q.total - 1 = p.total /\ q.flash = p.flash
      BY <1>1, <1>2, <2>1
    <3>2. \A a \in Address : a >= PageOf(q.total - 1) => q.flash[a] = ERASED
      BY <1>2, <3>1
    <3>3. Stays(q.flash, Flush(q))
      BY <1>3, <3>1, <3>2, FlushStays
    <3> QED BY <2>1, <3>1, <3>3
  <2>2. CASE ~ (q.page # <<>>)
    BY <1>1, <2>2
  <2> QED BY <2>1, <2>2
<1>5. r \in ProgState
  <2>1. q.page # <<>> => Flush(q) \in ProgState
    BY <1>1, <1>2, <1>3, FlushIs
  <2> QED BY <1>3, <2>1
<1>6. Ended(p) = [r EXCEPT !.total = 0, !.owned = FALSE]
  BY DEF Ended, q
<1> HIDE DEF r
<1>7. Ended(p).flash = r.flash
  <2>1. Ended(p) = [flash |-> r.flash, page |-> r.page, total |-> 0, owned |-> FALSE,
                    quota |-> r.quota]
    BY <1>5, <1>6 DEF ProgState
  <2> QED BY <2>1
<1> QED BY <1>4, <1>7 DEF Stays

(* An accepted header erases the flash. *)
LEMMA BegunIsClean ==
  ASSUME NEW p
  PROVE  Begun(p) \in Clean /\ \A a \in Address : Begun(p).flash[a] = ERASED
<1> DEFINE e == ErasedFlash
           x == TRUE
           y == FALSE
<1>1. \A a \in Address : e[a] = ERASED
  BY DEF ErasedFlash
<1> HIDE DEF e, x, y
<1>2. Begun(p) = [flash |-> e, page |-> <<>>, total |-> 0, owned |-> x, quota |-> y]
  <2>1. [[flash |-> e, page |-> <<>>, total |-> 0, owned |-> y, quota |-> y] EXCEPT !.owned = x]
          = [flash |-> e, page |-> <<>>, total |-> 0, owned |-> x, quota |-> y]
    OBVIOUS
  <2> QED BY <2>1 DEF Begun, FreshProg, e, x, y
<1>3. 0 % PageSize = 0 /\ Len(<<>>) = 0
  BY ProgAssumption
<1>4. Begun(p) \in ProgType /\ ~ Begun(p).quota
  BY FreshTyped
<1>5. Begun(p).flash = e /\ Begun(p).total = 0 /\ Begun(p).page = <<>>
  BY <1>2
<1> QED BY <1>1, <1>3, <1>4, <1>5 DEF Clean, Ahead

(* Within a session the program is clean from the first header on. *)
CleanInv ==
  /\ UploadType
  /\ mode = "receiving" => (received > 0 => begun) /\ (begun => prog \in Clean)

EndsEmpty  == mode = "receiving" /\ result' = "OK" /\ ~ begun
FlashStays == \A a \in Address :
                prog.flash[a] # ERASED => prog'.flash[a] \in {prog.flash[a], ERASED}

LEMMA CleanInvStart == Init => CleanInv
<1> SUFFICES ASSUME Init PROVE CleanInv
  OBVIOUS
<1>1. UploadType
  BY UploadTypeStart
<1> QED BY <1>1 DEF Init, CleanInv

(* The steps that store nothing. *)
LEMMA QuietIsClean ==
  ASSUME CleanInv, UploadType', prog' = prog,
         \/ mode' = "idle"
         \/ mode' = mode /\ begun' = begun /\ received' \in {received, 0}
         \/ mode' = "receiving" /\ begun' = FALSE /\ received' = 0
  PROVE  CleanInv' /\ FlashStays
<1>1. FlashStays
  BY DEF FlashStays
<1>2. received \in Nat
  BY DEF CleanInv, UploadType, SessionType
<1>3. CASE mode' = "idle"
  BY <1>1, <1>3 DEF CleanInv
<1>4. CASE mode' = mode /\ begun' = begun /\ received' \in {received, 0}
  <2>1. received' > 0 => received > 0
    BY <1>2, <1>4
  <2> QED BY <1>1, <1>4, <2>1 DEF CleanInv
<1>5. CASE mode' = "receiving" /\ begun' = FALSE /\ received' = 0
  <2>1. ~ (received' > 0)
    BY <1>5
  <2> QED BY <1>1, <1>5, <2>1 DEF CleanInv
<1> QED BY <1>3, <1>4, <1>5

LEMMA CleanInvStep ==
  ASSUME CleanInv, [Next]_vars
  PROVE  CleanInv' /\ (~ EndsEmpty => FlashStays)
<1>1. UploadType /\ UploadType'
  BY UploadTypeStep DEF CleanInv
<1>2. CASE \E b \in Batches : Start(b)
  BY <1>1, <1>2, QuietIsClean DEF Start
<1>3. CASE EraseFlash
  <2>1. mode' = mode /\ mode = "idle" /\ prog' = Cleared(prog)
    BY <1>3 DEF EraseFlash
  <2>2. \A a \in Address : Cleared(prog).flash[a] = ERASED
    <3> DEFINE e == ErasedFlash
    <3>1. \A a \in Address : e[a] = ERASED
      BY DEF ErasedFlash
    <3> HIDE DEF e
    <3>2. prog \in ProgState
      BY <1>1 DEF UploadType, ProgramType, ProgType
    <3>3. [prog EXCEPT !.flash = e].flash = e
      BY <3>2 DEF ProgState
    <3> QED BY <3>1, <3>3 DEF Cleared, e
  <2>3. FlashStays
    BY <2>1, <2>2 DEF FlashStays
  <2> QED BY <1>1, <2>1, <2>3 DEF CleanInv
<1>4. ASSUME NEW m, Header(m) PROVE CleanInv' /\ FlashStays
  <2>1. prog' = Begun(prog) /\ begun' = TRUE
    BY <1>4 DEF Header
  <2>2. prog' \in Clean /\ \A a \in Address : prog'.flash[a] = ERASED
    BY <2>1, BegunIsClean
  <2> QED BY <1>1, <2>1, <2>2 DEF CleanInv, FlashStays
<1>5. ASSUME NEW m, Data(m) PROVE CleanInv' /\ FlashStays
  <2>1. Receives(m) /\ received > 0 /\ prog' = Written(prog, Wanted(m)) /\ begun' = TRUE
        /\ mode = "receiving" /\ (prog'.quota => mode' = "idle")
    BY <1>5 DEF Data, Receives, Return
  <2>2. prog \in Clean
    BY <2>1 DEF CleanInv
  <2>3. Wanted(m) \in Seq(AnyByte)
    BY <1>1, <2>1, ReceivesTyped, WantedTyped
  <2>4. Stays(prog.flash, prog') /\ (~ prog'.quota => prog' \in Clean)
    BY <2>1, <2>2, <2>3, WrittenStays
  <2>5. FlashStays
    BY <2>4 DEF Stays, FlashStays
  <2>6. mode' = "receiving" => prog' \in Clean
    BY <2>1, <2>4
  <2> QED BY <1>1, <2>1, <2>5, <2>6 DEF CleanInv
<1>6. ASSUME NEW m, EndOfSession(m) PROVE CleanInv' /\ (~ EndsEmpty => FlashStays)
  <2>1. /\ mode = "receiving" /\ mode' = "idle" /\ result' = "OK" /\ prog' = Ended(prog)
    BY <1>6 DEF EndOfSession, Receives, Return
  <2>2. ASSUME begun PROVE FlashStays
    <3>1. prog \in Clean
      BY <2>1, <2>2 DEF CleanInv
    <3>2. Stays(prog.flash, Ended(prog))
      BY <3>1, EndedStays
    <3> QED BY <2>1, <3>2 DEF Stays, FlashStays
  <2> QED BY <1>1, <2>1, <2>2 DEF CleanInv, EndsEmpty
<1>7. ASSUME NEW m, SenderAborts(m) \/ EndOfFile(m) \/ WrongNumber(m)
      PROVE  CleanInv' /\ FlashStays
  <2>1. /\ prog' = prog
        /\ \/ mode' = "idle"
           \/ mode' = mode /\ begun' = begun /\ received' \in {received, 0}
    BY <1>7 DEF SenderAborts, EndOfFile, WrongNumber, Return, GoesOn
  <2> QED BY <1>1, <2>1, QuietIsClean
<1>8. CASE ReceiverStep
  <2>1. CASE toReceiver # <<>> /\ Receive(Head(toReceiver))
    BY <1>4, <1>5, <1>6, <1>7, <2>1 DEF Receive
  <2>2. CASE BadPacket \/ Timeout \/ Discard
    <3>1. prog' = prog /\ mode' = mode /\ begun' = begun /\ received' = received
      BY <2>2 DEF BadPacket, Timeout, Discard, Fails, receiver
    <3> QED BY <1>1, <3>1, QuietIsClean
  <2> QED BY <1>8, <2>1, <2>2 DEF ReceiverStep
<1>9. CASE SenderStep \/ LosePacket \/ DamagePacket \/ LoseReply \/ SenderStops \/ UNCHANGED vars
  <2>1. prog' = prog /\ mode' = mode /\ begun' = begun /\ received' = received
    BY <1>9 DEF SenderStep, SenderReads, SenderRepeats, LosePacket, DamagePacket, LoseReply,
                SenderStops, vars, receiver
  <2> QED BY <1>1, <2>1, QuietIsClean
<1>10. CASE UserAborts
  <2>1. prog' = prog /\ mode' = "idle"
    BY <1>10 DEF UserAborts, Return
  <2> QED BY <1>1, <2>1, QuietIsClean
<1> QED BY <1>2, <1>3, <1>8, <1>9, <1>10 DEF Next

(* Whatever the line and the user do, also in sessions of several files: a
   byte that was programmed stays as it is until the flash is erased.  Only a
   session that ends before a file began writes its end of string over what
   is stored. *)
THEOREM ProgrammedOnceAlways == Spec => ProgrammedOnce
<1>1. Init => CleanInv
  BY CleanInvStart
<1>2. CleanInv /\ [Next]_vars => CleanInv'
  BY CleanInvStep
<1>3. CleanInv /\ [Next]_vars => [~ EndsEmpty => FlashStays]_vars
  BY CleanInvStep
<1>4. ProgrammedOnce <=> [][~ EndsEmpty => FlashStays]_vars
  BY DEF ProgrammedOnce, EndsEmpty, FlashStays
<1> QED BY <1>1, <1>2, <1>3, <1>4, PTL DEF Spec

-----------------------------------------------------------------------------
(***************************************************************************)
(* Sessions of several files: what is refused is too large.                *)
(***************************************************************************)

(* Every byte is counted, and the quota is not reached before its count. *)
LEMMA PushCounts ==
  ASSUME NEW p \in ProgType, ~ p.quota, NEW byte \in AnyByte
  PROVE  /\ Push(p, byte) \in ProgType /\ Push(p, byte).total = p.total + 1
         /\ Push(p, byte).quota => p.total + 1 >= PROG_MAX
<1> DEFINE c == Counted(p, byte)
           q == Push(p, byte)
           r == [c EXCEPT !.quota = TRUE]
<1>1. p \in ProgState /\ p.total \in Nat
  BY DEF ProgType, ProgState
<1>2. /\ c \in ProgState /\ c.total = p.total + 1 /\ c.quota = p.quota
      /\ q = IF p.total + 1 >= PROG_MAX THEN r
             ELSE IF Len(p.page) + 1 >= PageSize THEN Flush(c) ELSE c
  BY <1>1, CountedIs
<1>3. q \in ProgType
  BY PushTyped
<1> HIDE DEF c, q
<1>4. Flush(c).total = c.total /\ Flush(c).quota = c.quota
  BY <1>1, <1>2, FlushIs
<1>5. r.total = c.total
  BY <1>2 DEF ProgState
<1> HIDE DEF r
<1>6. CASE p.total + 1 >= PROG_MAX
  BY <1>2, <1>3, <1>5, <1>6 DEF q
<1>7. CASE ~ (p.total + 1 >= PROG_MAX)
  <2>1. q = Flush(c) \/ q = c
    BY <1>2, <1>7
  <2>2. q.total = p.total + 1 /\ ~ q.quota
    BY <1>2, <1>4, <2>1
  <2> QED BY <1>3, <2>2 DEF q
<1> QED BY <1>6, <1>7

LEMMA WrittenCounts ==
  ASSUME NEW p \in ProgType, ~ p.quota, NEW bytes \in Seq(AnyByte)
  PROVE  /\ Written(p, bytes).total \in Nat
         /\ Written(p, bytes).total <= p.total + Len(bytes)
         /\ Written(p, bytes).quota => Written(p, bytes).total >= PROG_MAX
<1> DEFINE y == Len(bytes)
<1>1. PICK f : /\ f[0] = p
               /\ \A i \in 1 .. y : f[i] = WriteOne(f[i - 1], bytes[i])
               /\ Written(p, bytes) = f[y]
  BY WrittenIs
<1>2. y \in Nat /\ \A i \in 1 .. y : bytes[i] \in AnyByte
  OBVIOUS
<1>3. p.total \in Nat /\ PROG_MAX \in Nat
  BY ProgMax DEF ProgType, ProgState
<1> HIDE DEF y
<1> DEFINE S == {j \in 0 .. y : /\ f[j] \in ProgType /\ f[j].total <= p.total + j
                                /\ f[j].quota => f[j].total >= PROG_MAX}
<1>4. 0 \in S
  BY <1>1, <1>2, <1>3
<1>5. ASSUME NEW j \in 0 .. y - 1, j \in S PROVE j + 1 \in S
  <2> DEFINE q == f[j]
             r == f[j + 1]
  <2>1. j + 1 \in 1 .. y /\ j + 1 \in 0 .. y /\ (j + 1) - 1 = j /\ j \in Nat
    BY <1>2
  <2>2. r = WriteOne(q, bytes[j + 1])
    BY <1>1, <2>1
  <2>3. /\ q \in ProgType /\ q.total <= p.total + j /\ q.total \in Nat
        /\ q.quota => q.total >= PROG_MAX
    BY <1>5 DEF ProgType, ProgState
  <2> HIDE DEF q, r
  <2>4. CASE q.quota
    <3>1. r = q
      BY <2>2, <2>4 DEF WriteOne
    <3>2. q.total <= p.total + (j + 1)
      BY <1>3, <2>1, <2>3
    <3> QED BY <2>1, <2>3, <3>1, <3>2 DEF r
  <2>5. CASE ~ q.quota
    <3>1. r = Push(q, bytes[j + 1])
      BY <2>2, <2>5 DEF WriteOne
    <3>2. r \in ProgType /\ r.total = q.total + 1 /\ (r.quota => q.total + 1 >= PROG_MAX)
      BY <1>2, <2>1, <2>3, <2>5, <3>1, PushCounts
    <3>3. q.total + 1 <= p.total + (j + 1)
      BY <1>3, <2>1, <2>3
    <3> QED BY <2>1, <3>2, <3>3 DEF r
  <2> QED BY <2>4, <2>5
<1>6. y \in S
  <2> HIDE DEF S
  <2> QED BY <1>2, <1>4, <1>5, UpTo
<1>7. f[y] \in ProgType /\ f[y].total <= p.total + y /\ (f[y].quota => f[y].total >= PROG_MAX)
  BY <1>6
<1>8. f[y].total \in Nat
  BY <1>7 DEF ProgType, ProgState
<1> QED BY <1>1, <1>7, <1>8 DEF y

(* What has been counted and what remains is no more than the file. *)
RefusalInv ==
  /\ UploadType
  /\ mode = "receiving" =>
       /\ result = "none"
       /\ received > 0 => file \in 1 .. Len(batch) /\ prog.total + remained <= Size(file)
  /\ RefusesOnlyTooLarge

LEMMA RefusalStart == Init => RefusalInv
<1> SUFFICES ASSUME Init PROVE RefusalInv
  OBVIOUS
<1>1. UploadType
  BY UploadTypeStart
<1> QED BY <1>1 DEF Init, RefusalInv, RefusesOnlyTooLarge

(* The steps that neither store nor begin anything. *)
LEMMA RefusalStays ==
  ASSUME RefusalInv, UploadType', mode = "receiving" \/ result' = result,
         batch' = batch, file' = file,
         \/ mode' = "idle" /\ result' \in {result, "OK", "ABORT"}
         \/ /\ mode' = mode /\ result' = result /\ prog' = prog /\ remained' = remained
            /\ received' \in {received, 0}
  PROVE  RefusalInv'
<1>1. Size(file)' = Size(file) /\ received \in Nat
  BY DEF Size, RefusalInv, UploadType, SessionType
<1>2. RefusesOnlyTooLarge'
  BY <1>1 DEF RefusalInv, RefusesOnlyTooLarge
<1>3. CASE mode' = "idle"
  BY <1>2, <1>3 DEF RefusalInv
<1>4. CASE /\ mode' = mode /\ result' = result /\ prog' = prog /\ remained' = remained
           /\ received' \in {received, 0}
  <2>1. received' > 0 => received > 0
    BY <1>1, <1>4
  <2> QED BY <1>1, <1>2, <1>4, <2>1 DEF RefusalInv
<1> QED BY <1>3, <1>4

LEMMA RefusalStep == ASSUME RefusalInv, [Next]_vars PROVE RefusalInv'
<1>1. UploadType /\ UploadType'
  BY UploadTypeStep DEF RefusalInv
<1>2. CASE \E b \in Batches : Start(b)
  <2>1. mode' = "receiving" /\ result' = "none" /\ received' = 0
    BY <1>2 DEF Start
  <2>2. ~ (received' > 0) /\ RefusesOnlyTooLarge'
    BY <2>1 DEF RefusesOnlyTooLarge
  <2> QED BY <1>1, <2>1, <2>2 DEF RefusalInv
<1>3. CASE EraseFlash
  <2>1. mode' = "idle" /\ result' = "none"
    BY <1>3 DEF EraseFlash
  <2> QED BY <1>1, <2>1 DEF RefusalInv, RefusesOnlyTooLarge
<1>4. ASSUME NEW m, Header(m) PROVE RefusalInv'
  <2>1. /\ Receives(m) /\ m.what \in {"header", "data"} /\ prog' = Begun(prog)
        /\ remained' \in {Size(m.file), 0} /\ file' = m.file /\ result' = result
    BY <1>4 DEF Header, IsBlock, GoesOn
  <2>2. m \in Sendable(batch) /\ batch' = batch /\ mode = "receiving"
    BY <1>1, <2>1, ReceivesTyped
  <2>3. m.file \in 1 .. Len(batch) /\ batch \in Seq(Nat)
    BY <1>1, <2>1, <2>2 DEF Sendable, UploadType, HostType
  <2>4. Size(m.file) \in Nat /\ Size(file)' = Size(m.file)
    BY <2>1, <2>2, <2>3, ElementIs DEF Size
  <2>5. prog'.total = 0
    BY <2>1 DEF Begun, FreshProg
  <2>6. prog'.total + remained' <= Size(file)'
    BY <2>1, <2>4, <2>5
  <2>7. result' = "none"
    BY <2>1, <2>2 DEF RefusalInv
  <2> QED BY <1>1, <2>1, <2>2, <2>3, <2>6, <2>7 DEF RefusalInv, RefusesOnlyTooLarge
<1>5. ASSUME NEW m, Data(m) PROVE RefusalInv'
  <2> DEFINE w == Wanted(m)
             n == Len(w)
             s == Size(file)
             t == prog.total
             u == Written(prog, w).total
  <2>1. /\ Receives(m) /\ received > 0 /\ mode = "receiving" /\ prog' = Written(prog, w)
        /\ remained' = remained - n /\ file' = file
        /\ IF prog'.quota THEN mode' = "idle" /\ result' = "DATA"
                          ELSE mode' = mode /\ result' = result
    BY <1>5 DEF Data, Receives, Return, GoesOn
  <2>2. batch' = batch /\ w \in Seq(AnyByte) /\ n \in Nat /\ n <= remained
    BY <1>1, <2>1, ReceivesTyped, WantedTyped
  <2>3. /\ prog \in ProgType /\ ~ prog.quota /\ file \in 1 .. Len(batch) /\ t + remained <= s
        /\ remained \in Nat /\ result = "none" /\ batch \in Seq(Nat)
    BY <1>1, <2>1 DEF RefusalInv, UploadType, ProgramType, SessionType, HostType
  <2>4. u \in Nat /\ u <= t + n /\ (prog'.quota => u >= PROG_MAX)
    BY <2>1, <2>2, <2>3, WrittenCounts
  <2>5. t \in Nat /\ s \in Nat /\ PROG_MAX \in Nat
    BY <2>3, ElementIs, ProgMax DEF Size, ProgType, ProgState
  <2>6. Size(file)' = s /\ prog'.total = u
    BY <2>1, <2>2 DEF Size
  <2> HIDE DEF w, n, s, t, u
  <2>7. u + (remained - n) <= s
    BY <2>2, <2>3, <2>4, <2>5
  <2>8. prog'.quota => s >= PROG_MAX
    <3>1. SUFFICES ASSUME prog'.quota PROVE s >= PROG_MAX
      OBVIOUS
    <3>2. u >= PROG_MAX
      BY <2>4, <3>1
    <3> QED BY <2>2, <2>3, <2>4, <2>5, <3>2
  <2>9. RefusesOnlyTooLarge'
    BY <2>1, <2>3, <2>6, <2>8 DEF RefusesOnlyTooLarge
  <2>10. prog'.total + remained' <= Size(file)' /\ file' \in 1 .. Len(batch)'
    BY <2>1, <2>2, <2>3, <2>6, <2>7
  <2> QED BY <1>1, <2>1, <2>3, <2>9, <2>10 DEF RefusalInv
<1>6. ASSUME NEW m, SenderAborts(m) \/ EndOfFile(m) \/ WrongNumber(m) \/ EndOfSession(m)
      PROVE  RefusalInv'
  <2>1. Receives(m)
    BY <1>6 DEF SenderAborts, EndOfFile, WrongNumber, EndOfSession
  <2>2. /\ file' = file /\ mode = "receiving" /\ batch' = batch
        /\ \/ mode' = "idle" /\ result' \in {result, "OK", "ABORT"}
           \/ /\ mode' = mode /\ result' = result /\ prog' = prog /\ remained' = remained
              /\ received' \in {received, 0}
    BY <1>6, <2>1 DEF SenderAborts, EndOfFile, WrongNumber, EndOfSession, Receives, Return,
                      GoesOn, host
  <2> QED BY <1>1, <2>2, RefusalStays
<1>7. CASE ReceiverStep
  <2>1. CASE toReceiver # <<>> /\ Receive(Head(toReceiver))
    BY <1>4, <1>5, <1>6, <2>1 DEF Receive
  <2>2. CASE BadPacket \/ Timeout \/ Discard
    <3>1. UNCHANGED <<mode, result, received, remained, prog, file, batch>>
      BY <2>2 DEF BadPacket, Timeout, Discard, Fails, receiver, host
    <3> QED BY <1>1, <3>1, RefusalStays
  <2> QED BY <1>7, <2>1, <2>2 DEF ReceiverStep
<1>8. CASE SenderStep \/ LosePacket \/ DamagePacket \/ LoseReply \/ SenderStops \/ UNCHANGED vars
  <2>1. UNCHANGED <<mode, result, received, remained, prog, file, batch>>
    BY <1>8 DEF SenderStep, SenderReads, SenderRepeats, LosePacket, DamagePacket, LoseReply,
                SenderStops, vars, receiver, host
  <2> QED BY <1>1, <2>1, RefusalStays
<1>9. CASE UserAborts
  <2>1. mode = "receiving" /\ mode' = "idle" /\ result' = "ABORT" /\ file' = file /\ batch' = batch
    BY <1>9 DEF UserAborts, Mishap, Return, host
  <2> QED BY <1>1, <2>1, RefusalStays
<1> QED BY <1>2, <1>3, <1>7, <1>8, <1>9 DEF Next

(* A file is refused only when it leaves no room for the end of string, in
   sessions of several files too and whatever is lost. *)
THEOREM RefusesOnlyTooLargeAlways == Spec => []RefusesOnlyTooLarge
<1>1. Init => RefusalInv
  BY RefusalStart
<1>2. RefusalInv /\ [Next]_vars => RefusalInv'
  BY RefusalStep
<1>3. RefusalInv => RefusesOnlyTooLarge
  BY DEF RefusalInv
<1> QED BY <1>1, <1>2, <1>3, PTL DEF Spec
=============================================================================
