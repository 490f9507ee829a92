--------------------------- MODULE EventLoopProofs ---------------------------
(***************************************************************************)
(* The safety of the io loop's handles, for any number of handles, any     *)
(* delays and both ways of running the loop.                               *)
(***************************************************************************)
EXTENDS EventLoop, TLAPS

(* An active or closing handle is allocated; no handle is both. *)
FlagsAgree ==
  \A h \in Handle : /\ closing[h] => live[h]
                    /\ active[h] => live[h] /\ ~closing[h]

(* What runs JavaScript runs in its own phase of the loop. *)
ScriptPhase ==
  /\ js = "load" => phase \in {"boot", "tty"}
  /\ js = "eval" => phase = "tty"
  /\ js = "job" => phase = "idle"
  /\ js = "poll" => phase = "custom"
  /\ js = "callback" => phase \in {"timer", "watch", "uart"}

(* A traversal stands on a handle of its own list or, after a callback, of
   the closing list; the timeout whose callback runs has not been closed. *)
TraversalSafe ==
  /\ cursor # NULL => /\ phase \in {"timer", "watch", "uart"}
                      /\ Where[cursor] \in {phase, "closing"}
  /\ js = "callback" => cursor # NULL /\ kind[cursor] # "tone"
  /\ OwnTimeout(cursor) => ~closing[cursor]

(* The inductive invariant. *)
LoopInv ==
  /\ TypeOK /\ ListsAgree /\ NoneLost /\ CallbackHeldOnce
  /\ FlagsAgree /\ ScriptPhase /\ TraversalSafe /\ StopsOnlyWhenEmpty

-----------------------------------------------------------------------------
(***************************************************************************)
(* Facts about the lists of KmList, for any heap.                          *)
(***************************************************************************)
(* km_list_append and km_list_remove keep every pointer a node or null. *)
LEMMA HeapTyped ==
  ASSUME NEW hp \in L!Heap, NEW l \in List, NEW n \in Handle, NEW lists \in SUBSET List
  PROVE  /\ L!Append(hp, l, n) \in L!Heap
         /\ L!Remove(hp, l, n) \in L!Heap
         /\ L!Clear(hp, lists) \in L!Heap
  BY DEF L!Append, L!Remove, L!Clear, L!Heap, L!Pointer

(* A walk of a list meets only the nodes that are on it. *)
LEMMA WalkStays ==
  ASSUME NEW hp \in L!Heap, NEW l \in List, NEW where, L!WellLinked(hp, where),
         l # "none", NULL \notin Handle
  PROVE  \A n \in L!Walk(hp, l) : n \in Handle /\ where[n] = l
<1> DEFINE S == {n \in Handle : where[n] = l}
<1>1. hp.head[l] \in S \cup {NULL}
  BY DEF L!WellLinked, L!HeadsAgree, L!Heap, L!Pointer
<1>2. \A m \in S : hp.next[m] \in S \cup {NULL}
  BY DEF L!WellLinked, L!NodesAgree, L!Heap, L!Pointer
<1>3. S \in SUBSET Handle
  OBVIOUS
<1>4. \A n \in L!Walk(hp, l) : n \in S
  <2> HIDE DEF S
  <2> QED BY <1>1, <1>2, <1>3 DEF L!Walk
<1> QED BY <1>4

(* Appending a node that is on no list puts it on the list. *)
LEMMA AppendLinks ==
  ASSUME NEW hp \in L!Heap, NEW where \in [Handle -> List \cup {"none"}],
         NEW l \in List, NEW n \in Handle, NULL \notin Handle, "none" \notin List,
         L!WellLinked(hp, where), where[n] = "none"
  PROVE  L!WellLinked(L!Append(hp, l, n), [where EXCEPT ![n] = l])
<1> DEFINE g == L!Append(hp, l, n)
           w == [where EXCEPT ![n] = l]
           last == hp.tail[l]
<1>0. g \in L!Heap /\ g.head \in [List -> L!Pointer] /\ g.tail \in [List -> L!Pointer]
      /\ g.next \in [Handle -> L!Pointer] /\ g.prev \in [Handle -> L!Pointer]
  BY HeapTyped DEF L!Heap
<1>1. CASE last = NULL
  <2>1. hp.head[l] = NULL
    BY <1>1 DEF L!WellLinked, L!HeadsAgree
  <2>2. /\ g.next = [hp.next EXCEPT ![n] = NULL]
        /\ g.prev = [hp.prev EXCEPT ![n] = NULL]
        /\ g.head = [hp.head EXCEPT ![l] = n]
        /\ g.tail = [hp.tail EXCEPT ![l] = n]
    BY <1>1, <2>1 DEF L!Append
  <2>3. L!HeadsAgree(g, w)
    BY <2>2 DEF L!WellLinked, L!HeadsAgree, L!Heap, L!Pointer
  <2>4. L!NodesAgree(g, w)
    BY <1>1, <2>1, <2>2 DEF L!WellLinked, L!NodesAgree, L!HeadsAgree, L!Heap, L!Pointer
  <2> QED BY <2>3, <2>4 DEF L!WellLinked
<1>2. CASE last # NULL
  <2>1. last \in Handle /\ where[last] = l /\ hp.next[last] = NULL /\ last # n
    BY <1>2 DEF L!WellLinked, L!HeadsAgree, L!Heap, L!Pointer
  <2>2. /\ g.next = [hp.next EXCEPT ![last] = n, ![n] = NULL]
        /\ g.prev = [hp.prev EXCEPT ![n] = last]
        /\ g.head = hp.head
        /\ g.tail = [hp.tail EXCEPT ![l] = n]
    BY <1>2 DEF L!Append
  <2>3. L!HeadsAgree(g, w)
    BY <1>2, <2>1, <2>2 DEF L!WellLinked, L!HeadsAgree, L!Heap, L!Pointer
  <2>4. L!NodesAgree(g, w)
    BY <1>2, <2>1, <2>2 DEF L!WellLinked, L!NodesAgree, L!HeadsAgree, L!Heap, L!Pointer
  <2> QED BY <2>3, <2>4 DEF L!WellLinked
<1> QED BY <1>1, <1>2

(* Removing a node from its list leaves the rest of the list linked. *)
LEMMA RemoveLinks ==
  ASSUME NEW hp \in L!Heap, NEW where \in [Handle -> List \cup {"none"}],
         NEW l \in List, NEW n \in Handle, NULL \notin Handle, "none" \notin List,
         L!WellLinked(hp, where), where[n] = l
  PROVE  L!WellLinked(L!Remove(hp, l, n), [where EXCEPT ![n] = "none"])
<1> DEFINE g == L!Remove(hp, l, n)
           w == [where EXCEPT ![n] = "none"]
           before == hp.prev[n]
           after == hp.next[n]
<1>1. /\ before \in L!Pointer /\ after \in L!Pointer
      /\ before = NULL => hp.head[l] = n
      /\ after = NULL => hp.tail[l] = n
      /\ before # NULL => hp.next[before] = n /\ where[before] = l
      /\ after # NULL => hp.prev[after] = n /\ where[after] = l
  BY DEF L!WellLinked, L!NodesAgree, L!Heap, L!Pointer
<1>2. /\ g.head = [hp.head EXCEPT ![l] = IF @ = n THEN after ELSE @]
      /\ g.tail = [hp.tail EXCEPT ![l] = IF @ = n THEN before ELSE @]
  BY DEF L!Remove
<1>3. ASSUME NEW m \in Handle, m # n
      PROVE  /\ g.next[m] = IF m = before THEN after ELSE hp.next[m]
             /\ g.prev[m] = IF m = after THEN before ELSE hp.prev[m]
  <2>1. g.next = IF before # NULL THEN [hp.next EXCEPT ![before] = after]
                                  ELSE hp.next
    BY DEF L!Remove
  <2>2. g.prev = IF g.next[n] # NULL THEN [hp.prev EXCEPT ![g.next[n]] = before]
                                     ELSE hp.prev
    BY DEF L!Remove
  <2>3. g.next[n] = after
    BY <2>1, <1>1 DEF L!Heap, L!Pointer
  <2> QED BY <1>3, <1>1, <2>1, <2>2, <2>3 DEF L!Heap, L!Pointer
<1> HIDE DEF g
<1>4. L!HeadsAgree(g, w)
  <2> SUFFICES ASSUME NEW k \in List
               PROVE  /\ g.head[k] = NULL <=> g.tail[k] = NULL
                      /\ g.head[k] # NULL => /\ w[g.head[k]] = k
                                             /\ g.prev[g.head[k]] = NULL
                      /\ g.tail[k] # NULL => /\ w[g.tail[k]] = k
                                             /\ g.next[g.tail[k]] = NULL
    BY DEF L!HeadsAgree
  <2>1. CASE k # l
    BY <2>1, <1>1, <1>2, <1>3 DEF L!WellLinked, L!HeadsAgree, L!Heap, L!Pointer
  <2>2. CASE k = l
    BY <2>2, <1>1, <1>2, <1>3 DEF L!WellLinked, L!HeadsAgree, L!Heap, L!Pointer
  <2> QED BY <2>1, <2>2
<1>5. L!NodesAgree(g, w)
  <2> SUFFICES ASSUME NEW m \in Handle, w[m] # "none"
               PROVE  /\ IF g.next[m] = NULL
                         THEN g.tail[w[m]] = m
                         ELSE w[g.next[m]] = w[m] /\ g.prev[g.next[m]] = m
                      /\ IF g.prev[m] = NULL
                         THEN g.head[w[m]] = m
                         ELSE w[g.prev[m]] = w[m] /\ g.next[g.prev[m]] = m
    BY DEF L!NodesAgree
  <2>1. m # n /\ w[m] = where[m] /\ where[m] # "none"
    OBVIOUS
  <2>2. IF g.next[m] = NULL
        THEN g.tail[w[m]] = m
        ELSE w[g.next[m]] = w[m] /\ g.prev[g.next[m]] = m
    BY <2>1, <1>1, <1>2, <1>3 DEF L!WellLinked, L!NodesAgree, L!HeadsAgree, L!Heap, L!Pointer
  <2>3. IF g.prev[m] = NULL
        THEN g.head[w[m]] = m
        ELSE w[g.prev[m]] = w[m] /\ g.next[g.prev[m]] = m
    BY <2>1, <1>1, <1>2, <1>3 DEF L!WellLinked, L!NodesAgree, L!HeadsAgree, L!Heap, L!Pointer
  <2> QED BY <2>2, <2>3
<1> QED BY <1>4, <1>5 DEF L!WellLinked, g

(* The nodes of a set S that is closed in the sense of Walk: used to show
   that what was reached before an operation is in S. *)
LEMMA WalkIn ==
  ASSUME NEW hp, NEW l, NEW S \in SUBSET Handle,
         hp.head[l] \in S \cup {NULL},
         \A m \in S : hp.next[m] \in S \cup {NULL}
  PROVE  L!Walk(hp, l) \subseteq S
BY DEF L!Walk

(* A null head is an empty list, wherever the tail points. *)
LEMMA EmptyWalk ==
  ASSUME NEW hp, NEW l, hp.head[l] = NULL
  PROVE  L!Walk(hp, l) = {}
<1> DEFINE S == {n \in Handle : FALSE}
<1>1. hp.head[l] \in S \cup {NULL} /\ S \in SUBSET Handle
  OBVIOUS
<1>2. \A m \in S : hp.next[m] \in S \cup {NULL}
  OBVIOUS
<1>3. S = {}
  OBVIOUS
<1> HIDE DEF S
<1>4. L!Walk(hp, l) \subseteq S
  BY <1>1, <1>2, WalkIn
<1> QED BY <1>3, <1>4

(* Appending a node loses none and reaches it. *)
LEMMA AppendReaches ==
  ASSUME NEW hp \in L!Heap, NEW where \in [Handle -> List \cup {"none"}],
         NEW l \in List, NEW n \in Handle, NULL \notin Handle, "none" \notin List,
         L!WellLinked(hp, where), L!AllReached(hp, where), where[n] = "none"
  PROVE  L!AllReached(L!Append(hp, l, n), [where EXCEPT ![n] = l])
<1> DEFINE g == L!Append(hp, l, n)
           w == [where EXCEPT ![n] = l]
           last == hp.tail[l]
<1>0. last = NULL <=> hp.head[l] = NULL
  BY DEF L!WellLinked, L!HeadsAgree
<1>1. ASSUME last # NULL
      PROVE  last \in Handle /\ where[last] = l /\ hp.next[last] = NULL /\ last # n
  BY <1>1 DEF L!WellLinked, L!HeadsAgree, L!Heap, L!Pointer
<1>2. /\ \A m \in Handle : m # n /\ m # last => g.next[m] = hp.next[m]
      /\ last # NULL => g.next[last] = n
      /\ g.head = IF last = NULL THEN [hp.head EXCEPT ![l] = n] ELSE hp.head
  BY <1>0, <1>1 DEF L!Append, L!Heap, L!Pointer
<1> HIDE DEF g
<1>3. SUFFICES ASSUME NEW m \in Handle, w[m] # "none", NEW S \in SUBSET Handle,
                      g.head[w[m]] \in S \cup {NULL},
                      \A p \in S : g.next[p] \in S \cup {NULL}
               PROVE  m \in S
  BY DEF L!AllReached, L!Walk, g
<1> DEFINE k == w[m]
           T == {p \in S : where[p] = k}
<1>4. k \in List
  BY <1>3
<1>5. ASSUME k # l \/ last # NULL
      PROVE  L!Walk(hp, k) \subseteq T
  <2>1. hp.head[k] \in T \cup {NULL}
    BY <1>2, <1>3, <1>4, <1>5 DEF L!WellLinked, L!HeadsAgree, L!Heap, L!Pointer
  <2>2. \A p \in T : hp.next[p] \in T \cup {NULL}
    BY <1>1, <1>2, <1>3, <1>4 DEF L!WellLinked, L!NodesAgree, L!Heap, L!Pointer
  <2>3. T \in SUBSET Handle
    OBVIOUS
  <2> HIDE DEF T, k
  <2> QED BY <2>1, <2>2, <2>3, WalkIn
<1>6. CASE m # n
  <2>1. where[m] = k /\ where[m] # "none"
    BY <1>3, <1>6
  <2>2. m \in L!Walk(hp, k)
    BY <2>1 DEF L!AllReached
  <2>3. k # l \/ last # NULL
    <3>1. last = NULL => L!Walk(hp, l) = {}
      BY <1>0, EmptyWalk
    <3> QED BY <2>2, <3>1
  <2> QED BY <2>2, <2>3, <1>5
<1>7. CASE m = n
  <2>1. k = l
    BY <1>7
  <2>2. CASE last = NULL
    BY <2>1, <2>2, <1>2, <1>3, <1>7 DEF L!Heap
  <2>3. CASE last # NULL
    <3>1. last \in L!Walk(hp, l)
      BY <1>1, <2>3 DEF L!AllReached
    <3>2. last \in S
      BY <3>1, <2>1, <2>3, <1>5
    <3> QED BY <3>2, <2>3, <1>2, <1>3, <1>7
  <2> QED BY <2>2, <2>3
<1> QED BY <1>6, <1>7

(* Removing a node loses no other one. *)
LEMMA RemoveReaches ==
  ASSUME NEW hp \in L!Heap, NEW where \in [Handle -> List \cup {"none"}],
         NEW l \in List, NEW n \in Handle, NULL \notin Handle, "none" \notin List,
         L!WellLinked(hp, where), L!AllReached(hp, where), where[n] = l
  PROVE  L!AllReached(L!Remove(hp, l, n), [where EXCEPT ![n] = "none"])
<1> DEFINE g == L!Remove(hp, l, n)
           w == [where EXCEPT ![n] = "none"]
           before == hp.prev[n]
           after == hp.next[n]
<1>1. /\ before \in L!Pointer /\ after \in L!Pointer
      /\ before = NULL => hp.head[l] = n
      /\ before # NULL => /\ hp.next[before] = n /\ where[before] = l
                          /\ hp.head[l] # n
      /\ after # NULL => where[after] = l
      /\ \A p \in Handle : hp.next[p] = n /\ where[p] = l => p = before
  BY DEF L!WellLinked, L!HeadsAgree, L!NodesAgree, L!Heap, L!Pointer
<1>2. /\ \A p \in Handle : p # before => g.next[p] = hp.next[p]
      /\ before # NULL => g.next[before] = after
      /\ \A k \in List : g.head[k] = IF hp.head[k] = n /\ k = l
                                     THEN after ELSE hp.head[k]
  BY <1>1 DEF L!Remove, L!Heap, L!Pointer
<1> HIDE DEF g
<1>3. SUFFICES ASSUME NEW m \in Handle, w[m] # "none", NEW S \in SUBSET Handle,
                      g.head[w[m]] \in S \cup {NULL},
                      \A p \in S : g.next[p] \in S \cup {NULL}
               PROVE  m \in S
  BY DEF L!AllReached, L!Walk, g
<1> DEFINE k == where[m]
<1>4. m # n /\ w[m] = k /\ k \in List /\ m \in L!Walk(hp, k) /\ n \in L!Walk(hp, l)
  BY <1>3 DEF L!AllReached
<1>5. CASE k # l
  <2> DEFINE T == {p \in S : where[p] = k}
  <2>1. hp.head[k] \in T \cup {NULL}
    BY <1>2, <1>3, <1>4, <1>5 DEF L!WellLinked, L!HeadsAgree, L!Heap, L!Pointer
  <2>2. ASSUME NEW p \in T PROVE hp.next[p] \in T \cup {NULL}
    <3>1. p \in Handle /\ p \in S /\ where[p] = k /\ where[p] # "none"
      BY <1>4
    <3>2. p # before
      BY <1>1, <1>5, <3>1 DEF L!Pointer
    <3>3. hp.next[p] \in S \cup {NULL}
      BY <1>2, <1>3, <3>1, <3>2
    <3>4. hp.next[p] # NULL => where[hp.next[p]] = k
      BY <3>1 DEF L!WellLinked, L!NodesAgree
    <3> QED
      BY <3>3, <3>4
  <2>3. T \in SUBSET Handle /\ T \subseteq S
    OBVIOUS
  <2> HIDE DEF T, k
  <2>4. L!Walk(hp, k) \subseteq T
    BY <2>1, <2>2, <2>3, WalkIn
  <2> QED BY <1>4, <2>3, <2>4
<1>6. CASE k = l /\ (before = NULL \/ before \in S)
  <2> DEFINE T == {p \in S : where[p] = l} \cup {n}
  <2>0. after \in S \cup {NULL}
    BY <1>1, <1>2, <1>3, <1>4, <1>6
  <2>1. hp.head[l] \in T \cup {NULL}
    BY <1>2, <1>3, <1>4, <1>6 DEF L!WellLinked, L!HeadsAgree, L!Heap, L!Pointer
  <2>2. \A p \in T : hp.next[p] \in T \cup {NULL}
    <3> SUFFICES ASSUME NEW p \in T PROVE hp.next[p] \in T \cup {NULL}
      OBVIOUS
    <3>1. CASE p = n
      BY <3>1, <2>0, <1>1
    <3>2. CASE p = before
      BY <3>2, <1>1
    <3>3. CASE p # n /\ p # before
      BY <3>3, <1>2, <1>3 DEF L!WellLinked, L!NodesAgree, L!Heap, L!Pointer
    <3> QED BY <3>1, <3>2, <3>3
  <2>3. T \in SUBSET Handle /\ T \subseteq S \cup {n}
    OBVIOUS
  <2> HIDE DEF T
  <2>4. L!Walk(hp, l) \subseteq T
    BY <2>1, <2>2, <2>3, WalkIn
  <2> QED BY <1>4, <1>6, <2>3, <2>4
<1>7. CASE k = l /\ before # NULL /\ before \notin S
  <2> DEFINE T == {p \in S : where[p] = l} \ {n}
  <2>1. hp.head[l] \in T \cup {NULL}
    BY <1>1, <1>2, <1>3, <1>4, <1>7 DEF L!WellLinked, L!HeadsAgree, L!Heap, L!Pointer
  <2>2. \A p \in T : hp.next[p] \in T \cup {NULL}
    BY <1>1, <1>2, <1>3, <1>4, <1>7 DEF L!WellLinked, L!NodesAgree, L!Heap, L!Pointer
  <2>3. T \in SUBSET Handle /\ n \notin T
    OBVIOUS
  <2> HIDE DEF T
  <2>4. L!Walk(hp, l) \subseteq T
    BY <2>1, <2>2, <2>3, WalkIn
  <2> QED BY <1>4, <2>3, <2>4
<1> QED BY <1>1, <1>4, <1>5, <1>6, <1>7

-----------------------------------------------------------------------------
(* The names of the lists are not "none"; the list of a kind is a list. *)
LEMMA Names ==
  /\ "none" \notin List
  /\ \A k \in AllKinds : ListOf(k) \in List \ {"closing"}
BY DEF List, AllKinds, ListOf

LEMMA WhereTyped ==
  ASSUME TypeOK
  PROVE  /\ Where \in [Handle -> List \cup {"none"}]
         /\ \A h \in Handle : Where[h] # "none" <=> live[h]
         /\ \A h \in Handle : Where[h] = "closing" <=> live[h] /\ closing[h]
BY Names DEF Where, TypeOK, List

(* NoneLost is the reachability of module KmList. *)
LEMMA NoneLostIsReached ==
  ASSUME TypeOK
  PROVE  NoneLost <=> L!AllReached(heap, Where)
BY WhereTyped DEF NoneLost, L!AllReached

(* Stop and close move a handle that is not closing to the closing list. *)
LEMMA StopAndCloseMoves ==
  ASSUME TypeOK, TypeOK', ListsAgree, NoneLost, NEW h \in Handle,
         live[h], ~closing[h], StopAndClose(h), UNCHANGED <<live, kind>>
  PROVE  ListsAgree' /\ NoneLost'
<1> DEFINE l == ListOf(kind[h])
           mid == L!Remove(heap, l, h)
           w == [Where EXCEPT ![h] = "none"]
<1>1. l \in List /\ Where[h] = l /\ kind[h] \in AllKinds
  BY Names DEF Where, TypeOK
<1>2. /\ heap \in L!Heap /\ Where \in [Handle -> List \cup {"none"}]
      /\ NULL \notin Handle /\ "none" \notin List /\ "closing" \in List
      /\ L!WellLinked(heap, Where) /\ L!AllReached(heap, Where)
  BY LoopAssumption, WhereTyped, Names, NoneLostIsReached DEF TypeOK, ListsAgree, List
<1>3. mid \in L!Heap /\ L!WellLinked(mid, w) /\ L!AllReached(mid, w)
  BY <1>1, <1>2, HeapTyped, RemoveLinks, RemoveReaches
<1>4. w \in [Handle -> List \cup {"none"}] /\ w[h] = "none"
  BY <1>2
<1>5. heap' = L!Append(mid, "closing", h)
  BY DEF StopAndClose
<1>6. Where' = [w EXCEPT ![h] = "closing"]
  BY DEF StopAndClose, Where, TypeOK
<1> HIDE DEF mid, w
<1>7. L!WellLinked(heap', Where') /\ L!AllReached(heap', Where')
  BY <1>2, <1>3, <1>4, <1>5, <1>6, AppendLinks, AppendReaches
<1>8. NoneLost' <=> L!AllReached(heap', Where')
  BY Names DEF NoneLost, L!AllReached, Where, TypeOK
<1> QED BY <1>7, <1>8 DEF ListsAgree

(* A started handle is on the list of its kind. *)
LEMMA StartMoves ==
  ASSUME TypeOK, TypeOK', ListsAgree, NoneLost, NEW h \in Handle,
         NEW k \in AllKinds, NEW rep, NEW d, StartHandle(h, k, rep, d)
  PROVE  ListsAgree' /\ NoneLost'
<1>1. /\ heap \in L!Heap /\ Where \in [Handle -> List \cup {"none"}]
      /\ NULL \notin Handle /\ "none" \notin List /\ ListOf(k) \in List
      /\ L!WellLinked(heap, Where) /\ L!AllReached(heap, Where)
  BY LoopAssumption, WhereTyped, Names, NoneLostIsReached DEF TypeOK, ListsAgree
<1>2. Where[h] = "none"
  BY DEF StartHandle, Where
<1>3. heap' = L!Append(heap, ListOf(k), h)
  BY DEF StartHandle
<1>4. Where' = [Where EXCEPT ![h] = ListOf(k)]
  BY DEF StartHandle, Where, TypeOK
<1>5. L!WellLinked(heap', Where') /\ L!AllReached(heap', Where')
  BY <1>1, <1>2, <1>3, <1>4, AppendLinks, AppendReaches
<1>6. NoneLost' <=> L!AllReached(heap', Where')
  BY Names DEF NoneLost, L!AllReached, Where, TypeOK
<1> QED BY <1>5, <1>6 DEF ListsAgree

(* The handle km_io_handle_closing frees was the head of the closing list. *)
LEMMA FreeMoves ==
  ASSUME TypeOK, TypeOK', ListsAgree, NoneLost, FreeClosing
  PROVE  /\ heap.head["closing"] \in Handle
         /\ live[heap.head["closing"]] /\ closing[heap.head["closing"]]
         /\ ListsAgree' /\ NoneLost'
<1> DEFINE h == heap.head["closing"]
<1>1. /\ heap \in L!Heap /\ Where \in [Handle -> List \cup {"none"}]
      /\ NULL \notin Handle /\ "none" \notin List /\ "closing" \in List
      /\ L!WellLinked(heap, Where) /\ L!AllReached(heap, Where)
  BY LoopAssumption, WhereTyped, Names, NoneLostIsReached DEF TypeOK, ListsAgree, List
<1>2. h \in Handle /\ Where[h] = "closing"
  BY <1>1 DEF FreeClosing, L!WellLinked, L!HeadsAgree, L!Heap, L!Pointer
<1>3. live[h] /\ closing[h]
  BY <1>2, WhereTyped
<1>4. heap' = L!Remove(heap, "closing", h)
  BY DEF FreeClosing
<1>5. Where' = [Where EXCEPT ![h] = "none"]
  BY <1>2 DEF FreeClosing, Where, TypeOK
<1>6. L!WellLinked(heap', Where') /\ L!AllReached(heap', Where')
  BY <1>1, <1>2, <1>4, <1>5, RemoveLinks, RemoveReaches
<1>7. NoneLost' <=> L!AllReached(heap', Where')
  BY Names DEF NoneLost, L!AllReached, Where, TypeOK
<1> QED BY <1>2, <1>3, <1>6, <1>7 DEF ListsAgree

(* km_io_cleanup frees every handle that is not closing, and no other. *)
LEMMA CleanupMoves ==
  ASSUME TypeOK, TypeOK', ListsAgree, NoneLost, Cleanup
  PROVE  /\ ListsAgree' /\ NoneLost'
         /\ \A h \in Handle : live'[h] <=> live[h] /\ closing[h]
         /\ \A h \in Handle : ref'[h] = IF live[h] /\ ~closing[h] THEN 0 ELSE ref[h]
         /\ \A h \in Handle : active'[h] => active[h] /\ ~(live[h] /\ ~closing[h])
<1> DEFINE doomed == UNION {L!Walk(heap, l) : l \in List \ {"closing"}}
<1>1. /\ heap \in L!Heap /\ Where \in [Handle -> List \cup {"none"}]
      /\ NULL \notin Handle /\ "none" \notin List /\ "closing" \in List
      /\ L!WellLinked(heap, Where) /\ L!AllReached(heap, Where)
  BY LoopAssumption, WhereTyped, Names, NoneLostIsReached DEF TypeOK, ListsAgree, List
<1>2. ASSUME NEW h \in Handle PROVE h \in doomed <=> live[h] /\ ~closing[h]
  <2>1. \A l \in List \ {"closing"} : h \in L!Walk(heap, l) => Where[h] = l
    BY <1>1, WalkStays
  <2>2. h \in doomed => live[h] /\ ~closing[h]
    BY <2>1, <1>1, WhereTyped
  <2>3. live[h] /\ ~closing[h] => Where[h] \in List \ {"closing"} /\ h \in L!Walk(heap, Where[h])
    BY <1>1, WhereTyped DEF NoneLost
  <2> QED BY <2>2, <2>3
<1>3. /\ live' = [h \in Handle |-> live[h] /\ h \notin doomed]
      /\ ref' = [h \in Handle |-> IF h \in doomed THEN 0 ELSE ref[h]]
      /\ active' = [h \in Handle |-> active[h] /\ h \notin doomed]
      /\ heap' = L!Clear(heap, List \ {"closing"})
      /\ UNCHANGED <<kind, closing>>
  BY DEF Cleanup, timing
<1> HIDE DEF doomed
<1>4. /\ heap'.next = heap.next /\ heap'.prev = heap.prev
      /\ heap'.head = [l \in List |-> IF l = "closing" THEN heap.head[l] ELSE NULL]
      /\ heap'.tail = [l \in List |-> IF l = "closing" THEN heap.tail[l] ELSE NULL]
  BY <1>3 DEF L!Clear, L!Heap, TypeOK, List
<1>5. \A h \in Handle : Where'[h] = IF Where[h] = "closing" THEN "closing" ELSE "none"
  BY <1>2, <1>3, <1>1, WhereTyped DEF Where
<1>6. L!WellLinked(heap', Where')
  <2>1. L!HeadsAgree(heap', Where')
    BY <1>1, <1>4, <1>5 DEF L!WellLinked, L!HeadsAgree, L!Heap, L!Pointer
  <2>2. L!NodesAgree(heap', Where')
    BY <1>1, <1>4, <1>5 DEF L!WellLinked, L!HeadsAgree, L!NodesAgree, L!Heap, L!Pointer
  <2> QED BY <2>1, <2>2 DEF L!WellLinked
<1>7. L!AllReached(heap', Where')
  <2>1. L!Walk(heap', "closing") = L!Walk(heap, "closing")
    BY <1>1, <1>4 DEF L!Walk
  <2> QED BY <2>1, <1>1, <1>5 DEF L!AllReached
<1>8. NoneLost' <=> L!AllReached(heap', Where')
  BY Names DEF NoneLost, L!AllReached, Where, TypeOK
<1> QED BY <1>2, <1>3, <1>6, <1>7, <1>8 DEF ListsAgree

-----------------------------------------------------------------------------
(* The steps that change neither a list nor a flag but perhaps whether a
   timer is active keep what is said of the lists. *)
LEMMA ListsUntouched ==
  ASSUME ListsAgree, NoneLost, CallbackHeldOnce, UNCHANGED <<heap, live, kind, closing, ref>>
  PROVE  ListsAgree' /\ NoneLost' /\ CallbackHeldOnce'
<1>1. Where' = Where
  BY DEF Where
<1> QED BY <1>1 DEF ListsAgree, NoneLost, CallbackHeldOnce, L!Walk, L!WellLinked, L!HeadsAgree, L!NodesAgree

LEMMA StopAndCloseTyped ==
  ASSUME TypeOK, NEW h \in Handle, StopAndClose(h)
  PROVE  heap' \in L!Heap /\ active' \in [Handle -> BOOLEAN] /\ closing' \in [Handle -> BOOLEAN]
<1>1. ListOf(kind[h]) \in List /\ "closing" \in List /\ {} \in SUBSET List
  BY Names DEF TypeOK, List
<1>2. L!Remove(heap, ListOf(kind[h]), h) \in L!Heap
  BY <1>1, HeapTyped DEF TypeOK
<1> QED BY <1>1, <1>2, HeapTyped DEF TypeOK, StopAndClose

LEMMA CleanupTyped ==
  ASSUME TypeOK, Cleanup
  PROVE  /\ heap' \in L!Heap /\ live' \in [Handle -> BOOLEAN]
         /\ ref' \in [Handle -> Int] /\ active' \in [Handle -> BOOLEAN]
<1>1. L!Clear(heap, List \ {"closing"}) \in L!Heap
  BY DEF L!Clear, L!Heap, L!Pointer, TypeOK
<1> QED BY <1>1 DEF Cleanup, TypeOK

(* Type correctness is preserved by every step. *)
LEMMA TypeStep ==
  ASSUME LoopInv, Next
  PROVE  TypeOK'
<1> USE DEF LoopInv, Goto
<1>0. /\ TypeOK /\ "tty" \in Phases /\ "timer" \in Phases
      /\ \A h \in Handle : heap.next[h] \in L!Pointer
      /\ \A l \in List : heap.head[l] \in L!Pointer
      /\ NULL \in L!Pointer
  BY DEF TypeOK, Phases, L!Heap, L!Pointer
<1>1. CASE StartPass
  BY <1>0, <1>1, LoopAssumption DEF StartPass, TypeOK, Later, List, flags, Phases
<1>2. ASSUME NEW p \in Phases, NEW c, Skip(p, c)
      PROVE TypeOK'
  BY <1>0, <1>2 DEF Skip, Visiting, TypeOK, flags, timing, L!Pointer
<1>3. CASE FireTone
  <2>1. cursor \in Handle
    BY <1>0, <1>3 DEF FireTone, Visiting, TypeOK, L!Pointer
  <2>2. heap' \in L!Heap /\ active' \in [Handle -> BOOLEAN] /\ closing' \in [Handle -> BOOLEAN]
    BY <1>0, <1>3, <2>1, StopAndCloseTyped DEF FireTone
  <2> QED BY <1>0, <1>3, <2>1, <2>2 DEF FireTone, TypeOK, timing, L!Heap
<1>4. ASSUME NEW p, NEW successor \in Phases, EndOf(p, successor)
      PROVE  TypeOK'
  BY <1>0, <1>4 DEF EndOf, TypeOK, flags, timing, List
<1>5. CASE FreeClosing
  <2>1. heap' \in L!Heap
    BY <1>0, <1>5, HeapTyped, {} \in SUBSET List, "closing" \in List
       DEF FreeClosing, TypeOK, L!Heap, L!Pointer, List
  <2> QED BY <1>0, <1>5, <2>1 DEF FreeClosing, TypeOK, control, timing
<1>6. CASE CheckStop
  BY <1>0, <1>6 DEF CheckStop, TypeOK, flags, timing, Phases
<1>7. CASE FireTimer
  <2>1. cursor \in Handle
    BY <1>0, <1>7 DEF FireTimer, Visiting, TypeOK, L!Pointer
  <2>2. left[cursor] + interval[cursor] \in Int
    BY <1>0, <2>1 DEF TypeOK
  <2>3. left' \in [Handle -> Int] /\ active' \in [Handle -> BOOLEAN]
    BY <1>0, <1>7, <2>1, <2>2 DEF FireTimer, TypeOK
  <2> QED BY <1>0, <1>7, <2>3 DEF FireTimer, TypeOK, Scripts
<1>8. ASSUME NEW p, CallBack(p)
      PROVE  TypeOK'
  BY <1>0, <1>8 DEF CallBack, TypeOK, flags, timing, Scripts
<1>9. ASSUME NEW p, NEW s \in Scripts, RunScript(p, s)
      PROVE  TypeOK'
  BY <1>0, <1>9 DEF RunScript, TypeOK, flags, timing
<1>10. ASSUME NEW s \in Scripts, SoftReset(s)
       PROVE  TypeOK'
  BY <1>0, <1>10, CleanupTyped DEF SoftReset, Cleanup, TypeOK, timing
<1>11. ASSUME NEW h \in Handle, NEW k \in AllKinds, NEW rep \in BOOLEAN, NEW d \in Nat,
              StartHandle(h, k, rep, d)
       PROVE  TypeOK'
  <2>1. heap' \in L!Heap
    BY <1>0, <1>11, HeapTyped, {} \in SUBSET List, Names DEF StartHandle, TypeOK
  <2> QED BY <1>0, <1>11, <2>1 DEF StartHandle, TypeOK, control
<1>12. ASSUME NEW h \in Handle, ClearHandle(h)
       PROVE  TypeOK'
  BY <1>0, <1>12, StopAndCloseTyped DEF ClearHandle, TypeOK, control, timing
<1>13. ASSUME NEW threw \in BOOLEAN, CallbackReturns(threw)
       PROVE  TypeOK'
  <2>1. cursor \in Handle /\ js = "callback"
    BY <1>0, <1>13 DEF CallbackReturns, TraversalSafe, TypeOK, L!Pointer
  <2>2. /\ heap' \in L!Heap /\ active' \in [Handle -> BOOLEAN]
        /\ closing' \in [Handle -> BOOLEAN] /\ ref' \in [Handle -> Int]
    BY <1>0, <1>13, <2>1, StopAndCloseTyped DEF CallbackReturns, TypeOK
  <2> QED BY <1>0, <1>13, <2>1, <2>2 DEF CallbackReturns, TypeOK, timing, L!Heap, Scripts
<1>14. CASE ScriptReturns
  BY <1>0, <1>14 DEF ScriptReturns, TypeOK, flags, timing, Phases, Scripts
<1>15. CASE LoadFails
  BY <1>0, <1>15, CleanupTyped DEF LoadFails, Cleanup, TypeOK, flags, timing, Phases, Scripts
<1>16. CASE LoopStep
  BY <1>16, <1>1, <1>2, <1>3, <1>4, <1>5, <1>6
     DEF LoopStep, SkipTimer, SkipWatch, SkipUart, EndTimers, EndWatches, EndUarts, EndIdle,
         EndClosing, EndCustom, Phases
<1>17. CASE EndTty \/ Fires \/ Terminal \/ RunJobs \/ Poll
  BY <1>17, <1>4, <1>7, <1>8, <1>9, <1>10
     DEF EndTty, Fires, FireWatch, FireUart, Terminal, EvalLine, Reset, Load, RunJobs, Poll,
         Phases, Scripts
<1>18. CASE Creates
  BY <1>18, <1>11, LoopAssumption
     DEF Creates, SetTimer, SetTone, SetWatch, OpenUart, AllKinds
<1>19. CASE Clears \/ Returns
  BY <1>19, <1>12, <1>13 DEF Clears, Returns
<1> QED BY <1>14, <1>15, <1>16, <1>17, <1>18, <1>19 DEF Next

(* A step that runs no callback epilogue, moves no handle and leaves a sound
   traversal behind preserves the invariant. *)
LEMMA MoveHandle ==
  ASSUME LoopInv, TypeOK', NEW h \in Handle, live[h], ~closing[h], StopAndClose(h),
         UNCHANGED <<live, kind>>,
         ref' = [ref EXCEPT ![h] = IF kind[h] = "tone" THEN @ ELSE @ - 1]
  PROVE  ListsAgree' /\ NoneLost' /\ CallbackHeldOnce' /\ FlagsAgree'
<1>1. ListsAgree' /\ NoneLost'
  BY StopAndCloseMoves DEF LoopInv
<1>2. /\ active' = [active EXCEPT ![h] = FALSE]
      /\ closing' = [closing EXCEPT ![h] = TRUE]
      /\ TypeOK /\ CallbackHeldOnce /\ FlagsAgree
  BY DEF StopAndClose, LoopInv
<1>3. CallbackHeldOnce'
  BY <1>2 DEF CallbackHeldOnce, TypeOK
<1>4. FlagsAgree'
  BY <1>2 DEF FlagsAgree, TypeOK
<1> QED BY <1>1, <1>3, <1>4

(* After a cleanup only closing handles are allocated. *)
LEMMA CleanupKeeps ==
  ASSUME LoopInv, TypeOK', Cleanup
  PROVE  ListsAgree' /\ NoneLost' /\ CallbackHeldOnce' /\ FlagsAgree'
<1>1. TypeOK /\ ListsAgree /\ NoneLost /\ CallbackHeldOnce /\ FlagsAgree
  BY DEF LoopInv
<1>2. /\ ListsAgree' /\ NoneLost'
      /\ \A h \in Handle : live'[h] <=> live[h] /\ closing[h]
      /\ \A h \in Handle : ref'[h] = IF live[h] /\ ~closing[h] THEN 0 ELSE ref[h]
      /\ \A h \in Handle : active'[h] => active[h] /\ ~(live[h] /\ ~closing[h])
  BY <1>1, CleanupMoves
<1>3. UNCHANGED <<kind, closing>>
  BY DEF Cleanup
<1>4. CallbackHeldOnce'
  BY <1>1, <1>2, <1>3 DEF CallbackHeldOnce
<1>5. FlagsAgree'
  BY <1>1, <1>2, <1>3 DEF FlagsAgree
<1> QED BY <1>2, <1>4, <1>5

(* The pointers of the lists stay on their list. *)
LEMMA PointersStay ==
  ASSUME TypeOK, ListsAgree
  PROVE  /\ \A h \in Handle : live[h] /\ heap.next[h] # NULL =>
                heap.next[h] \in Handle /\ Where[heap.next[h]] = Where[h]
         /\ \A l \in List : heap.head[l] # NULL =>
                heap.head[l] \in Handle /\ Where[heap.head[l]] = l
BY WhereTyped DEF ListsAgree, L!WellLinked, L!NodesAgree, L!HeadsAgree, L!Heap, L!Pointer, TypeOK

(* The same of the state a step leads to. *)
LEMMA PointersStayAfter ==
  ASSUME TypeOK', ListsAgree'
  PROVE  \A h \in Handle : live'[h] /\ heap'.next[h] # NULL =>
            heap'.next[h] \in Handle /\ Where'[heap'.next[h]] = Where'[h]
<1>1. \A h \in Handle : live'[h] => Where'[h] # "none"
  BY Names DEF Where, TypeOK
<1> QED BY <1>1 DEF ListsAgree, L!WellLinked, L!NodesAgree, L!Heap, L!Pointer, TypeOK

(* The steps that leave lists and flags alone and go on in a traversal or in
   the next phase keep the invariant. *)
LEMMA Moving ==
  ASSUME LoopInv, Next, UNCHANGED <<heap, flags>>
  PROVE  ListsAgree' /\ NoneLost' /\ CallbackHeldOnce' /\ FlagsAgree' /\ Where' = Where
<1>1. ListsAgree' /\ NoneLost' /\ CallbackHeldOnce'
  BY ListsUntouched DEF LoopInv, flags
<1> QED BY <1>1 DEF LoopInv, flags, FlagsAgree, Where

Control == ScriptPhase /\ TraversalSafe /\ StopsOnlyWhenEmpty
Flags   == ListsAgree /\ NoneLost /\ CallbackHeldOnce /\ FlagsAgree

LEMMA InvParts == LoopInv <=> TypeOK /\ Flags /\ Control
BY DEF LoopInv, Flags, Control

(* The handle of a traversal is allocated, and nothing runs at "stopped". *)
LEMMA Standing ==
  ASSUME LoopInv
  PROVE  /\ cursor # NULL => cursor \in Handle /\ live[cursor]
         /\ phase = "stopped" => js = "none"
         /\ phase \notin {"timer", "watch", "uart"} => cursor = NULL
BY WhereTyped, "none" \notin {"timer", "watch", "uart", "closing"}
   DEF LoopInv, TypeOK, L!Pointer, TraversalSafe, ScriptPhase, Scripts

(* The steps of the loop that call no JavaScript keep the invariant. *)
LEMMA LoopStepKeeps ==
  ASSUME LoopInv, LoopStep, Next
  PROVE  Flags' /\ Control'
<1>0. TypeOK' /\ TypeOK /\ ListsAgree /\ Control
  BY TypeStep DEF LoopInv, Control
<1> USE DEF Goto
<1>1. CASE StartPass
  <2>1. Flags' /\ Where' = Where
    BY <1>1, Moving DEF StartPass, Flags
  <2>2. phase' = "timer" /\ cursor' = heap.head["timer"] /\ js' = js /\ phase = "top"
    BY <1>1 DEF StartPass
  <2>3. js' = "none"
    BY <2>2, <1>0 DEF Control, ScriptPhase, Scripts, TypeOK
  <2>4. cursor' # NULL => Where'[cursor'] = "timer"
    BY <2>1, <2>2, <1>0, PointersStay DEF List
  <2> QED BY <2>1, <2>2, <2>3, <2>4
          DEF Control, ScriptPhase, TraversalSafe, OwnTimeout, StopsOnlyWhenEmpty
<1>2. ASSUME NEW p \in {"timer", "watch", "uart"}, NEW c, Skip(p, c)
      PROVE  Flags' /\ Control'
  <2>1. Flags' /\ Where' = Where
    BY <1>2, Moving DEF Skip, Flags
  <2>2. phase = p /\ phase' = p /\ cursor' = heap.next[cursor] /\ js' = "none" /\ cursor # NULL
    BY <1>2 DEF Skip, Visiting
  <2>3. cursor' # NULL => Where'[cursor'] \in {p, "closing"}
    BY <2>1, <2>2, <1>0, PointersStay, Standing DEF Control, TraversalSafe
  <2> QED BY <2>1, <2>2, <2>3
          DEF Control, ScriptPhase, TraversalSafe, OwnTimeout, StopsOnlyWhenEmpty
<1>3. CASE FireTone
  <2>1. cursor \in Handle /\ live[cursor] /\ ~closing[cursor] /\ kind[cursor] = "tone"
    BY <1>3, Standing DEF FireTone, Visiting, LoopInv, FlagsAgree
  <2>2. Flags'
    BY <1>0, <1>3, <2>1, MoveHandle DEF FireTone, Flags, TypeOK
  <2>3. phase' = "timer" /\ js' = "none" /\ cursor' = heap'.next[cursor] /\ UNCHANGED <<live, kind>>
    BY <1>3 DEF FireTone, Visiting
  <2>4. Where'[cursor] = "closing" /\ live'[cursor]
    BY <1>0, <1>3, <2>1, <2>3 DEF FireTone, StopAndClose, Where, TypeOK
  <2>5. cursor' # NULL => Where'[cursor'] = "closing"
    BY <1>0, <2>1, <2>2, <2>3, <2>4, PointersStayAfter DEF Flags
  <2> QED BY <2>2, <2>3, <2>5
          DEF Control, ScriptPhase, TraversalSafe, OwnTimeout, StopsOnlyWhenEmpty
<1>4. ASSUME NEW p, NEW q \in {"tty", "watch", "uart", "idle", "closing", "custom", "check"},
             EndOf(p, q)
      PROVE  Flags' /\ Control'
  <2>1. Flags' /\ Where' = Where
    BY <1>4, Moving DEF EndOf, Flags
  <2>2. /\ phase' = q /\ js' = "none"
        /\ cursor' = IF q \in {"watch", "uart"} THEN heap.head[q] ELSE NULL
    BY <1>4 DEF EndOf
  <2>3. cursor' # NULL => Where'[cursor'] = q /\ q \in {"watch", "uart"}
    BY <2>1, <2>2, <1>0, PointersStay DEF List
  <2> QED BY <2>1, <2>2, <2>3
          DEF Control, ScriptPhase, TraversalSafe, OwnTimeout, StopsOnlyWhenEmpty
<1>5. CASE FreeClosing
  <2> DEFINE h == heap.head["closing"]
  <2>1. h \in Handle /\ live[h] /\ closing[h] /\ ListsAgree' /\ NoneLost'
    BY <1>0, <1>5, FreeMoves DEF LoopInv
  <2>2. /\ live' = [live EXCEPT ![h] = FALSE] /\ closing' = [closing EXCEPT ![h] = FALSE]
        /\ UNCHANGED <<phase, cursor, js, kind, active, ref, repeat>> /\ phase = "closing"
    BY <1>5 DEF FreeClosing, control, timing
  <2>3. CallbackHeldOnce' /\ FlagsAgree'
    BY <2>1, <2>2, <1>0 DEF LoopInv, CallbackHeldOnce, FlagsAgree, TypeOK
  <2>4. cursor = NULL
    BY <2>2, Standing
  <2> QED BY <2>1, <2>2, <2>3, <2>4, <1>0
          DEF Flags, Control, ScriptPhase, TraversalSafe, OwnTimeout, StopsOnlyWhenEmpty
<1>6. CASE CheckStop
  <2>1. Flags' /\ Where' = Where
    BY <1>6, Moving DEF CheckStop, Flags
  <2>2. /\ phase = "check" /\ cursor' = NULL /\ js' = js /\ live' = live
        /\ phase' = "top" \/ (phase' = "stopped" /\ \A l \in List : heap.head[l] = NULL)
    BY <1>6 DEF CheckStop, flags
  <2>3. js' = "none"
    BY <2>2, <1>0 DEF Control, ScriptPhase, Scripts, TypeOK
  <2>4. StopsOnlyWhenEmpty'
    <3> SUFFICES ASSUME phase' = "stopped", NEW h \in Handle, live[h] PROVE FALSE
      BY <2>2 DEF StopsOnlyWhenEmpty
    <3>1. Where[h] \in List /\ h \in L!Walk(heap, Where[h])
      BY <1>0, WhereTyped DEF LoopInv, NoneLost
    <3>2. heap.head[Where[h]] = NULL
      BY <2>2, <3>1
    <3> QED BY <3>1, <3>2, EmptyWalk
  <2> QED BY <2>1, <2>2, <2>3, <2>4 DEF Control, ScriptPhase, TraversalSafe, OwnTimeout
<1> QED BY <1>1, <1>2, <1>3, <1>4, <1>5, <1>6
        DEF LoopStep, SkipTimer, SkipWatch, SkipUart, EndTimers, EndWatches, EndUarts, EndIdle,
            EndClosing, EndCustom
(* The steps in which JavaScript begins to run keep the invariant. *)
LEMMA CallingKeeps ==
  ASSUME LoopInv, Next,
         EndTty \/ Fires \/ EvalLine \/ RunJobs \/ Poll
  PROVE  Flags' /\ Control'
<1>0. TypeOK' /\ TypeOK /\ ListsAgree /\ Control
  BY TypeStep DEF LoopInv, Control
<1> USE DEF Goto
<1>1. CASE EndTty
  <2>1. Flags' /\ Where' = Where
    BY <1>1, Moving DEF EndTty, EndOf, Flags
  <2>2. phase' = "watch" /\ js' = "none" /\ cursor' = heap.head["watch"]
    BY <1>1 DEF EndTty, EndOf
  <2>3. cursor' # NULL => Where'[cursor'] = "watch"
    BY <2>1, <2>2, <1>0, PointersStay DEF List
  <2> QED BY <2>1, <2>2, <2>3
          DEF Control, ScriptPhase, TraversalSafe, OwnTimeout, StopsOnlyWhenEmpty
<1>2. ASSUME NEW p \in {"timer", "watch", "uart"}, Visiting(p), active[cursor]
      PROVE  /\ cursor \in Handle /\ live[cursor] /\ ~closing[cursor]
             /\ Where[cursor] = p /\ ListOf(kind[cursor]) = p /\ phase = p
  <2>1. cursor \in Handle /\ live[cursor] /\ ~closing[cursor] /\ phase = p /\ cursor # NULL
    BY <1>2, Standing DEF Visiting, LoopInv, FlagsAgree
  <2> QED BY <1>0, <2>1, WhereTyped DEF Control, TraversalSafe, Where
<1>3. CASE FireTimer
  <2>1. /\ cursor \in Handle /\ live[cursor] /\ ~closing[cursor]
        /\ Where[cursor] = "timer" /\ phase = "timer" /\ kind[cursor] = "timer" /\ cursor # NULL
    BY <1>2, <1>3 DEF FireTimer, Visiting
  <2>2. /\ UNCHANGED <<phase, cursor, heap, live, kind, closing, ref, repeat>>
        /\ js' = "callback"
        /\ \A h \in Handle : active'[h] => active[h]
    BY <1>0, <1>3, <2>1 DEF FireTimer, TypeOK
  <2>3. ListsAgree' /\ NoneLost' /\ CallbackHeldOnce'
    BY <2>2, ListsUntouched DEF LoopInv
  <2>4. FlagsAgree' /\ Where' = Where
    BY <2>2 DEF LoopInv, FlagsAgree, Where
  <2> QED BY <2>1, <2>2, <2>3, <2>4
          DEF Flags, Control, ScriptPhase, TraversalSafe, OwnTimeout, StopsOnlyWhenEmpty
<1>4. ASSUME NEW p \in {"watch", "uart"}, CallBack(p)
      PROVE  Flags' /\ Control'
  <2>1. /\ cursor \in Handle /\ live[cursor] /\ ~closing[cursor] /\ cursor # NULL
        /\ Where[cursor] = p /\ phase = p /\ kind[cursor] # "tone" /\ kind[cursor] # "timer"
    BY <1>2, <1>4 DEF CallBack, Visiting, ListOf
  <2>2. UNCHANGED <<phase, cursor, heap, flags, timing>> /\ js' = "callback"
    BY <1>4 DEF CallBack
  <2>3. Flags' /\ Where' = Where
    BY <2>2, Moving DEF Flags
  <2> QED BY <2>1, <2>2, <2>3
          DEF flags, Control, ScriptPhase, TraversalSafe, OwnTimeout, StopsOnlyWhenEmpty
<1>5. ASSUME NEW p, NEW s, RunScript(p, s), <<p, s>> \in {<<"tty", "eval">>, <<"idle", "job">>, <<"custom", "poll">>}
      PROVE  Flags' /\ Control'
  <2>1. UNCHANGED <<phase, cursor, heap, flags, timing>> /\ js' = s /\ phase = p
    BY <1>5 DEF RunScript
  <2>2. Flags' /\ Where' = Where
    BY <2>1, Moving DEF Flags
  <2>3. cursor = NULL
    BY <2>1, <1>5, Standing
  <2> QED BY <2>1, <2>2, <2>3, <1>5
          DEF Control, ScriptPhase, TraversalSafe, OwnTimeout, StopsOnlyWhenEmpty
<1> QED BY <1>1, <1>3, <1>4, <1>5 DEF Fires, FireWatch, FireUart, EvalLine, RunJobs, Poll

(* What JavaScript does to the handles while it runs keeps the invariant. *)
LEMMA CreatesKeeps ==
  ASSUME LoopInv, Next, NEW h \in Handle, NEW k \in AllKinds, NEW rep, NEW d,
         js # "none", StartHandle(h, k, rep, d)
  PROVE  Flags' /\ Control'
<1>0. TypeOK' /\ TypeOK /\ Control /\ LoopInv
  BY TypeStep DEF LoopInv, Control
<1>1. ListsAgree' /\ NoneLost'
  BY <1>0, StartMoves DEF LoopInv
<1>2. /\ ~live[h] /\ UNCHANGED <<phase, cursor, js>>
      /\ live' = [live EXCEPT ![h] = TRUE] /\ kind' = [kind EXCEPT ![h] = k]
      /\ active' = [active EXCEPT ![h] = TRUE] /\ closing' = [closing EXCEPT ![h] = FALSE]
      /\ ref' = [ref EXCEPT ![h] = IF k = "tone" THEN 0 ELSE 1]
      /\ repeat' = [repeat EXCEPT ![h] = rep]
  BY DEF StartHandle, control
<1>3. CallbackHeldOnce' /\ FlagsAgree'
  BY <1>0, <1>2 DEF LoopInv, CallbackHeldOnce, FlagsAgree, TypeOK
<1>4. cursor # NULL => cursor \in Handle /\ cursor # h
  BY <1>2, Standing
<1>5. cursor # NULL => /\ Where'[cursor] = Where[cursor] /\ kind'[cursor] = kind[cursor]
                       /\ repeat'[cursor] = repeat[cursor] /\ closing'[cursor] = closing[cursor]
  BY <1>0, <1>2, <1>4 DEF Where, TypeOK
<1>6. ScriptPhase' /\ StopsOnlyWhenEmpty'
  BY <1>0, <1>2, Standing DEF Control, ScriptPhase, StopsOnlyWhenEmpty
<1>7. TraversalSafe'
  BY <1>0, <1>2, <1>5 DEF Control, TraversalSafe, OwnTimeout
<1> QED BY <1>1, <1>3, <1>6, <1>7 DEF Flags, Control

LEMMA ClearsKeeps ==
  ASSUME LoopInv, Next, NEW h \in Handle, ~OwnTimeout(h), ClearHandle(h)
  PROVE  Flags' /\ Control'
<1>0. TypeOK' /\ TypeOK /\ Control
  BY TypeStep DEF LoopInv, Control
<1>1. live[h] /\ ~closing[h] /\ kind[h] # "tone"
  <2>1. h \in L!Walk(heap, ListOf(kind[h])) /\ kind[h] # "tone"
    BY DEF ClearHandle
  <2>2. ListOf(kind[h]) \in List \ {"closing"} /\ "none" \notin List /\ heap \in L!Heap
    BY <1>0, Names DEF TypeOK
  <2>3. Where[h] = ListOf(kind[h])
    BY <2>1, <2>2, LoopAssumption, WalkStays DEF LoopInv, ListsAgree
  <2> QED BY <1>0, <2>1, <2>2, <2>3, WhereTyped
<1>2. /\ UNCHANGED <<phase, cursor, js, live, kind, repeat>>
      /\ StopAndClose(h) /\ ref' = [ref EXCEPT ![h] = @ - 1]
      /\ js # "none"
  BY DEF ClearHandle, control, timing
<1>3. Flags'
  BY <1>0, <1>1, <1>2, MoveHandle DEF Flags
<1>4. /\ \A x \in Handle : x # h => Where'[x] = Where[x] /\ closing'[x] = closing[x]
      /\ Where'[h] = "closing"
  BY <1>0, <1>1, <1>2 DEF StopAndClose, Where, TypeOK
<1>5. cursor # NULL => cursor \in Handle
  BY Standing
<1>6. ScriptPhase' /\ StopsOnlyWhenEmpty'
  BY <1>0, <1>2, Standing DEF Control, ScriptPhase, StopsOnlyWhenEmpty
<1>7. TraversalSafe'
  BY <1>0, <1>2, <1>4, <1>5 DEF Control, TraversalSafe, OwnTimeout
<1> QED BY <1>3, <1>6, <1>7 DEF Control

(* The end of a callback: its handle is closed at most once. *)
LEMMA ReturnsKeeps ==
  ASSUME LoopInv, Next, NEW threw \in BOOLEAN, threw => ~closing[cursor], CallbackReturns(threw)
  PROVE  Flags' /\ Control'
<1>0. TypeOK' /\ TypeOK /\ Control
  BY TypeStep DEF LoopInv, Control
<1>1. /\ cursor \in Handle /\ live[cursor] /\ js = "callback" /\ cursor # NULL
      /\ kind[cursor] # "tone" /\ phase \in {"timer", "watch", "uart"}
  BY <1>0, Standing DEF CallbackReturns, Control, TraversalSafe
<1>2. /\ js' = "none" /\ phase' = phase /\ cursor' = heap'.next[cursor]
      /\ UNCHANGED <<live, kind, repeat>>
  BY DEF CallbackReturns, Goto, timing
<1>3. Flags' /\ Where'[cursor] \in {phase, "closing"}
  <2>1. CASE ClosesAtReturn(cursor, threw)
    <3>1. ~closing[cursor]
      BY <1>0, <1>1, <2>1 DEF ClosesAtReturn, Control, TraversalSafe, OwnTimeout
    <3>2. StopAndClose(cursor) /\ ref' = [ref EXCEPT ![cursor] = @ - 1]
      BY <2>1 DEF CallbackReturns
    <3>3. Flags'
      BY <1>0, <1>1, <1>2, <3>1, <3>2, MoveHandle DEF Flags
    <3>4. Where'[cursor] = "closing"
      BY <1>0, <1>1, <1>2, <3>2 DEF StopAndClose, Where, TypeOK
    <3> QED BY <3>3, <3>4
  <2>2. CASE ~ClosesAtReturn(cursor, threw)
    <3>1. UNCHANGED <<heap, flags>>
      BY <2>2, <1>2 DEF CallbackReturns, flags
    <3> QED BY <3>1, Moving, <1>0, <1>1 DEF Flags, Control, TraversalSafe
  <2> QED BY <2>1, <2>2
<1>4. cursor' # NULL => Where'[cursor'] = Where'[cursor]
  BY <1>0, <1>1, <1>2, <1>3, PointersStayAfter DEF Flags
<1> QED BY <1>1, <1>2, <1>3, <1>4
        DEF Control, ScriptPhase, TraversalSafe, OwnTimeout, StopsOnlyWhenEmpty

(* The end of a script and the soft resets keep the invariant. *)
LEMMA ResetsKeep ==
  ASSUME LoopInv, Next, ScriptReturns \/ LoadFails \/ Reset \/ Load
  PROVE  Flags' /\ Control'
<1>0. TypeOK' /\ TypeOK /\ Control
  BY TypeStep DEF LoopInv, Control
<1> USE DEF Goto
<1>1. CASE ScriptReturns
  <2>1. Flags'
    BY <1>1, Moving DEF ScriptReturns, Flags
  <2>2. cursor' = NULL /\ js' = "none" /\ phase' # "stopped"
    BY <1>1, Standing DEF ScriptReturns
  <2> QED BY <2>1, <2>2 DEF Control, ScriptPhase, TraversalSafe, OwnTimeout, StopsOnlyWhenEmpty
<1>2. CASE LoadFails /\ ~Cleanup
  <2>1. UNCHANGED <<heap, flags>> /\ cursor' = NULL /\ js' = "none" /\ phase' = "exit"
    BY <1>2 DEF LoadFails
  <2> QED BY <2>1, Moving DEF Flags, Control, ScriptPhase, TraversalSafe, OwnTimeout, StopsOnlyWhenEmpty
<1>3. CASE (LoadFails \/ Reset \/ Load) /\ Cleanup
  <2>1. Flags'
    BY <1>0, <1>3, CleanupKeeps DEF Flags
  <2>2. /\ js' \in {"none", "load"} /\ (js' = "load" => phase' = "tty") /\ phase' # "stopped"
        /\ cursor' = NULL
    BY <1>0, <1>3, Standing DEF LoadFails, Reset, Load, SoftReset, Control, ScriptPhase
  <2> QED BY <2>1, <2>2 DEF Control, ScriptPhase, TraversalSafe, OwnTimeout, StopsOnlyWhenEmpty
<1> QED BY <1>1, <1>2, <1>3 DEF Reset, Load, SoftReset

-----------------------------------------------------------------------------
(* The inductive invariant holds initially. *)
LEMMA InitInv == Init => LoopInv
<1> SUFFICES ASSUME Init PROVE LoopInv
  OBVIOUS
<1>1. /\ phase = "boot" /\ cursor = NULL /\ js = "load" /\ heap = L!EmptyHeap
      /\ live = [h \in Handle |-> FALSE] /\ kind = [h \in Handle |-> "timer"]
      /\ active = [h \in Handle |-> FALSE] /\ closing = [h \in Handle |-> FALSE]
      /\ ref = [h \in Handle |-> 0] /\ repeat = [h \in Handle |-> FALSE]
      /\ interval = [h \in Handle |-> 0] /\ left = [h \in Handle |-> 0]
  BY DEF Init
<1>2. heap \in L!Heap
  BY <1>1 DEF L!EmptyHeap, L!Heap, L!Pointer
<1>3. TypeOK
  BY <1>1, <1>2 DEF TypeOK, Phases, Scripts, AllKinds, L!Pointer
<1>4. \A h \in Handle : Where[h] = "none"
  BY <1>1 DEF Where
<1>5. ListsAgree
  BY <1>1, <1>4 DEF ListsAgree, L!WellLinked, L!HeadsAgree, L!NodesAgree, L!EmptyHeap
<1>6. NoneLost /\ CallbackHeldOnce /\ FlagsAgree
  BY <1>1 DEF NoneLost, CallbackHeldOnce, FlagsAgree
<1>7. Control
  BY <1>1 DEF Control, ScriptPhase, TraversalSafe, OwnTimeout, StopsOnlyWhenEmpty
<1> QED BY <1>3, <1>5, <1>6, <1>7, InvParts DEF Flags

(* Every step of a script that keeps the rules preserves the invariant. *)
LEMMA StepInv == LoopInv /\ [Next]_vars => LoopInv'
<1> SUFFICES ASSUME LoopInv, [Next]_vars PROVE LoopInv'
  OBVIOUS
<1>1. CASE Next
  <2>1. ASSUME Creates PROVE Flags' /\ Control'
    BY <2>1, <1>1, CreatesKeeps DEF Creates, SetTimer, SetTone, SetWatch, OpenUart, AllKinds
  <2>2. ASSUME Clears \/ Returns PROVE Flags' /\ Control'
    BY <2>2, <1>1, ClearsKeeps, ReturnsKeeps DEF Clears, Returns
  <2>3. ASSUME LoopStep PROVE Flags' /\ Control'
    BY <2>3, <1>1, LoopStepKeeps
  <2>4. ASSUME EndTty \/ Fires \/ EvalLine \/ RunJobs \/ Poll PROVE Flags' /\ Control'
    BY <2>4, <1>1, CallingKeeps
  <2>5. ASSUME ScriptReturns \/ LoadFails \/ Reset \/ Load PROVE Flags' /\ Control'
    BY <2>5, <1>1, ResetsKeep
  <2>6. Flags' /\ Control'
    BY <1>1, <2>1, <2>2, <2>3, <2>4, <2>5 DEF Next, Terminal
  <2>7. TypeOK'
    BY <1>1, TypeStep
  <2> QED BY <2>6, <2>7 DEF LoopInv, Flags, Control
<1>2. CASE UNCHANGED vars
  BY <1>2 DEF vars, control, flags, timing, LoopInv, TypeOK, ListsAgree, NoneLost, CallbackHeldOnce,
     FlagsAgree, ScriptPhase, TraversalSafe, StopsOnlyWhenEmpty, OwnTimeout, Where,
     L!Walk, L!WellLinked, L!HeadsAgree, L!NodesAgree
<1> QED BY <1>1, <1>2

(* The inductive invariant holds in every reachable state. *)
THEOREM Invariance == Spec => []LoopInv
BY InitInv, StepInv, PTL DEF Spec

(* Type correctness, and cursor always null or a handle. *)
THEOREM TypeCorrect == Spec => []TypeOK
<1>1. LoopInv => TypeOK
  BY DEF LoopInv
<1> QED BY <1>1, Invariance, PTL

(* However JavaScript starts, clears and closes handles while the loop walks
   their lists, the lists are what the handles' flags say. *)
THEOREM ListsAgreeAlways == Spec => []ListsAgree
<1>1. LoopInv => ListsAgree
  BY DEF LoopInv
<1> QED BY <1>1, Invariance, PTL

(* No pointer of the loop, of a list or of a live handle dangles: neither
   km_io_cleanup nor km_io_handle_closing frees what is still pointed to. *)
THEOREM NoUseAfterFree == Spec => []NoDangling
<1>1. ASSUME LoopInv PROVE NoDangling
  <2>1. TypeOK /\ ListsAgree
    BY <1>1 DEF LoopInv
  <2>2. cursor = NULL \/ live[cursor]
    BY <1>1, Standing
  <2>3. \A l \in List : /\ heap.head[l] = NULL \/ live[heap.head[l]]
                        /\ heap.tail[l] = NULL \/ live[heap.tail[l]]
    BY <2>1, WhereTyped, Names
       DEF ListsAgree, L!WellLinked, L!HeadsAgree, L!Heap, L!Pointer, TypeOK
  <2>4. \A h \in Handle : live[h] => /\ heap.next[h] = NULL \/ live[heap.next[h]]
                                     /\ heap.prev[h] = NULL \/ live[heap.prev[h]]
    BY <2>1, WhereTyped, Names
       DEF ListsAgree, L!WellLinked, L!NodesAgree, L!Heap, L!Pointer, TypeOK
  <2> QED BY <2>2, <2>3, <2>4 DEF NoDangling
<1> QED BY <1>1, Invariance, PTL

(* Every allocated handle can be reached through its list. *)
THEOREM NoHandleLost == Spec => []NoneLost
<1>1. LoopInv => NoneLost
  BY DEF LoopInv
<1> QED BY <1>1, Invariance, PTL

(* A handle's JavaScript callback is referenced from start to close, and
   released exactly once. *)
THEOREM ReferencesBalance == Spec => []CallbackHeldOnce
<1>1. LoopInv => CallbackHeldOnce
  BY DEF LoopInv
<1> QED BY <1>1, Invariance, PTL

(* km_io_run returns with no handle allocated. *)
THEOREM StopsEmpty == Spec => []StopsOnlyWhenEmpty
<1>1. LoopInv => StopsOnlyWhenEmpty
  BY DEF LoopInv
<1> QED BY <1>1, Invariance, PTL
-----------------------------------------------------------------------------
(* The state of module HandleService that a state of the loop stands for. *)
StateOf == [h \in Handle |-> IF ~live[h] THEN "free" ELSE IF closing[h] THEN "closed" ELSE "armed"]
OnceOf  == [h \in Handle |-> live[h] /\ kind[h] = "timer" /\ ~repeat[h]]
BusyOf  == IF js = "callback" THEN cursor ELSE NULL

(* A step that changes none of them is a stutter of the service. *)
LEMMA Stutters ==
  ASSUME UNCHANGED <<live, kind, closing, repeat, BusyOf>>
  PROVE  UNCHANGED Service!svars
<1>1. UNCHANGED <<StateOf, OnceOf, BusyOf>>
  BY DEF StateOf, OnceOf
<1> QED BY <1>1 DEF Service!svars, StateOf, OnceOf, BusyOf

(* Starting a handle is a Start of the service. *)
LEMMA StartImplements ==
  ASSUME LoopInv, NEW h \in Handle, NEW k \in AllKinds, NEW rep \in BOOLEAN, NEW d,
         StartHandle(h, k, rep, d)
  PROVE  Service!Next
<1>1. TypeOK
  BY DEF LoopInv
<1>2. /\ ~live[h] /\ UNCHANGED <<cursor, js>>
      /\ live' = [live EXCEPT ![h] = TRUE] /\ kind' = [kind EXCEPT ![h] = k]
      /\ closing' = [closing EXCEPT ![h] = FALSE] /\ repeat' = [repeat EXCEPT ![h] = rep]
  BY DEF StartHandle, control
<1>3. StateOf[h] = "free" /\ StateOf' = [StateOf EXCEPT ![h] = "armed"]
  BY <1>1, <1>2 DEF StateOf, TypeOK
<1>4. OnceOf' = [OnceOf EXCEPT ![h] = (k = "timer" /\ ~rep)]
  BY <1>1, <1>2 DEF OnceOf, TypeOK
<1>5. BusyOf' = BusyOf
  BY <1>2 DEF BusyOf
<1>6. \E b \in BOOLEAN : OnceOf' = [OnceOf EXCEPT ![h] = b]
  BY <1>4
<1> HIDE DEF StateOf, OnceOf, BusyOf
<1>7. Service!Start(h)
  BY <1>3, <1>5, <1>6 DEF Service!Start, StateOf, OnceOf, BusyOf
<1> QED BY <1>7 DEF Service!Next

(* Closing a handle outside of the end of its callback is a Close. *)
LEMMA CloseImplements ==
  ASSUME LoopInv, NEW h \in Handle, live[h], ~closing[h], StopAndClose(h),
         UNCHANGED <<live, kind, repeat, BusyOf>>
  PROVE  Service!Next
<1>1. TypeOK /\ closing' = [closing EXCEPT ![h] = TRUE]
  BY DEF LoopInv, StopAndClose
<1>2. StateOf[h] = "armed" /\ StateOf' = [StateOf EXCEPT ![h] = "closed"] /\ OnceOf' = OnceOf
  BY <1>1 DEF StateOf, OnceOf, TypeOK
<1>3. Service!Close(h)
  BY <1>2 DEF Service!Close, StateOf, OnceOf, BusyOf
<1> QED BY <1>3 DEF Service!Next

(* Calling back is a Call. *)
LEMMA CallImplements ==
  ASSUME LoopInv, cursor # NULL, js = "none", active[cursor], js' = "callback",
         UNCHANGED <<cursor, live, kind, closing, repeat>>
  PROVE  Service!Next
<1>1. cursor \in Handle /\ live[cursor] /\ ~closing[cursor]
  BY Standing DEF LoopInv, FlagsAgree
<1>2. /\ StateOf[cursor] = "armed" /\ StateOf' = StateOf /\ OnceOf' = OnceOf
      /\ BusyOf = NULL /\ BusyOf' = cursor
  BY <1>1 DEF StateOf, OnceOf, BusyOf
<1>3. Service!Call(cursor)
  BY <1>2 DEF Service!Call, StateOf, OnceOf, BusyOf
<1> QED BY <1>1, <1>3 DEF Service!Next

(* The end of a callback is a Return: a timeout's closes it. *)
LEMMA ReturnImplements ==
  ASSUME LoopInv, NEW threw \in BOOLEAN, threw => ~closing[cursor], CallbackReturns(threw)
  PROVE  Service!Next
<1>1. TypeOK /\ TraversalSafe /\ js = "callback"
  BY DEF LoopInv, CallbackReturns
<1>2. cursor \in Handle /\ live[cursor] /\ cursor # NULL
  BY <1>1, Standing DEF TraversalSafe
<1>3. UNCHANGED <<live, kind, repeat>> /\ js' = "none"
  BY DEF CallbackReturns, timing
<1>4. BusyOf = cursor /\ BusyOf' = NULL /\ OnceOf' = OnceOf
  BY <1>1, <1>3 DEF BusyOf, OnceOf
<1>5. CASE ClosesAtReturn(cursor, threw)
  <2>1. ~closing[cursor] /\ closing' = [closing EXCEPT ![cursor] = TRUE]
    BY <1>1, <1>5 DEF ClosesAtReturn, TraversalSafe, OwnTimeout, CallbackReturns, StopAndClose
  <2>2. StateOf[cursor] = "armed" /\ StateOf' = [StateOf EXCEPT ![cursor] = "closed"]
    BY <1>1, <1>2, <1>3, <2>1 DEF StateOf, TypeOK
  <2>3. ASSUME NEW h \in Handle, h = cursor PROVE Service!Return(h)
    BY <2>3, <2>2, <1>4 DEF Service!Return, StateOf, OnceOf, BusyOf
  <2> QED BY <1>2, <2>3 DEF Service!Next
<1>6. CASE ~ClosesAtReturn(cursor, threw)
  <2>1. closing' = closing
    BY <1>6 DEF CallbackReturns
  <2>2. StateOf' = StateOf
    BY <1>3, <2>1 DEF StateOf
  <2>3. ~OnceOf[cursor]
    BY <1>2, <1>6 DEF OnceOf, ClosesAtReturn
  <2>4. ASSUME NEW h \in Handle, h = cursor PROVE Service!Return(h)
    BY <2>4, <2>2, <2>3, <1>4 DEF Service!Return, StateOf, OnceOf, BusyOf
  <2> QED BY <1>2, <2>4 DEF Service!Next
<1> QED BY <1>5, <1>6

(* Freeing the head of the closing list is a Free. *)
LEMMA FreeImplements ==
  ASSUME LoopInv, TypeOK', FreeClosing
  PROVE  Service!Next
<1> DEFINE h == heap.head["closing"]
<1>1. TypeOK /\ h \in Handle /\ live[h] /\ closing[h]
  BY FreeMoves DEF LoopInv
<1>2. /\ live' = [live EXCEPT ![h] = FALSE] /\ closing' = [closing EXCEPT ![h] = FALSE]
      /\ UNCHANGED <<cursor, js, kind, repeat>> /\ phase = "closing"
  BY DEF FreeClosing, control, timing
<1>3. BusyOf = NULL /\ BusyOf' = NULL
  BY <1>2 DEF BusyOf, LoopInv, ScriptPhase
<1> HIDE DEF h
<1>4. /\ StateOf[h] = "closed" /\ StateOf' = [StateOf EXCEPT ![h] = "free"]
      /\ OnceOf' = [OnceOf EXCEPT ![h] = FALSE]
  BY <1>1, <1>2 DEF StateOf, OnceOf, TypeOK
<1>5. ASSUME NEW g \in Handle, g = h PROVE Service!Free(g)
  BY <1>5, <1>3, <1>4 DEF Service!Free, StateOf, OnceOf, BusyOf
<1> QED BY <1>1, <1>5 DEF Service!Next

(* A soft reset frees the armed handles. *)
LEMMA CleanupImplements ==
  ASSUME LoopInv, TypeOK', Cleanup, js # "callback", js' # "callback"
  PROVE  Service!Next
<1>1. TypeOK /\ \A h \in Handle : live'[h] <=> live[h] /\ closing[h]
  BY CleanupMoves DEF LoopInv
<1>2. UNCHANGED <<kind, closing, repeat>>
  BY DEF Cleanup, timing
<1>3. /\ BusyOf = NULL /\ BusyOf' = NULL
      /\ StateOf' = [h \in Handle |-> IF StateOf[h] = "armed" THEN "free" ELSE StateOf[h]]
      /\ OnceOf' = [h \in Handle |-> OnceOf[h] /\ StateOf[h] # "armed"]
  BY <1>1, <1>2 DEF StateOf, OnceOf, BusyOf
<1>4. Service!FreeArmed
  BY <1>3 DEF Service!FreeArmed, StateOf, OnceOf, BusyOf
<1> QED BY <1>4 DEF Service!Next

LEMMA ImplementsInit == Init => Service!Init
BY DEF Init, Service!Init

(* Every step of the loop or of a script is one of the service or a stutter. *)
LEMMA ImplementsStep ==
  ASSUME LoopInv, [Next]_vars
  PROVE  [Service!Next]_(Service!svars)
<1>1. ASSUME Next, UNCHANGED <<live, kind, closing, repeat, BusyOf>> PROVE [Service!Next]_(Service!svars)
  BY <1>1, Stutters
<1>2. CASE Next
  <2>0. TypeOK' /\ TypeOK /\ ScriptPhase
    BY <1>2, TypeStep DEF LoopInv
  <2>1. ASSUME Creates PROVE Service!Next
    BY <2>1, StartImplements, LoopAssumption DEF Creates, SetTimer, SetTone, SetWatch, OpenUart, AllKinds
  <2>2. ASSUME NEW h \in Handle, ClearHandle(h) PROVE Service!Next
    <3>1. ListOf(kind[h]) \in List \ {"closing"} /\ "none" \notin List /\ heap \in L!Heap
      BY <2>0, Names DEF TypeOK
    <3>2. Where[h] = ListOf(kind[h])
      BY <2>2, <3>1, LoopAssumption, WalkStays DEF ClearHandle, LoopInv, ListsAgree
    <3>3. live[h] /\ ~closing[h]
      BY <2>0, <3>1, <3>2, WhereTyped
    <3>4. StopAndClose(h) /\ UNCHANGED <<live, kind, repeat, BusyOf>>
      BY <2>2 DEF ClearHandle, control, timing, BusyOf
    <3> QED BY <3>3, <3>4, CloseImplements
  <2>3. ASSUME Returns PROVE Service!Next
    BY <2>3, ReturnImplements DEF Returns
  <2>4. ASSUME Fires PROVE Service!Next
    BY <2>4, CallImplements
       DEF Fires, FireTimer, FireWatch, FireUart, CallBack, Visiting, flags, timing
  <2>5. ASSUME FireTone PROVE Service!Next
    <3>1. cursor \in Handle /\ live[cursor] /\ ~closing[cursor]
      BY <2>5, Standing DEF FireTone, Visiting, LoopInv, FlagsAgree
    <3>2. StopAndClose(cursor) /\ UNCHANGED <<live, kind, repeat, BusyOf>>
      BY <2>5 DEF FireTone, Visiting, BusyOf, timing
    <3> QED BY <3>1, <3>2, CloseImplements
  <2>6. ASSUME FreeClosing PROVE Service!Next
    BY <2>0, <2>6, FreeImplements
  <2>7. ASSUME Reset \/ Load \/ LoadFails PROVE [Service!Next]_(Service!svars)
    <3>1. CASE Cleanup
      BY <2>0, <2>7, <3>1, CleanupImplements DEF Reset, Load, LoadFails, SoftReset
    <3>2. CASE ~Cleanup
      <4>1. UNCHANGED <<live, kind, closing, repeat, BusyOf>>
        BY <2>7, <3>2 DEF Reset, Load, LoadFails, SoftReset, flags, timing, BusyOf
      <4> QED BY <4>1, Stutters
    <3> QED BY <3>1, <3>2
  <2>8. ASSUME \/ StartPass \/ SkipTimer \/ SkipWatch \/ SkipUart \/ EndTimers \/ EndTty
               \/ EndWatches \/ EndUarts \/ EndIdle \/ EndClosing \/ EndCustom \/ CheckStop
               \/ EvalLine \/ RunJobs \/ Poll \/ ScriptReturns
        PROVE  UNCHANGED <<live, kind, closing, repeat, BusyOf>>
    <3>1. UNCHANGED <<live, kind, closing, repeat>>
      BY <2>8 DEF StartPass, SkipTimer, SkipWatch, SkipUart, Skip, EndTimers, EndTty, EndWatches,
         EndUarts, EndIdle, EndClosing, EndCustom, EndOf, CheckStop, EvalLine, RunJobs, Poll,
         RunScript, ScriptReturns, flags, timing
    <3>2. js # "callback" /\ js' # "callback"
      BY <2>0, <2>8 DEF StartPass, SkipTimer, SkipWatch, SkipUart, Skip, Visiting, EndTimers, EndTty,
         EndWatches, EndUarts, EndIdle, EndClosing, EndCustom, EndOf, CheckStop, EvalLine, RunJobs,
         Poll, RunScript, ScriptReturns, ScriptPhase
    <3> QED BY <3>1, <3>2 DEF BusyOf
  <2> QED BY <1>2, <2>1, <2>2, <2>3, <2>4, <2>5, <2>6, <2>7, <2>8, <1>1
          DEF Next, LoopStep, Terminal, Clears
<1>3. CASE UNCHANGED vars
  BY <1>3, Stutters DEF vars, control, flags, timing, BusyOf
<1> QED BY <1>2, <1>3

(* The io loop implements the service scripts rely on: only a handle nobody
   has cleared is called, a timeout at most once, and freed after its close. *)
THEOREM LoopImplementsService == Spec => ImplementsService
<1>1. Init => Service!Init
  BY ImplementsInit
<1>2. LoopInv /\ [Next]_vars => [Service!Next]_(Service!svars)
  BY ImplementsStep
<1> QED BY <1>1, <1>2, Invariance, PTL DEF Spec, Service!Spec, ImplementsService
=============================================================================
