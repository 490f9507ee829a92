------------------------------- MODULE KmList -------------------------------
(***************************************************************************)
(* The intrusive doubly linked lists of src/utils.c, at pointer level.     *)
(*                                                                         *)
(* A "heap" is a record of four functions: the next and prev pointers that *)
(* every node carries in its own header, and the head and tail pointers of *)
(* every list.  A node has ONE pair of pointers however many lists there   *)
(* are, so a node that is appended to a second list, or twice to the same  *)
(* one, silently corrupts the first: keeping that from happening is the    *)
(* job of the callers (module EventLoop).                                  *)
(***************************************************************************)

CONSTANTS
  Node,   (* the nodes (io handles, REPL commands) *)
  List,   (* the lists                             *)
  NULL    (* the null pointer                      *)

Pointer == Node \cup {NULL}

Heap == [next : [Node -> Pointer], prev : [Node -> Pointer],
         head : [List -> Pointer], tail : [List -> Pointer]]

(* km_list_init on every list. *)
EmptyHeap ==
  [next |-> [n \in Node |-> NULL], prev |-> [n \in Node |-> NULL],
   head |-> [l \in List |-> NULL], tail |-> [l \in List |-> NULL]]

(***************************************************************************)
(* km_list_append(&l, n).  The first branch needs both ends to be null; a  *)
(* list with a null head and a dangling tail takes the second one, writes  *)
(* through the tail and leaves the head null.                              *)
(***************************************************************************)
Append(heap, l, n) ==
  LET last == heap.tail[l] IN
  IF heap.head[l] = NULL /\ last = NULL
  THEN [next |-> [heap.next EXCEPT ![n] = NULL],
        prev |-> [heap.prev EXCEPT ![n] = NULL],
        head |-> [heap.head EXCEPT ![l] = n],
        tail |-> [heap.tail EXCEPT ![l] = n]]
  ELSE [next |-> [heap.next EXCEPT ![last] = n, ![n] = NULL],
        prev |-> [heap.prev EXCEPT ![n] = last],
        head |-> heap.head,
        tail |-> [heap.tail EXCEPT ![l] = n]]

(***************************************************************************)
(* km_list_remove(&l, n): the four tests of the code, in its order.  The   *)
(* removed node keeps its own pointers.                                    *)
(***************************************************************************)
Remove(heap, l, n) ==
  LET before == heap.prev[n]
      next1  == IF before # NULL
                THEN [heap.next EXCEPT ![before] = heap.next[n]]
                ELSE heap.next
      after  == next1[n]
  IN [next |-> next1,
      prev |-> IF after # NULL
               THEN [heap.prev EXCEPT ![after] = before]
               ELSE heap.prev,
      head |-> [heap.head EXCEPT ![l] = IF @ = n THEN heap.next[n] ELSE @],
      tail |-> [heap.tail EXCEPT ![l] = IF @ = n THEN before ELSE @]]

(* km_list_init on some lists: their nodes keep the pointers they had. *)
Clear(heap, lists) ==
  [next |-> heap.next,
   prev |-> heap.prev,
   head |-> [l \in List |-> IF l \in lists THEN NULL ELSE heap.head[l]],
   tail |-> [l \in List |-> IF l \in lists THEN NULL ELSE heap.tail[l]]]

(***************************************************************************)
(* The nodes a walk head -> next -> ... of list l meets: the least set     *)
(* that holds the head and is closed under next.                           *)
(***************************************************************************)
Walk(heap, l) ==
  {n \in Node :
     \A S \in SUBSET Node :
       (/\ heap.head[l] \in S \cup {NULL}
        /\ \A m \in S : heap.next[m] \in S \cup {NULL}) => n \in S}

(***************************************************************************)
(* A heap that agrees with where[n], the list (or "none") node n is on:    *)
(* every pointer stays within its list, next and prev are inverse, and a   *)
(* node without a neighbour is the end of its list.  Local to each node,   *)
(* hence preserved by Append and Remove without reasoning about paths.     *)
(***************************************************************************)
HeadsAgree(heap, where) ==
  \A l \in List :
    /\ heap.head[l] = NULL <=> heap.tail[l] = NULL
    /\ heap.head[l] # NULL => /\ where[heap.head[l]] = l
                              /\ heap.prev[heap.head[l]] = NULL
    /\ heap.tail[l] # NULL => /\ where[heap.tail[l]] = l
                              /\ heap.next[heap.tail[l]] = NULL

NodesAgree(heap, where) ==
  \A n \in Node : where[n] # "none" =>
    /\ IF heap.next[n] = NULL
       THEN heap.tail[where[n]] = n
       ELSE /\ where[heap.next[n]] = where[n]
            /\ heap.prev[heap.next[n]] = n
    /\ IF heap.prev[n] = NULL
       THEN heap.head[where[n]] = n
       ELSE /\ where[heap.prev[n]] = where[n]
            /\ heap.next[heap.prev[n]] = n

WellLinked(heap, where) == HeadsAgree(heap, where) /\ NodesAgree(heap, where)

(* No node is lost: the walk of its list meets it. *)
AllReached(heap, where) ==
  \A n \in Node : where[n] # "none" => n \in Walk(heap, where[n])

=============================================================================
