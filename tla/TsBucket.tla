------------------------------ MODULE TsBucket ------------------------------
(***************************************************************************)
(* The list of buffers between the muxer and the segmenter                 *)
(* (src/TsBucket.h), with its pointers.  A bucket is a record: its nodes,  *)
(* by address; first, the node at the front or Null; chain, which points   *)
(* to a pointer, either bucket->first or the next of a node; and the sum   *)
(* of the lengths.  malloc() hands out the lowest free address, and does   *)
(* not fail here.                                                          *)
(*                                                                         *)
(* A definition whose name ends in _Bug is a mutated form of the one after *)
(* it: a plausible mistake that the properties have to notice.             *)
(***************************************************************************)
EXTENDS Integers, FiniteSets

Null == 0

(* What chain points to: &bucket->first, or &node->next of a node. *)
FirstCell == 0

bucket_init ==
  [nodes |-> <<>>, first |-> Null, chain |-> FirstCell, content_length |-> 0]

Cell(b, cell) == IF cell = FirstCell THEN b.first ELSE b.nodes[cell].next

Malloc(b) ==
  CHOOSE n \in 1..(Cardinality(DOMAIN b.nodes) + 1) :
    /\ n \notin DOMAIN b.nodes
    /\ 1..(n - 1) \subseteq DOMAIN b.nodes

(* The new node goes where chain points to; chain follows one node behind. *)
bucket_insert(b, buf, size) ==
  LET cell == IF b.first = Null THEN b.chain ELSE Cell(b, b.chain)
      n == Malloc(b)
      node == [buf |-> buf, size |-> size, next |-> Null]
      linked == IF cell = FirstCell THEN b.nodes ELSE [b.nodes EXCEPT ![cell].next = n]
  IN [nodes |-> [m \in DOMAIN b.nodes \cup {n} |-> IF m = n THEN node ELSE linked[m]],
      first |-> IF cell = FirstCell THEN n ELSE b.first,
      chain |-> cell,
      content_length |-> b.content_length + size]

(* What bucket_retrieve() returns when there is a node. *)
Retrieved(b) == b.nodes[b.first].buf

(* chain is set only when no node is left.  The caller frees the buffer.   *)
bucket_retrieve_Bug(b) ==
  LET gone == b.nodes[b.first]
  IN [b EXCEPT !.nodes = [n \in DOMAIN b.nodes \ {b.first} |-> b.nodes[n]],
               !.first = gone.next,
               !.content_length = @ - gone.size]

bucket_retrieve(b) ==
  LET gone == b.nodes[b.first]
  IN [nodes |-> [n \in DOMAIN b.nodes \ {b.first} |-> b.nodes[n]],
      first |-> gone.next,
      chain |-> IF gone.next = Null THEN FirstCell ELSE b.chain,
      content_length |-> b.content_length - gone.size]

-----------------------------------------------------------------------------
(* The nodes of the list, in its order. *)
Listed(b) ==
  LET next[k \in 1..Cardinality(DOMAIN b.nodes)] ==
        IF k = 1 THEN b.first
        ELSE IF next[k - 1] = Null THEN Null ELSE b.nodes[next[k - 1]].next
  IN next

(* The sum of the lengths of the first k nodes, for every k. *)
Lengths(b) ==
  LET Sum[k \in 0..Cardinality(DOMAIN b.nodes)] ==
        IF k = 0 THEN 0 ELSE Sum[k - 1] + b.nodes[Listed(b)[k]].size
  IN Sum

(* bucket_insert() may be called: chain points to a pointer that is there, *)
(* and that is to the last node if there is one.                           *)
Insertable(b) ==
  /\ b.chain = FirstCell \/ b.chain \in DOMAIN b.nodes
  /\ IF b.first = Null
     THEN b.chain = FirstCell
     ELSE /\ Cell(b, b.chain) \in DOMAIN b.nodes
          /\ b.nodes[Cell(b, b.chain)].next = Null
=============================================================================
