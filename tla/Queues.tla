------------------------------- MODULE Queues -------------------------------
(***************************************************************************)
(* queue.c: the ready, block and free lists, doubly linked through the     *)
(* next and prev fields of the requests.  A store is a record of the three *)
(* heads and the two link functions.                                       *)
(*                                                                         *)
(* EnqueueOneWay and DequeueOneWay are the definitions after them with a   *)
(* fault; nothing uses them.                                               *)
(***************************************************************************)
EXTENDS Integers, Sequences, FiniteSets

CONSTANTS
  Req,    \* the request structures
  NULL    \* the null pointer

ASSUME ReqAssumption == IsFiniteSet(Req) /\ NULL \notin Req

Lists == {"ready", "block", "free"}
Pointer == Req \cup {NULL}
Store == [head : [Lists -> Pointer], next : [Req -> Pointer], prev : [Req -> Pointer]]

EmptyStore ==
  [head |-> [l \in Lists |-> NULL], next |-> [r \in Req |-> NULL],
   prev |-> [r \in Req |-> NULL]]

\* f with f[r] replaced, unless r is the null pointer
Set(f, r, v) == IF r = NULL THEN f ELSE [f EXCEPT ![r] = v]

\* enqueue(&head[l], r): r becomes the head of list l.
EnqueueOneWay(s, l, r) ==
  [head |-> [s.head EXCEPT ![l] = r],
   next |-> [s.next EXCEPT ![r] = s.head[l]],
   prev |-> [s.prev EXCEPT ![r] = NULL]]
enqueue(s, l, r) ==
  [head |-> [s.head EXCEPT ![l] = r],
   next |-> [s.next EXCEPT ![r] = s.head[l]],
   prev |-> [Set(s.prev, s.head[l], r) EXCEPT ![r] = NULL]]

\* dequeue(&head[l], r): r leaves the list it is linked into; the head is
\* only moved on when r is the head of l.
DequeueOneWay(s, l, r) ==
  [head |-> IF s.head[l] = r THEN [s.head EXCEPT ![l] = s.next[r]] ELSE s.head,
   next |-> [Set(s.next, s.prev[r], s.next[r]) EXCEPT ![r] = NULL],
   prev |-> [s.prev EXCEPT ![r] = NULL]]
dequeue(s, l, r) ==
  [head |-> IF s.head[l] = r THEN [s.head EXCEPT ![l] = s.next[r]] ELSE s.head,
   next |-> [Set(s.next, s.prev[r], s.next[r]) EXCEPT ![r] = NULL],
   prev |-> [Set(s.prev, s.next[r], s.prev[r]) EXCEPT ![r] = NULL]]

-----------------------------------------------------------------------------
\* The nodes met by following next from p on: p, next[p], ... up to one step
\* more than there are requests.
Path(s, p) ==
  LET n == Cardinality(Req) + 1
      node[i \in 1..n] == IF i = 1 THEN p
                          ELSE IF node[i - 1] = NULL THEN NULL
                          ELSE s.next[node[i - 1]]
  IN  node

From(s, p) == {Path(s, p)[i] : i \in DOMAIN Path(s, p)} \ {NULL}

\* The list that starts at p ends, and each node but the first knows the one
\* before it.
WellLinked(s, p) ==
  LET node == Path(s, p)
  IN  /\ node[Cardinality(Req) + 1] = NULL
      /\ p # NULL => s.prev[p] = NULL
      /\ \A r \in From(s, p) : s.next[r] # NULL => s.prev[s.next[r]] = r

\* The same from each node's side, when w says which list a request is on:
\* its neighbours are on that list and point back to it, and a node without
\* one before it is the head.
LinkedIn(s, w) ==
  /\ \A l \in Lists : s.head[l] # NULL => w[s.head[l]] = l /\ s.prev[s.head[l]] = NULL
  /\ \A r \in Req : w[r] \in Lists =>
       /\ s.next[r] # NULL => w[s.next[r]] = w[r] /\ s.prev[s.next[r]] = r
       /\ s.prev[r] # NULL => w[s.prev[r]] = w[r] /\ s.next[s.prev[r]] = r
       /\ s.prev[r] = NULL => s.head[w[r]] = r
=============================================================================
