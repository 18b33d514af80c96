-------------------------- MODULE WorkerPoolProofs --------------------------
(***************************************************************************)
(* Proofs about the lists of requests and the worker pool, for any number  *)
(* of structures, descriptors and connections.                             *)
(***************************************************************************)
EXTENDS WorkerPool, SequenceTheorems, FiniteSetTheorems, TLAPS

WhereType == [Req -> Lists \cup {"none"}]

(***************************************************************************)
(* The pointer operations                                                  *)
(***************************************************************************)

\* enqueue keeps the lists linked when the request is on none of them.
LEMMA EnqueueLinked ==
  ASSUME NEW s \in Store, NEW w \in WhereType, NEW l \in Lists, NEW r \in Req,
         LinkedIn(s, w), w[r] = "none"
  PROVE  /\ enqueue(s, l, r) \in Store
         /\ LinkedIn(enqueue(s, l, r), [w EXCEPT ![r] = l])
<1> DEFINE t == enqueue(s, l, r)
<1> DEFINE v == [w EXCEPT ![r] = l]
<1> DEFINE h == s.head[l]
<1>0. NULL \notin Req  BY ReqAssumption
<1>1. h \in Pointer /\ h # r /\ (h # NULL => h \in Req /\ w[h] = l)
  BY <1>0 DEF Store, Pointer, LinkedIn, Lists, WhereType
<1>2. /\ t.head = [s.head EXCEPT ![l] = r]
      /\ t.next = [s.next EXCEPT ![r] = h]
      /\ t.prev = [Set(s.prev, h, r) EXCEPT ![r] = NULL]
  BY DEF enqueue
<1>3. Set(s.prev, h, r) \in [Req -> Pointer]
  BY <1>1 DEF Set, Store, Pointer
<1>4. t \in Store
  BY <1>1, <1>3 DEF enqueue, Store, Pointer
<1>5. \A x \in Req : /\ t.next[x] = IF x = r THEN h ELSE s.next[x]
                     /\ t.prev[x] = IF x = r THEN NULL ELSE IF x = h THEN r ELSE s.prev[x]
                     /\ v[x] = IF x = r THEN l ELSE w[x]
  BY <1>0, <1>1, <1>2 DEF Set, Store, Pointer, WhereType
<1>6. \A k \in Lists : t.head[k] = IF k = l THEN r ELSE s.head[k]
  BY <1>2 DEF Store
<1> HIDE DEF t, v, h
<1>7. \A k \in Lists : t.head[k] # NULL => v[t.head[k]] = k /\ t.prev[t.head[k]] = NULL
  BY <1>0, <1>1, <1>5, <1>6 DEF LinkedIn, Store, Pointer, Lists
<1>8. ASSUME NEW x \in Req, v[x] \in Lists
      PROVE  /\ t.next[x] # NULL => v[t.next[x]] = v[x] /\ t.prev[t.next[x]] = x
             /\ t.prev[x] # NULL => v[t.prev[x]] = v[x] /\ t.next[t.prev[x]] = x
             /\ t.prev[x] = NULL => t.head[v[x]] = x
  <2>1. CASE x = r
    BY <2>1, <1>0, <1>1, <1>5, <1>6
  <2>2. CASE x # r
    <3>1. w[x] \in Lists /\ v[x] = w[x]  BY <2>2, <1>5, <1>8
    <3>2. /\ s.next[x] # NULL => s.next[x] \in Req /\ w[s.next[x]] = w[x] /\ s.prev[s.next[x]] = x
          /\ s.prev[x] # NULL => s.prev[x] \in Req /\ w[s.prev[x]] = w[x] /\ s.next[s.prev[x]] = x
          /\ s.prev[x] = NULL => s.head[w[x]] = x
      BY <3>1 DEF LinkedIn, Store, Pointer
    <3>3. s.next[x] # r /\ s.prev[x] # r
      BY <3>1, <3>2, <1>0 DEF Lists
    <3>4. t.next[x] # NULL => v[t.next[x]] = v[x] /\ t.prev[t.next[x]] = x
      <4>1. s.next[x] # h \/ h = NULL
        BY <3>2, <1>1, <1>0 DEF LinkedIn, h
      <4> QED  BY <4>1, <3>1, <3>2, <3>3, <2>2, <1>0, <1>5
    <3>5. CASE x = h
      <4>1. s.prev[x] = NULL /\ w[x] = l  BY <3>5, <1>0, <1>1 DEF LinkedIn, h
      <4> QED  BY <4>1, <3>1, <3>4, <3>5, <2>2, <1>0, <1>1, <1>5
    <3>6. CASE x # h
      <4>1. s.prev[x] = NULL => w[x] # l
        BY <3>1, <3>2, <3>6 DEF h
      <4> QED  BY <4>1, <3>1, <3>2, <3>3, <3>4, <3>6, <2>2, <1>0, <1>5, <1>6
    <3> QED  BY <3>5, <3>6
  <2> QED  BY <2>1, <2>2
<1> QED  BY <1>4, <1>7, <1>8 DEF LinkedIn, t, v

\* dequeue keeps the lists linked, and the request is on none.
LEMMA DequeueLinked ==
  ASSUME NEW s \in Store, NEW w \in WhereType, NEW l \in Lists, NEW r \in Req,
         LinkedIn(s, w), w[r] = l
  PROVE  /\ dequeue(s, l, r) \in Store
         /\ LinkedIn(dequeue(s, l, r), [w EXCEPT ![r] = "none"])
<1> DEFINE t == dequeue(s, l, r)
<1> DEFINE v == [w EXCEPT ![r] = "none"]
<1> DEFINE p == s.prev[r]
<1> DEFINE n == s.next[r]
<1>0. NULL \notin Req  BY ReqAssumption
<1>1. /\ p \in Pointer /\ n \in Pointer
      /\ n # NULL => n \in Req /\ w[n] = l /\ s.prev[n] = r
      /\ p # NULL => p \in Req /\ w[p] = l /\ s.next[p] = r
      /\ p = NULL => s.head[l] = r
  BY DEF Store, Pointer, LinkedIn
<1>2. s.head[l] = r => p = NULL
  BY <1>0 DEF LinkedIn
<1>3. Set(s.next, p, n) \in [Req -> Pointer] /\ Set(s.prev, n, p) \in [Req -> Pointer]
  BY <1>1 DEF Set, Store, Pointer
<1>4. t \in Store
  BY <1>1, <1>3 DEF dequeue, Store, Pointer
<1>5. \A x \in Req : /\ t.next[x] = IF x = r THEN NULL ELSE IF x = p THEN n ELSE s.next[x]
                     /\ t.prev[x] = IF x = r THEN NULL ELSE IF x = n THEN p ELSE s.prev[x]
                     /\ v[x] = IF x = r THEN "none" ELSE w[x]
  BY <1>0, <1>1 DEF dequeue, Set, Store, Pointer, WhereType
<1>6. \A k \in Lists : t.head[k] = IF k = l /\ s.head[l] = r THEN n ELSE s.head[k]
  BY DEF dequeue, Store
<1> HIDE DEF t, v
<1>7. ASSUME NEW k \in Lists, t.head[k] # NULL
      PROVE  v[t.head[k]] = k /\ t.prev[t.head[k]] = NULL
  <2> DEFINE h == t.head[k]
  <2>1. CASE k = l /\ s.head[l] = r
    <3>1. h = n /\ p = NULL  BY <2>1, <1>2, <1>6
    <3>2. n \in Req /\ w[n] = l  BY <3>1, <1>1, <1>7
    <3> QED  BY <2>1, <3>1, <3>2, <1>0, <1>1, <1>5
  <2>2. CASE ~(k = l /\ s.head[l] = r)
    <3>1. h = s.head[k] /\ h \in Req /\ w[h] = k /\ s.prev[h] = NULL
      BY <2>2, <1>6, <1>7 DEF LinkedIn, Store, Pointer
    <3>2. h # r /\ h # n  BY <2>2, <3>1, <1>0, <1>1
    <3> QED  BY <3>1, <3>2, <1>5
  <2> QED  BY <2>1, <2>2
<1>8. ASSUME NEW x \in Req, v[x] \in Lists
      PROVE  /\ t.next[x] # NULL => v[t.next[x]] = v[x] /\ t.prev[t.next[x]] = x
             /\ t.prev[x] # NULL => v[t.prev[x]] = v[x] /\ t.next[t.prev[x]] = x
             /\ t.prev[x] = NULL => t.head[v[x]] = x
  <2>1. x # r /\ w[x] \in Lists /\ v[x] = w[x]
    BY <1>5, <1>8 DEF Lists
  <2>2. /\ s.next[x] # NULL => s.next[x] \in Req /\ w[s.next[x]] = w[x] /\ s.prev[s.next[x]] = x
        /\ s.prev[x] # NULL => s.prev[x] \in Req /\ w[s.prev[x]] = w[x] /\ s.next[s.prev[x]] = x
        /\ s.prev[x] = NULL => s.head[w[x]] = x
    BY <2>1 DEF LinkedIn, Store, Pointer
  <2>3. t.next[x] # NULL => v[t.next[x]] = v[x] /\ t.prev[t.next[x]] = x
    <3>1. CASE x = p
      <4>1. t.next[x] = n /\ w[x] = l  BY <3>1, <2>1, <1>0, <1>1, <1>5
      <4>2. n # r  BY <3>1, <2>1, <1>1, <1>0
      <4> QED  BY <4>1, <4>2, <3>1, <2>1, <1>0, <1>1, <1>5
    <3>2. CASE x # p
      <4>1. t.next[x] = s.next[x]  BY <3>2, <2>1, <1>5
      <4>2. s.next[x] # NULL => s.next[x] # r /\ s.next[x] # n
        BY <2>1, <2>2, <3>2, <1>0, <1>1
      <4> QED  BY <4>1, <4>2, <2>1, <2>2, <1>5
    <3> QED  BY <3>1, <3>2
  <2>4. /\ t.prev[x] # NULL => v[t.prev[x]] = v[x] /\ t.next[t.prev[x]] = x
        /\ t.prev[x] = NULL => t.head[v[x]] = x
    <3>1. CASE x = n
      <4>1. t.prev[x] = p /\ w[x] = l /\ s.prev[x] = r  BY <3>1, <2>1, <1>0, <1>1, <1>5
      <4>2. p # r  BY <3>1, <2>1, <1>1, <1>0
      <4>3. p # NULL => v[p] = v[x] /\ t.next[p] = x
        BY <4>1, <4>2, <3>1, <2>1, <1>0, <1>1, <1>5
      <4>4. p = NULL => t.head[l] = x
        BY <3>1, <1>1, <1>6
      <4> QED  BY <4>1, <4>3, <4>4, <2>1
    <3>2. CASE x # n
      <4>1. t.prev[x] = s.prev[x]  BY <3>2, <2>1, <1>5
      <4>2. s.prev[x] # NULL => s.prev[x] # r /\ s.prev[x] # p
        BY <2>1, <2>2, <3>2, <1>0, <1>1
      <4>3. s.prev[x] = NULL => t.head[w[x]] = x
        BY <2>1, <2>2, <1>6
      <4> QED  BY <4>1, <4>2, <4>3, <2>1, <2>2, <1>5
    <3> QED  BY <3>1, <3>2
  <2> QED  BY <2>3, <2>4
<1> QED  BY <1>4, <1>7, <1>8 DEF LinkedIn, t, v

\* A request moved from one list to another.
LEMMA MoveLinked ==
  ASSUME NEW s \in Store, NEW w \in WhereType, NEW from \in Lists, NEW to \in Lists,
         NEW r \in Req, LinkedIn(s, w), w[r] = from
  PROVE  /\ MoveTo(s, from, to, r) \in Store
         /\ LinkedIn(MoveTo(s, from, to, r), [w EXCEPT ![r] = to])
<1> DEFINE t == dequeue(s, from, r)
<1> DEFINE v == [w EXCEPT ![r] = "none"]
<1>1. t \in Store /\ LinkedIn(t, v)  BY DequeueLinked
<1>2. v \in WhereType /\ v[r] = "none" /\ [v EXCEPT ![r] = to] = [w EXCEPT ![r] = to]
  BY DEF WhereType
<1> HIDE DEF t, v
<1>3. enqueue(t, to, r) \in Store /\ LinkedIn(enqueue(t, to, r), [v EXCEPT ![r] = to])
  BY <1>1, <1>2, EnqueueLinked
<1> QED  BY <1>2, <1>3 DEF MoveTo, t

\* No list runs in a circle: ranks fall along next.
Acyclic(s, w) ==
  \E rank \in [Req -> Nat] :
    \A r \in Req : w[r] \in Lists /\ s.next[r] # NULL => rank[s.next[r]] < rank[r]

LEMMA EnqueueAcyclic ==
  ASSUME NEW s \in Store, NEW w \in WhereType, NEW l \in Lists, NEW r \in Req,
         LinkedIn(s, w), w[r] = "none", Acyclic(s, w)
  PROVE  Acyclic(enqueue(s, l, r), [w EXCEPT ![r] = l])
<1> DEFINE t == enqueue(s, l, r)
<1> DEFINE v == [w EXCEPT ![r] = l]
<1> DEFINE h == s.head[l]
<1>0. NULL \notin Req  BY ReqAssumption
<1>1. PICK rank \in [Req -> Nat] :
        \A x \in Req : w[x] \in Lists /\ s.next[x] # NULL => rank[s.next[x]] < rank[x]
  BY DEF Acyclic
<1>2. h # NULL => h \in Req /\ h # r
  BY <1>0 DEF Store, Pointer, LinkedIn, Lists
<1> DEFINE more == [rank EXCEPT ![r] = IF h = NULL THEN 0 ELSE rank[h] + 1]
<1>3. more \in [Req -> Nat]  BY <1>2
<1>4. ASSUME NEW x \in Req, v[x] \in Lists, t.next[x] # NULL
      PROVE  more[t.next[x]] < more[x]
  <2>1. CASE x = r
    <3>1. t.next[x] = h  BY <2>1 DEF enqueue, Store
    <3> QED  BY <2>1, <3>1, <1>2, <1>4
  <2>2. CASE x # r
    <3>1. t.next[x] = s.next[x] /\ w[x] \in Lists  BY <2>2, <1>4 DEF enqueue, Store, WhereType
    <3>2. s.next[x] \in Req /\ s.next[x] # r
      BY <3>1, <1>4 DEF LinkedIn, Store, Pointer, Lists
    <3> QED  BY <2>2, <3>1, <3>2, <1>1, <1>4
  <2> QED  BY <2>1, <2>2
<1> QED  BY <1>3, <1>4 DEF Acyclic

LEMMA DequeueAcyclic ==
  ASSUME NEW s \in Store, NEW w \in WhereType, NEW l \in Lists, NEW r \in Req,
         LinkedIn(s, w), w[r] = l, Acyclic(s, w)
  PROVE  Acyclic(dequeue(s, l, r), [w EXCEPT ![r] = "none"])
<1> DEFINE t == dequeue(s, l, r)
<1> DEFINE v == [w EXCEPT ![r] = "none"]
<1> DEFINE p == s.prev[r]
<1> DEFINE n == s.next[r]
<1>0. NULL \notin Req  BY ReqAssumption
<1>1. PICK rank \in [Req -> Nat] :
        \A x \in Req : w[x] \in Lists /\ s.next[x] # NULL => rank[s.next[x]] < rank[x]
  BY DEF Acyclic
<1>2. /\ n # NULL => n \in Req
      /\ p # NULL => p \in Req /\ w[p] = l /\ s.next[p] = r
  BY DEF Store, Pointer, LinkedIn
<1>3. ASSUME NEW x \in Req, v[x] \in Lists, t.next[x] # NULL
      PROVE  rank[t.next[x]] < rank[x]
  <2>1. x # r /\ w[x] \in Lists  BY <1>3 DEF WhereType, Lists
  <2>2. CASE x = p
    <3>1. t.next[x] = n  BY <2>1, <2>2, <1>0, <1>2 DEF dequeue, Set, Store, Pointer
    <3>2. rank[r] < rank[x]  BY <2>1, <2>2, <1>0, <1>1, <1>2
    <3>3. rank[n] < rank[r]  BY <3>1, <1>1, <1>3
    <3> QED  BY <3>1, <3>2, <3>3, <1>2, <1>3
  <2>3. CASE x # p
    <3>1. t.next[x] = s.next[x]  BY <2>1, <2>3, <1>0, <1>2 DEF dequeue, Set, Store, Pointer
    <3> QED  BY <2>1, <3>1, <1>1, <1>3
  <2> QED  BY <2>2, <2>3
<1> QED  BY <1>1, <1>3 DEF Acyclic

LEMMA MoveAcyclic ==
  ASSUME NEW s \in Store, NEW w \in WhereType, NEW from \in Lists, NEW to \in Lists,
         NEW r \in Req, LinkedIn(s, w), w[r] = from, Acyclic(s, w)
  PROVE  Acyclic(MoveTo(s, from, to, r), [w EXCEPT ![r] = to])
<1> DEFINE t == dequeue(s, from, r)
<1> DEFINE v == [w EXCEPT ![r] = "none"]
<1>1. t \in Store /\ LinkedIn(t, v) /\ Acyclic(t, v)  BY DequeueLinked, DequeueAcyclic
<1>2. v \in WhereType /\ v[r] = "none" /\ [v EXCEPT ![r] = to] = [w EXCEPT ![r] = to]
  BY DEF WhereType
<1> HIDE DEF t, v
<1>3. Acyclic(enqueue(t, to, r), [v EXCEPT ![r] = to])
  BY <1>1, <1>2, EnqueueAcyclic
<1> QED  BY <1>2, <1>3 DEF MoveTo, t

\* The next request of a walk is another one, on the same list.
LEMMA NextOnList ==
  ASSUME NEW s \in Store, NEW w \in WhereType, NEW r \in Req,
         LinkedIn(s, w), Acyclic(s, w), w[r] \in Lists, s.next[r] # NULL
  PROVE  s.next[r] \in Req /\ s.next[r] # r /\ w[s.next[r]] = w[r]
<1>1. PICK rank \in [Req -> Nat] :
        \A x \in Req : w[x] \in Lists /\ s.next[x] # NULL => rank[s.next[x]] < rank[x]
  BY DEF Acyclic
<1>2. rank[s.next[r]] < rank[r]  BY <1>1
<1> QED  BY <1>2 DEF LinkedIn, Store, Pointer

(***************************************************************************)
(* The lists and the two walks                                             *)
(***************************************************************************)

\* The request a walk is at is on the list it walks.
CurrentOnList ==
  /\ pc = "update" => current \in Req /\ where[current] = "block"
  /\ pc \in {"handle", "accept", "move"} => current \in Req /\ where[current] = "ready"

ServedHasConn == \A r \in Served : rq[r].conn # 0

ListInv == TypeOK /\ Linked /\ Acyclic(ptr, where) /\ CurrentOnList /\ ServedHasConn

\* A request's status is set and nothing else.
LEMMA StatusSet ==
  ASSUME NEW f \in [Req -> Request], NEW r \in Req, NEW st \in Status
  PROVE  LET g == [f EXCEPT ![r].status = st]
         IN  /\ g \in [Req -> Request]
             /\ \A x \in Req \ {r} : g[x] = f[x]
             /\ g[r].status = st /\ g[r].buff = f[r].buff /\ g[r].win = f[r].win
             /\ \A x \in Req : g[x].conn = f[x].conn /\ g[x].fd = f[x].fd
<1> DEFINE q == [f[r] EXCEPT !.status = st]
<1>1. f[r] \in Request  OBVIOUS
<1>2. q \in Request /\ q.status = st /\ q.buff = f[r].buff /\ q.win = f[r].win
        /\ q.conn = f[r].conn /\ q.fd = f[r].fd
  BY <1>1 DEF Request
<1>3. [f EXCEPT ![r].status = st] = [f EXCEPT ![r] = q]  OBVIOUS
<1> HIDE DEF q
<1> QED  BY <1>2, <1>3

LEMMA InitListInv == Init => ListInv
<1> SUFFICES ASSUME Init PROVE ListInv  OBVIOUS
<1>0. NULL \notin Req  BY ReqAssumption
<1>1. ptr \in Store  BY DEF Init, EmptyStore, Store, Pointer
<1>2. rq \in [Req -> Request]
  <2>1. <<>> \in Seq(Conn)  OBVIOUS
  <2> QED  BY <2>1 DEF Init, Request, Status
<1>3. TypeOK  BY <1>1, <1>2, PoolAssumption DEF Init, TypeOK, Pointer
<1>4. \A r \in Req : where[r] = "none"  BY DEF Init
<1>5. Linked  BY <1>4 DEF Init, Linked, LinkedIn, EmptyStore, Lists
<1>6. Acyclic(ptr, where)
  <2>1. [r \in Req |-> 0] \in [Req -> Nat]  OBVIOUS
  <2> QED  BY <2>1, <1>4 DEF Acyclic, Lists
<1>7. CurrentOnList /\ ServedHasConn
  BY <1>4 DEF Init, CurrentOnList, ServedHasConn, Served, On
<1> QED  BY <1>3, <1>5, <1>6, <1>7 DEF ListInv

LEMMA SighupListInv == ListInv /\ sighup_run => ListInv'
<1> SUFFICES ASSUME ListInv, sighup_run PROVE ListInv'  OBVIOUS
<1> USE DEF ListInv
<1>0. NULL \notin Req  BY ReqAssumption
<1>1. ptr \in Store /\ where \in WhereType  BY DEF TypeOK, WhereType
<1>2. /\ ptr' \in Store /\ ptr'.next = ptr.next /\ ptr'.prev = ptr.prev
      /\ \A l \in Lists : ptr'.head[l] = IF l = "free" THEN NULL ELSE ptr.head[l]
  BY <1>1 DEF sighup_run, Store, Pointer, Lists
<1>3. /\ where' \in WhereType
      /\ \A r \in Req : where'[r] = IF where[r] = "free" THEN "none" ELSE where[r]
  BY <1>1 DEF sighup_run, WhereType
<1>4. Linked'
  <2>1. \A l \in Lists : ptr'.head[l] # NULL =>
          where'[ptr'.head[l]] = l /\ ptr'.prev[ptr'.head[l]] = NULL
    BY <1>0, <1>1, <1>2, <1>3 DEF Linked, LinkedIn, Store, Pointer
  <2>2. ASSUME NEW r \in Req, where'[r] \in Lists
        PROVE  /\ ptr'.next[r] # NULL => where'[ptr'.next[r]] = where'[r] /\ ptr'.prev[ptr'.next[r]] = r
               /\ ptr'.prev[r] # NULL => where'[ptr'.prev[r]] = where'[r] /\ ptr'.next[ptr'.prev[r]] = r
               /\ ptr'.prev[r] = NULL => ptr'.head[where'[r]] = r
    <3>1. where'[r] = where[r] /\ where[r] # "free"  BY <2>2, <1>3 DEF Lists
    <3> QED  BY <2>2, <3>1, <1>1, <1>2, <1>3 DEF Linked, LinkedIn, Store, Pointer
  <2> QED  BY <2>1, <2>2 DEF Linked, LinkedIn
<1>5. Acyclic(ptr, where)'
  <2>1. \A r \in Req : where'[r] \in Lists => where[r] \in Lists  BY <1>3 DEF Lists
  <2> QED  BY <2>1, <1>2 DEF Acyclic
<1>6. TypeOK'  BY <1>2, <1>3 DEF sighup_run, TypeOK, WhereType
<1>7. CurrentOnList'  BY DEF sighup_run, CurrentOnList
<1>8. ServedHasConn'
  <2>1. \A r \in Req : where'[r] \in {"ready", "block"} => where[r] = where'[r]  BY <1>3
  <2> QED  BY <2>1 DEF sighup_run, ServedHasConn, Served, On
<1> QED  BY <1>4, <1>5, <1>6, <1>7, <1>8

LEMMA SelectListInv == ListInv /\ Select => ListInv'
<1> SUFFICES ASSUME ListInv, Select PROVE ListInv'  OBVIOUS
<1>1. UNCHANGED <<ptr, where, rq, jobs, lost, accepted, rv>>  BY DEF Select
<1>2. TypeOK'
  BY <1>1 DEF ListInv, Select, TypeOK, Store, On, Pointer, Lists
<1>3. CurrentOnList'
  BY <1>1 DEF ListInv, Select, CurrentOnList, TypeOK, Linked, LinkedIn, Store, Pointer, Lists
<1>4. Linked' /\ Acyclic(ptr, where)' /\ ServedHasConn'
  BY <1>1 DEF ListInv, Linked, LinkedIn, Acyclic, ServedHasConn, Served, On
<1> QED  BY <1>2, <1>3, <1>4 DEF ListInv

LEMMA ProcessListInv == ListInv /\ process_requests => ListInv'
<1> SUFFICES ASSUME ListInv, process_requests PROVE ListInv'  OBVIOUS
<1>1. UNCHANGED <<ptr, where, rq, jobs, lost, accepted, rv>>  BY DEF process_requests
<1>2. TypeOK'
  BY <1>1 DEF ListInv, process_requests, TypeOK, Store, On, Pointer, Lists
<1>3. CurrentOnList'
  BY <1>1 DEF ListInv, process_requests, CurrentOnList, TypeOK, Linked, LinkedIn, Store, Pointer, Lists
<1>4. Linked' /\ Acyclic(ptr, where)' /\ ServedHasConn'
  BY <1>1 DEF ListInv, Linked, LinkedIn, Acyclic, ServedHasConn, Served, On
<1> QED  BY <1>2, <1>3, <1>4 DEF ListInv

LEMMA UpdateListInv == ListInv /\ fdset_update => ListInv'
<1> SUFFICES ASSUME ListInv, fdset_update PROVE ListInv'  OBVIOUS
<1> DEFINE next == ptr.next[current]
<1>0. /\ ptr \in Store /\ where \in WhereType /\ rq \in [Req -> Request]
      /\ current \in Req /\ where[current] = "block"
      /\ LinkedIn(ptr, where) /\ Acyclic(ptr, where)
  BY DEF ListInv, TypeOK, WhereType, fdset_update, CurrentOnList, Linked
<1>1. next \in Pointer  BY <1>0 DEF Store
<1>2. next # NULL => next \in Req /\ next # current /\ where[next] = "block"
  BY <1>0, NextOnList DEF Lists
<1>3. /\ ptr' \in Store /\ where' \in WhereType
      /\ LinkedIn(ptr', where') /\ Acyclic(ptr', where')
      /\ \A r \in Req \ {current} : where'[r] = where[r]
      /\ where'[current] \in {"block", "ready"}
  <2>1. CASE UNCHANGED <<ptr, where>>  BY <2>1, <1>0
  <2>2. CASE /\ ptr' = MoveTo(ptr, "block", "ready", current)
             /\ where' = [where EXCEPT ![current] = "ready"]
    <3>1. LinkedIn(ptr', where') /\ ptr' \in Store /\ Acyclic(ptr', where')
      BY <2>2, <1>0, MoveLinked, MoveAcyclic DEF Lists
    <3> QED  BY <2>2, <3>1, <1>0 DEF WhereType, Lists
  <2> QED  BY <2>1, <2>2 DEF fdset_update
<1>4. /\ rq' \in [Req -> Request]
      /\ \A r \in Req : rq'[r].conn = rq[r].conn
  <2>1. CASE UNCHANGED rq  BY <2>1, <1>0
  <2>2. CASE rq' = [rq EXCEPT ![current].status = "TIMED_OUT"]
    <3>1. "TIMED_OUT" \in Status  BY DEF Status
    <3> QED  BY <2>2, <3>1, <1>0, StatusSet
  <2> QED  BY <2>1, <2>2 DEF fdset_update
<1>5. TypeOK'
  BY <1>1, <1>3, <1>4 DEF ListInv, TypeOK, fdset_update, WhereType
<1>6. CurrentOnList'
  BY <1>2, <1>3 DEF fdset_update, CurrentOnList
<1>7. ServedHasConn'
  BY <1>0, <1>3, <1>4 DEF ListInv, ServedHasConn, Served, On
<1> QED  BY <1>3, <1>5, <1>6, <1>7 DEF ListInv, Linked

\* cgi_work_resp appends to one request's output and makes it readable.
LEMMA RespSet ==
  ASSUME NEW f \in [Req -> Request], NEW r \in Req, NEW c \in Conn, NEW n \in Nat
  PROVE  LET g == cgi_work_resp(f, r, c, n)
         IN  /\ g \in [Req -> Request]
             /\ \A x \in Req \ {r} : g[x] = f[x]
             /\ g[r].status = "BUFF_READ" /\ g[r].win = 0
             /\ g[r].buff = f[r].buff \o [i \in 1..n |-> c]
             /\ \A x \in Req : g[x].conn = f[x].conn /\ g[x].fd = f[x].fd
<1> DEFINE b == f[r].buff \o [i \in 1..n |-> c]
<1> DEFINE q == [f[r] EXCEPT !.buff = b, !.status = "BUFF_READ", !.cgi = "BUFFER", !.win = 0]
<1>1. f[r] \in Request  OBVIOUS
<1>2. b \in Seq(Conn)
  <2>1. f[r].buff \in Seq(Conn)  BY <1>1 DEF Request
  <2>2. [i \in 1..n |-> c] \in Seq(Conn)  OBVIOUS
  <2> QED  BY <2>1, <2>2, ConcatProperties
<1>3. cgi_work_resp(f, r, c, n) = [f EXCEPT ![r] = q]
  BY DEF cgi_work_resp
<1> HIDE DEF b
<1>4. q \in Request /\ q.status = "BUFF_READ" /\ q.win = 0 /\ q.buff = b
        /\ q.conn = f[r].conn /\ q.fd = f[r].fd
  BY <1>1, <1>2 DEF Request, Status
<1> HIDE DEF q
<1> QED  BY <1>3, <1>4 DEF b

\* What every handler leaves alone, and the types of what it changes.
HandlerEffect ==
  /\ pc = "handle" /\ pc' = "accept"
  /\ UNCHANGED <<ptr, where, accepted, current, todo>>
  /\ rv' \in {-1, 0, 1, 2}
  /\ rq' \in [Req -> Request]
  /\ \A r \in Req : rq'[r].conn = rq[r].conn /\ rq'[r].fd = rq[r].fd
  /\ jobs' \subseteq Job /\ lost' \subseteq Conn

LEMMA PolledEffect ==
  ASSUME NEW f \in [Req -> Request], current \in Req
  PROVE  /\ Polled(f) \in [Req -> Request]
         /\ \A x \in Req : Polled(f)[x].conn = f[x].conn /\ Polled(f)[x].fd = f[x].fd
<1>1. "BUFF_READ" \in Status  BY DEF Status
<1> QED  BY <1>1, StatusSet DEF Polled

LEMMA PollEffect == ListInv /\ poll_from_shbuff => HandlerEffect
<1> SUFFICES ASSUME ListInv, poll_from_shbuff PROVE HandlerEffect  OBVIOUS
<1>1. rq \in [Req -> Request] /\ jobs \subseteq Job /\ lost \subseteq Conn  BY DEF ListInv, TypeOK
<1>2. ASSUME Handled("BUFF_POLL", 1)
      PROVE  /\ pc = "handle" /\ pc' = "accept" /\ rv' = 1 /\ current \in Req
             /\ UNCHANGED <<ptr, where, accepted, current, todo>>
  BY <1>2 DEF Handled, ListInv, CurrentOnList
<1>3. CASE PollNothing
  <2>1. Handled("BUFF_POLL", 1) /\ rq' = Polled(rq) /\ UNCHANGED <<jobs, lost>>
    BY <1>3 DEF PollNothing
  <2> QED  BY <2>1, <1>1, <1>2, PolledEffect DEF HandlerEffect
<1>4. ASSUME NEW j \in jobs, PollFailure(j)  PROVE HandlerEffect
  <2>1. Handled("BUFF_POLL", 1) /\ rq' = Polled(rq) /\ jobs' = jobs \ {j}
          /\ lost' = lost \cup {j.conn}
    BY <1>4 DEF PollFailure
  <2>2. j.conn \in Conn  BY <1>1 DEF Job
  <2> QED  BY <2>1, <2>2, <1>1, <1>2, PolledEffect DEF HandlerEffect
<1>5. ASSUME NEW j \in jobs, PollAnswer(j)  PROVE HandlerEffect
  <2>1. Handled("BUFF_POLL", 1) /\ jobs' = jobs \ {j} /\ UNCHANGED lost
    BY <1>5 DEF PollAnswer
  <2>2. PICK n \in 0..MaxChunks, r \in find_request_by_fd(j.fd) :
          rq' = Polled(IF r = NULL THEN rq ELSE cgi_work_resp(rq, r, j.conn, n))
    BY <1>5 DEF PollAnswer
  <2>3. j.conn \in Conn /\ n \in Nat  BY <1>1, PoolAssumption DEF Job
  <2>4. r = NULL \/ r \in Req  BY DEF find_request_by_fd, On
  <2> DEFINE f == IF r = NULL THEN rq ELSE cgi_work_resp(rq, r, j.conn, n)
  <2>5. f \in [Req -> Request] /\ \A x \in Req : f[x].conn = rq[x].conn /\ f[x].fd = rq[x].fd
    <3>1. CASE r = NULL  BY <3>1, <1>1
    <3>2. CASE r # NULL
      <4>1. f = cgi_work_resp(rq, r, j.conn, n) /\ r \in Req  BY <3>2, <2>4
      <4> HIDE DEF f
      <4> QED  BY <4>1, <2>3, <1>1, RespSet
    <3> QED  BY <3>1, <3>2
  <2> HIDE DEF f
  <2> QED  BY <2>1, <2>2, <2>5, <1>1, <1>2, PolledEffect DEF HandlerEffect, f
<1> QED  BY <1>3, <1>4, <1>5 DEF poll_from_shbuff

LEMMA WriteWindowEffect ==
  ASSUME ListInv, NEW st, NEW q \in Request, WriteWindow(st, q), UNCHANGED <<jobs, lost>>,
         current \in Req => q.conn = rq[current].conn /\ q.fd = rq[current].fd
  PROVE  HandlerEffect
<1>1. /\ rq \in [Req -> Request] /\ jobs \subseteq Job /\ lost \subseteq Conn
      /\ jobs' \subseteq Job /\ lost' \subseteq Conn
  BY DEF ListInv, TypeOK
<1>2. /\ pc = "handle" /\ pc' = "accept" /\ rv' \in {-1, 0, 1, 2} /\ current \in Req
      /\ UNCHANGED <<ptr, where, accepted, current, todo>>
  BY DEF WriteWindow, Handled, ListInv, CurrentOnList
<1>3. \E p \in Request : /\ rq' = [rq EXCEPT ![current] = p]
                         /\ p.conn = rq[current].conn /\ p.fd = rq[current].fd
  <2>1. /\ [q EXCEPT !.status = "BUFF_READ", !.win = 0] \in Request
        /\ [q EXCEPT !.status = "DEAD"] \in Request
        /\ [q EXCEPT !.status = "BUFF_READ", !.win = 0].conn = q.conn
        /\ [q EXCEPT !.status = "BUFF_READ", !.win = 0].fd = q.fd
        /\ [q EXCEPT !.status = "DEAD"].conn = q.conn
        /\ [q EXCEPT !.status = "DEAD"].fd = q.fd
    BY DEF Request, Status
  <2> QED  BY <2>1, <1>2 DEF WriteWindow
<1>4. PICK p \in Request : /\ rq' = [rq EXCEPT ![current] = p]
                          /\ p.conn = rq[current].conn /\ p.fd = rq[current].fd
  BY <1>3
<1> QED  BY <1>1, <1>2, <1>4 DEF HandlerEffect

\* Reading what another connection left takes all of it into the window.
LEMMA LeftoverRead ==
  ASSUME NEW q \in Request, ReadLeftover(q)
  PROVE  \E p \in Request, v \in {0, 1} :
           /\ Handled("BUFF_READ", v) /\ rq' = [rq EXCEPT ![current] = p]
           /\ p.conn = q.conn /\ p.fd = q.fd /\ p.buff = <<>>
           /\ p.win = IF q.buff = <<>> THEN q.win ELSE Head(q.buff)
           /\ p.status \in {q.status, "BUFF_READ", "BUFF_WRITE", "DONE"}
<1> DEFINE w == IF q.buff = <<>> THEN q.win ELSE Head(q.buff)
<1> DEFINE p == [q EXCEPT !.win = w, !.buff = <<>>]
<1> DEFINE st == IF q.buff = <<>> THEN "BUFF_WRITE" ELSE "BUFF_READ"
<1>1. w \in Conn \cup {0}
  <2>1. q.buff \in Seq(Conn) /\ q.win \in Conn \cup {0}  BY DEF Request
  <2> QED  BY <2>1, HeadTailProperties
<1>2. <<>> \in Seq(Conn)  OBVIOUS
<1>3. \/ Handled("BUFF_READ", 1) /\ rq' = [rq EXCEPT ![current] = p]
      \/ \E s \in {st, "DONE"}, v \in {0, 1} :
           /\ Handled("BUFF_READ", v)
           /\ rq' = [rq EXCEPT ![current] = [p EXCEPT !.status = s, !.cgi = "DONE"]]
  BY DEF ReadLeftover
<1> HIDE DEF w
<1>4. /\ p \in Request /\ p.conn = q.conn /\ p.fd = q.fd /\ p.buff = <<>>
      /\ p.win = w /\ p.status = q.status
  BY <1>1, <1>2 DEF Request
<1> HIDE DEF p
<1>5. ASSUME NEW s \in {st, "DONE"}
      PROVE  LET z == [p EXCEPT !.status = s, !.cgi = "DONE"]
             IN  /\ z \in Request /\ z.conn = p.conn /\ z.fd = p.fd /\ z.buff = p.buff
                 /\ z.win = p.win /\ z.status \in {"BUFF_READ", "BUFF_WRITE", "DONE"}
  BY <1>4 DEF Request, Status
<1>6. CASE Handled("BUFF_READ", 1) /\ rq' = [rq EXCEPT ![current] = p]
  BY <1>4, <1>6 DEF w
<1>7. CASE \E s \in {st, "DONE"}, v \in {0, 1} :
           /\ Handled("BUFF_READ", v)
           /\ rq' = [rq EXCEPT ![current] = [p EXCEPT !.status = s, !.cgi = "DONE"]]
  <2>1. PICK s \in {st, "DONE"}, v \in {0, 1} :
           /\ Handled("BUFF_READ", v)
           /\ rq' = [rq EXCEPT ![current] = [p EXCEPT !.status = s, !.cgi = "DONE"]]
    BY <1>7
  <2> QED  BY <1>4, <1>5, <2>1 DEF w
<1> QED  BY <1>3, <1>6, <1>7

LEMMA ReadWriteEffect == ListInv /\ (read_from_shbuff \/ write_from_shbuff) => HandlerEffect
<1> SUFFICES ASSUME ListInv, read_from_shbuff \/ write_from_shbuff PROVE HandlerEffect
  OBVIOUS
<1> DEFINE q == rq[current]
<1>1. /\ rq \in [Req -> Request] /\ jobs' \subseteq Job /\ lost' \subseteq Conn
      /\ UNCHANGED <<jobs, lost>>
  BY DEF ListInv, TypeOK, read_from_shbuff, write_from_shbuff
<1>2. current \in Req /\ q \in Request
  BY <1>1 DEF read_from_shbuff, write_from_shbuff, ListInv, CurrentOnList
<1>3. ASSUME NEW st, NEW v \in {0, 1}, Handled(st, v)
      PROVE  /\ pc = "handle" /\ pc' = "accept" /\ rv' \in {-1, 0, 1, 2}
             /\ UNCHANGED <<ptr, where, accepted, current, todo>>
  BY <1>3 DEF Handled
<1>4. CASE /\ q.win = 0 /\ q.buff # <<>>
           /\ WriteWindow("BUFF_READ", [q EXCEPT !.win = Head(q.buff), !.buff = Tail(q.buff)])
  <2> DEFINE p == [q EXCEPT !.win = Head(q.buff), !.buff = Tail(q.buff)]
  <2>1. q.buff \in Seq(Conn)  BY <1>2 DEF Request
  <2>2. Head(q.buff) \in Conn /\ Tail(q.buff) \in Seq(Conn)
    BY <1>4, <2>1, HeadTailProperties
  <2>3. p \in Request /\ p.conn = q.conn /\ p.fd = q.fd
    BY <1>2, <2>2 DEF Request
  <2> HIDE DEF p
  <2> QED  BY <1>1, <1>4, <2>3, WriteWindowEffect DEF p
<1>5. ASSUME NEW v \in {0, 1}, Handled("BUFF_READ", v),
             NEW p \in Request, p.conn = q.conn, p.fd = q.fd,
             rq' = [rq EXCEPT ![current] = p]
      PROVE  HandlerEffect
  BY <1>1, <1>2, <1>3, <1>5 DEF HandlerEffect
<1>9. CASE Handled("BUFF_READ", 1) /\ ReadAnswer(q) /\ ~(q.win = 0 /\ q.buff # <<>>)
  <2>1. PICK end \in BOOLEAN :
             rq' = [rq EXCEPT ![current] =
                      [q EXCEPT !.status = "BUFF_WRITE", !.cgi = IF end THEN "DONE" ELSE @]]
    BY <1>9 DEF ReadAnswer
  <2> DEFINE p == [q EXCEPT !.status = "BUFF_WRITE", !.cgi = IF end THEN "DONE" ELSE @]
  <2>2. p \in Request /\ p.conn = q.conn /\ p.fd = q.fd  BY <1>2 DEF Request, Status
  <2> HIDE DEF p
  <2> QED  BY <1>5, <1>9, <2>1, <2>2 DEF p
<1>10. CASE ReadLeftover(q)
  <2>1. PICK p \in Request, v \in {0, 1} :
             /\ Handled("BUFF_READ", v) /\ rq' = [rq EXCEPT ![current] = p]
             /\ p.conn = q.conn /\ p.fd = q.fd
    BY <1>2, <1>10, LeftoverRead
  <2> QED  BY <1>5, <2>1
<1>6. CASE q.win # 0 /\ WriteWindow("BUFF_WRITE", q)
  BY <1>1, <1>2, <1>6, WriteWindowEffect
<1>7. CASE Handled("BUFF_WRITE", 0) /\ UNCHANGED rq
  BY <1>1, <1>3, <1>7 DEF HandlerEffect
<1>8. CASE Handled("BUFF_WRITE", 1) /\ rq' = [rq EXCEPT ![current].status = "BUFF_READ"]
  <2>1. "BUFF_READ" \in Status  BY DEF Status
  <2> QED  BY <2>1, <1>1, <1>2, <1>3, <1>8, StatusSet DEF HandlerEffect
<1> QED  BY <1>4, <1>6, <1>7, <1>8, <1>9, <1>10 DEF read_from_shbuff, ReadAnswer, write_from_shbuff

LEMMA HandlerTypes == ListInv /\ Handler => HandlerEffect
<1> SUFFICES ASSUME ListInv, Handler PROVE HandlerEffect  OBVIOUS
<1>1. rq \in [Req -> Request] /\ jobs \subseteq Job /\ lost \subseteq Conn  BY DEF ListInv, TypeOK
<1>2. CASE OtherHandler
  BY <1>1, <1>2 DEF OtherHandler, Handled, HandlerEffect
<1>3. CASE init_work_cgi
  <2>1. current \in Req /\ current \in Served
    BY <1>3 DEF init_work_cgi, Handled, ListInv, CurrentOnList, Served, On
  <2>2. rq[current] \in Request /\ rq[current].conn # 0
    BY <1>1, <2>1 DEF ListInv, ServedHasConn
  <2>3. [fd |-> rq[current].fd, conn |-> rq[current].conn] \in Job
    BY <2>2 DEF Request, Job
  <2>4. "BUFF_POLL" \in Status  BY DEF Status
  <2>5. rq' = [rq EXCEPT ![current].status = "BUFF_POLL"]  BY <1>3 DEF init_work_cgi
  <2>6. rq' \in [Req -> Request] /\ \A r \in Req : rq'[r].conn = rq[r].conn /\ rq'[r].fd = rq[r].fd
    BY <2>1, <2>4, <2>5, <1>1, StatusSet
  <2> QED  BY <2>3, <2>6, <1>1, <1>3 DEF init_work_cgi, Handled, HandlerEffect
<1>4. CASE poll_from_shbuff  BY <1>4, PollEffect
<1>5. CASE read_from_shbuff \/ write_from_shbuff  BY <1>5, ReadWriteEffect
<1>6. CASE Closing  BY <1>1, <1>6 DEF Closing, Handled, HandlerEffect
<1> QED  BY <1>2, <1>3, <1>4, <1>5, <1>6 DEF Handler

LEMMA HandlerListInv == ListInv /\ Handler => ListInv'
<1> SUFFICES ASSUME ListInv, Handler PROVE ListInv'  OBVIOUS
<1>1. HandlerEffect  BY HandlerTypes
<1>2. TypeOK'  BY <1>1 DEF HandlerEffect, ListInv, TypeOK
<1>3. Linked' /\ Acyclic(ptr, where)'
  BY <1>1 DEF HandlerEffect, ListInv, Linked, LinkedIn, Acyclic
<1>4. CurrentOnList'  BY <1>1 DEF HandlerEffect, ListInv, CurrentOnList
<1>5. ServedHasConn'  BY <1>1 DEF HandlerEffect, ListInv, ServedHasConn, Served, On
<1> QED  BY <1>2, <1>3, <1>4, <1>5 DEF ListInv

LEMMA OnwardListInv ==
  ASSUME ListInv, Onward, pc \in {"accept", "move"},
         ptr' \in Store, where' \in WhereType, LinkedIn(ptr', where'), Acyclic(ptr', where'),
         rq' \in [Req -> Request],
         \A r \in Req \ {current} : where'[r] = where[r] /\ rq'[r].conn = rq[r].conn,
         where'[current] \in {"ready", "block"} => rq'[current].conn = rq[current].conn
  PROVE  ListInv'
<1>1. /\ ptr \in Store /\ where \in WhereType /\ current \in Req /\ where[current] = "ready"
      /\ LinkedIn(ptr, where) /\ Acyclic(ptr, where)
  BY DEF ListInv, TypeOK, WhereType, CurrentOnList, Linked
<1>2. current' \in Pointer
  BY <1>1 DEF Onward, NextOne, Store
<1>3. current' # NULL => current' \in Req /\ current' # current /\ where[current'] = "ready"
  BY <1>1, NextOnList DEF Onward, NextOne, Lists
<1>4. TypeOK'  BY <1>2 DEF ListInv, TypeOK, Onward, WhereType
<1>5. CurrentOnList'  BY <1>3 DEF Onward, CurrentOnList
<1>6. ServedHasConn'
  BY <1>1 DEF ListInv, ServedHasConn, Served, On
<1> QED  BY <1>4, <1>5, <1>6 DEF ListInv, Linked

LEMMA MoveOnListInv == ListInv /\ MoveOn => ListInv'
<1> SUFFICES ASSUME ListInv, MoveOn PROVE ListInv'  OBVIOUS
<1>0. Onward /\ pc \in {"accept", "move"}
  BY DEF MoveOn, block_request, free_request, MoreToDo, UnknownRetval, Returned
<1>1. /\ ptr \in Store /\ where \in WhereType /\ current \in Req /\ where[current] = "ready"
      /\ LinkedIn(ptr, where) /\ Acyclic(ptr, where) /\ rq \in [Req -> Request]
  BY <1>0 DEF ListInv, TypeOK, WhereType, CurrentOnList, Linked
<1>2. ASSUME NEW to \in {"block", "free"}, MoveCurrent(to)
      PROVE  /\ ptr' \in Store /\ where' \in WhereType /\ LinkedIn(ptr', where')
             /\ Acyclic(ptr', where') /\ where'[current] = to
             /\ \A r \in Req \ {current} : where'[r] = where[r]
  <2>1. to \in Lists /\ "ready" \in Lists  BY DEF Lists
  <2>2. ptr' = MoveTo(ptr, "ready", to, current) /\ where' = [where EXCEPT ![current] = to]
    BY <1>2 DEF MoveCurrent
  <2>3. ptr' \in Store /\ LinkedIn(ptr', where') /\ Acyclic(ptr', where')
    BY <2>1, <2>2, <1>1, MoveLinked, MoveAcyclic
  <2> QED  BY <2>1, <2>2, <2>3, <1>1 DEF WhereType
<1>3. CASE MoveCurrent("block") /\ UNCHANGED rq
  BY <1>0, <1>1, <1>2, <1>3, OnwardListInv
<1>4. CASE MoveCurrent("free") /\ rq' = [rq EXCEPT ![current].conn = 0]
  <2> DEFINE q == [rq[current] EXCEPT !.conn = 0]
  <2>1. rq' = [rq EXCEPT ![current] = q]  BY <1>1, <1>4
  <2>2. q \in Request
    <3>1. rq[current] \in Request  BY <1>1
    <3> QED  BY <3>1 DEF Request
  <2> HIDE DEF q
  <2>3. rq' \in [Req -> Request] /\ \A r \in Req \ {current} : rq'[r] = rq[r]
    BY <2>1, <2>2, <1>1
  <2> QED  BY <2>3, <1>0, <1>1, <1>2, <1>4, OnwardListInv
<1>5. CASE UNCHANGED <<ptr, where, rq>>
  BY <1>0, <1>1, <1>5, OnwardListInv
<1>6. CASE UNCHANGED <<ptr, where>> /\ rq' = [rq EXCEPT ![current].status = "DEAD"]
  <2>1. "DEAD" \in Status  BY DEF Status
  <2>2. rq' \in [Req -> Request] /\ \A r \in Req : rq'[r].conn = rq[r].conn
    BY <2>1, <1>1, <1>6, StatusSet
  <2> QED  BY <2>2, <1>0, <1>1, <1>6, OnwardListInv
<1> QED  BY <1>3, <1>4, <1>5, <1>6
         DEF MoveOn, block_request, free_request, MoreToDo, UnknownRetval

\* What get_request does, whichever structure it takes: r was in no list or
\* on the free list, and s is the store without it.
LEMMA GetRequestPicks ==
  ASSUME ListInv, get_request
  PROVE  \E fd \in Fds, to \in {"ready", "free"}, r \in Req, old \in Request, s \in Store :
           /\ Accepts(fd) /\ where[r] \in {"none", "free"}
           /\ old \in {rq[r], [rq[r] EXCEPT !.buff = <<>>]}
           /\ LinkedIn(s, [where EXCEPT ![r] = "none"])
           /\ Acyclic(s, [where EXCEPT ![r] = "none"])
           /\ Admit(s, r, fd, old, to)
<1>1. /\ ptr \in Store /\ where \in WhereType /\ rq \in [Req -> Request]
      /\ LinkedIn(ptr, where) /\ Acyclic(ptr, where)
  BY DEF ListInv, TypeOK, WhereType, Linked
<1> DEFINE h == ptr.head["free"]
<1> DEFINE m == CHOOSE x \in On("none") : TRUE
<1>2. PICK fd \in Fds, to \in {"ready", "free"} :
        /\ Accepts(fd)
        /\ \/ h # NULL /\ Admit(dequeue(ptr, "free", h), h, fd, rq[h], to)
           \/ /\ h = NULL /\ On("none") # {}
              /\ \E old \in {rq[m], [rq[m] EXCEPT !.buff = <<>>]} : Admit(ptr, m, fd, old, to)
  BY DEF get_request
<1>3. CASE h # NULL /\ Admit(dequeue(ptr, "free", h), h, fd, rq[h], to)
  <2>1. "free" \in Lists  BY DEF Lists
  <2>2. h \in Req /\ where[h] = "free"
    BY <2>1, <1>1, <1>3 DEF LinkedIn, Store, Pointer
  <2> DEFINE s == dequeue(ptr, "free", h)
  <2>3. /\ s \in Store /\ LinkedIn(s, [where EXCEPT ![h] = "none"])
        /\ Acyclic(s, [where EXCEPT ![h] = "none"])
    BY <2>1, <2>2, <1>1, DequeueLinked, DequeueAcyclic
  <2>4. rq[h] \in Request  BY <2>2, <1>1
  <2>5. Admit(s, h, fd, rq[h], to)  BY <1>3
  <2> HIDE DEF s, h
  <2> QED  BY <2>2, <2>3, <2>4, <2>5, <1>2
<1>4. CASE /\ h = NULL /\ On("none") # {}
           /\ \E old \in {rq[m], [rq[m] EXCEPT !.buff = <<>>]} : Admit(ptr, m, fd, old, to)
  <2>1. m \in Req /\ where[m] = "none"  BY <1>4 DEF On
  <2> HIDE DEF m
  <2>2. PICK old \in {rq[m], [rq[m] EXCEPT !.buff = <<>>]} : Admit(ptr, m, fd, old, to)
    BY <1>4
  <2>3. [rq[m] EXCEPT !.buff = <<>>] \in Request /\ rq[m] \in Request
    <3>1. rq[m] \in Request  BY <2>1, <1>1
    <3>2. <<>> \in Seq(Conn)  OBVIOUS
    <3> QED  BY <3>1, <3>2 DEF Request
  <2>4. [where EXCEPT ![m] = "none"] = where  BY <2>1, <1>1 DEF WhereType
  <2> QED  BY <2>1, <2>2, <2>3, <2>4, <1>1, <1>2
<1> QED  BY <1>2, <1>3, <1>4

LEMMA GetRequestListInv == ListInv /\ get_request => ListInv'
<1> SUFFICES ASSUME ListInv, get_request PROVE ListInv'  OBVIOUS
<1>1. PICK fd \in Fds, to \in {"ready", "free"}, r \in Req, old \in Request, s \in Store :
           /\ Accepts(fd) /\ where[r] \in {"none", "free"}
           /\ old \in {rq[r], [rq[r] EXCEPT !.buff = <<>>]}
           /\ LinkedIn(s, [where EXCEPT ![r] = "none"])
           /\ Acyclic(s, [where EXCEPT ![r] = "none"])
           /\ Admit(s, r, fd, old, to)
  BY GetRequestPicks
<1>2. /\ where \in WhereType /\ rq \in [Req -> Request] /\ accepted < MaxConns
      /\ accepted \in 0..MaxConns /\ pc \in {"pending", "accept"}
      /\ pc' = IF pc = "pending" THEN "begin" ELSE "move"
      /\ UNCHANGED <<jobs, lost, current, rv, todo>>
  BY DEF ListInv, TypeOK, WhereType, get_request
<1> DEFINE v == [where EXCEPT ![r] = "none"]
<1>3. v \in WhereType /\ v[r] = "none" /\ [v EXCEPT ![r] = to] = [where EXCEPT ![r] = to]
  BY <1>2 DEF WhereType
<1>4. to \in Lists  BY DEF Lists
<1>5. ptr' = enqueue(s, to, r) /\ where' = [where EXCEPT ![r] = to] /\ accepted' = accepted + 1
  BY <1>1 DEF Admit
<1> HIDE DEF v
<1>6. ptr' \in Store /\ LinkedIn(ptr', where') /\ Acyclic(ptr', where')
  BY <1>1, <1>3, <1>4, <1>5, EnqueueLinked, EnqueueAcyclic DEF v
<1>7. where' \in WhereType /\ where'[r] = to /\ \A x \in Req \ {r} : where'[x] = where[x]
  BY <1>2, <1>4, <1>5 DEF WhereType
<1> DEFINE c == IF to = "ready" THEN accepted + 1 ELSE 0
<1> DEFINE q == [sanitize_request(old) EXCEPT !.fd = fd, !.conn = c]
<1>8. accepted' \in 0..MaxConns /\ c \in Conn \cup {0} /\ (to = "ready" => c # 0)
  BY <1>2, <1>5, PoolAssumption DEF Conn
<1>9. rq' = [rq EXCEPT ![r] = q]  BY <1>1 DEF Admit
<1> HIDE DEF c
<1>10. q \in Request /\ q.conn = c
  BY <1>1, <1>8 DEF sanitize_request, Request, Status
<1> HIDE DEF q
<1>11. rq' \in [Req -> Request] /\ rq'[r].conn = c /\ \A x \in Req \ {r} : rq'[x] = rq[x]
  BY <1>2, <1>9, <1>10
<1>12. TypeOK'
  BY <1>2, <1>6, <1>7, <1>8, <1>11 DEF ListInv, TypeOK, WhereType
<1>13. CurrentOnList'
  <2>1. pc = "accept" => current \in Req /\ current # r
    BY <1>1 DEF ListInv, CurrentOnList
  <2> QED  BY <2>1, <1>2, <1>7 DEF ListInv, CurrentOnList
<1>14. ServedHasConn'
  BY <1>7, <1>8, <1>11 DEF ListInv, ServedHasConn, Served, On
<1> QED  BY <1>6, <1>12, <1>13, <1>14 DEF ListInv, Linked

LEMMA NextListInv == ListInv /\ [Next]_vars => ListInv'
<1> SUFFICES ASSUME ListInv, [Next]_vars PROVE ListInv'  OBVIOUS
<1>1. CASE Next
  BY <1>1, SighupListInv, SelectListInv, UpdateListInv, ProcessListInv, GetRequestListInv,
     HandlerListInv, MoveOnListInv DEF Next, LoopStep
<1>2. CASE UNCHANGED vars
  BY <1>2 DEF vars, ListInv, TypeOK, Linked, LinkedIn, Acyclic, CurrentOnList, ServedHasConn,
              Served, On
<1> QED  BY <1>1, <1>2

(***************************************************************************)
(* The lists are linked and acyclic, and both walks stay on their list, in *)
(* every reachable state.                                                  *)
(***************************************************************************)
THEOREM ListsCorrect == Spec => []ListInv
<1> QED  BY InitListInv, NextListInv, PTL DEF Spec

(***************************************************************************)
(* TypeOK holds in every reachable state, whatever workers, clients and    *)
(* signals do.                                                             *)
(***************************************************************************)
THEOREM TypeCorrect == Spec => []TypeOK
<1>1. ListInv => TypeOK  BY DEF ListInv
<1> QED  BY <1>1, ListsCorrect, PTL

(***************************************************************************)
(* The lists stay linked both ways, with each request on its own list      *)
(* (enqueue, dequeue as block_request, ready_request, new_request and      *)
(* free_request use them).                                                 *)
(***************************************************************************)
THEOREM LinkedCorrect == Spec => []Linked
<1>1. ListInv => Linked  BY DEF ListInv
<1> QED  BY <1>1, ListsCorrect, PTL

(***************************************************************************)
(* What the lists hold.  From(s, p) is found by following next, so facts   *)
(* about it need induction along the path.  It is done with sets: a set of *)
(* natural numbers has a least element because strict inclusion of finite  *)
(* sets is well founded.                                                   *)
(***************************************************************************)

\* The least-number principle.
LEMMA LeastNatural ==
  ASSUME NEW S \in SUBSET Nat, S # {}
  PROVE  \E m \in S : \A k \in S : m <= k
<1> DEFINE R == StrictSubsetOrdering(Nat)
           F == FiniteSubsetsOf(Nat)
           T == {1..n : n \in S}
<1>1. IsWellFoundedOn(R, F)
  BY FS_StrictSubsetOrderingWellFounded
<1>2. ASSUME NEW n \in S PROVE 1..n \in F
  <2>1. IsFiniteSet(1..n)
    BY FS_Interval
  <2>2. 1..n \subseteq Nat
    OBVIOUS
  <2> QED
    BY <2>1, <2>2 DEF FiniteSubsetsOf
<1>3. T \subseteq F /\ T # {}
  BY <1>2
<1> HIDE DEF R, F, T
<1>4. PICK x \in T : \A y \in T : ~(<<y, x>> \in R)
  BY <1>1, <1>3, WFMin
<1>5. PICK m \in S : x = 1..m
  BY DEF T
<1>6. ASSUME NEW k \in S, ~(m <= k) PROVE FALSE
  <2>1. 1..k \in T /\ k < m /\ k \in Nat /\ m \in Nat
    BY <1>6 DEF T
  <2>2. 1..k \subseteq 1..m /\ m \in 1..m /\ m \notin 1..k
    BY <2>1
  <2>3. <<1..k, 1..m>> \in R
    <3>1. 1..k \in SUBSET Nat /\ 1..m \in SUBSET Nat /\ 1..k # 1..m
      BY <2>1, <2>2
    <3> QED
      BY <2>2, <3>1 DEF R, StrictSubsetOrdering
  <2> QED
    BY <1>4, <1>5, <2>1, <2>3
<1> QED
  BY <1>6

\* Induction up to a bound, for a set.
LEMMA IntervalInduction ==
  ASSUME NEW n \in Nat, NEW S, 1 \in S, \A i \in 1..n : i \in S /\ i < n => i + 1 \in S
  PROVE  1..n \subseteq S
<1> DEFINE bad == {i \in 1..n : i \notin S}
<1>1. CASE bad = {}
  BY <1>1
<1>2. CASE bad # {}
  <2>1. bad \in SUBSET Nat
    OBVIOUS
  <2> HIDE DEF bad
  <2>2. PICK m \in bad : \A k \in bad : m <= k
    BY <1>2, <2>1, LeastNatural
  <2>3. m \in 1..n /\ m \notin S
    BY DEF bad
  <2>4. m # 1
    BY <2>3
  <2>5. m - 1 \in 1..n /\ m - 1 < n /\ ~(m <= m - 1)
    BY <2>3, <2>4
  <2>6. m - 1 \in S
    BY <2>2, <2>5 DEF bad
  <2>7. (m - 1) + 1 \in S
    BY <2>5, <2>6
  <2> QED
    BY <2>3, <2>7
<1> QED
  BY <1>1, <1>2

\* One step along next.
Step(s, x) == IF x = NULL THEN NULL ELSE s.next[x]

Follows(s, p, n, f) ==
  f = [i \in 1..n |-> IF i = 1 THEN p
                      ELSE IF f[i - 1] = NULL THEN NULL ELSE s.next[f[i - 1]]]

LEMMA PathExists ==
  ASSUME NEW s, NEW p, NEW n \in Nat
  PROVE  \E f : Follows(s, p, n, f)
<1> DEFINE S == {k \in Nat : \E f : Follows(s, p, k, f)}
<1>1. 1 \in S
  <2> DEFINE f == [i \in 1..1 |-> p]
  <2>1. \A i \in 1..1 : i = 1
    OBVIOUS
  <2>2. Follows(s, p, 1, f)
    BY <2>1 DEF Follows
  <2> QED
    BY <2>2
<1>2. ASSUME NEW k \in Nat, k \in S, k > 0 PROVE k + 1 \in S
  <2>1. PICK f : Follows(s, p, k, f)
    BY <1>2
  <2> DEFINE g == [i \in 1..(k + 1) |-> IF i = k + 1 THEN Step(s, f[k]) ELSE f[i]]
  <2>2. \A i \in 1..(k + 1) : i = k + 1 \/ i \in 1..k
    OBVIOUS
  <2>3. \A i \in 1..k : g[i] = f[i] /\ i \in 1..(k + 1)
    OBVIOUS
  <2>4. \A i \in 1..k : i # 1 => i - 1 \in 1..k
    OBVIOUS
  <2>5. k \in 1..k /\ k + 1 # 1 /\ (k + 1) - 1 = k /\ k + 1 \in 1..(k + 1)
    BY <1>2
  <2>6. g[k + 1] = Step(s, g[k])
    BY <2>3, <2>5
  <2>7. \A i \in 1..k : g[i] = IF i = 1 THEN p
                      ELSE IF g[i - 1] = NULL THEN NULL ELSE s.next[g[i - 1]]
    BY <2>1, <2>3, <2>4 DEF Follows
  <2>8. g = [i \in 1..(k + 1) |-> g[i]]
    OBVIOUS
  <2> HIDE DEF g
  <2>9. \A i \in 1..(k + 1) : g[i] = IF i = 1 THEN p
                      ELSE IF g[i - 1] = NULL THEN NULL ELSE s.next[g[i - 1]]
    BY <2>2, <2>5, <2>6, <2>7 DEF Step
  <2>10. Follows(s, p, k + 1, g)
    BY <2>8, <2>9 DEF Follows
  <2> QED
    BY <2>10
<1>3. CASE n = 0
  <2> DEFINE f == [i \in 1..0 |-> p]
  <2>1. Follows(s, p, 0, f)
    BY DEF Follows
  <2> QED
    BY <1>3, <2>1
<1>4. CASE n # 0
  <2> HIDE DEF S
  <2>1. 1..n \subseteq S
    <3>1. \A i \in 1..n : i \in S /\ i < n => i + 1 \in S
      BY <1>2
    <3> QED
      BY <1>1, <3>1, IntervalInduction
  <2>2. n \in 1..n
    BY <1>4
  <2> QED
    BY <2>1, <2>2 DEF S
<1> QED
  BY <1>3, <1>4

LEMMA PathFollows ==
  ASSUME NEW s, NEW p
  PROVE  Follows(s, p, Cardinality(Req) + 1, Path(s, p))
<1> DEFINE n == Cardinality(Req) + 1
<1>1. n \in Nat
  BY ReqAssumption, FS_CardinalityType
<1>2. \E f : Follows(s, p, n, f)
  BY <1>1, PathExists
<1>3. Path(s, p) = CHOOSE f : Follows(s, p, n, f)
  BY Zenon DEF Path, Follows
<1> HIDE DEF n
<1>4. Follows(s, p, n, Path(s, p))
  BY <1>2, <1>3, Zenon
<1> QED
  BY <1>4 DEF n

\* What the path from p is made of.
LEMMA PathSteps ==
  ASSUME NEW s, NEW p
  PROVE  LET n == Cardinality(Req) + 1
         IN  /\ n \in Nat /\ n >= 1 /\ DOMAIN Path(s, p) = 1..n
             /\ Path(s, p)[1] = p
             /\ \A i \in 1..n : i < n => /\ i + 1 \in 1..n
                                         /\ Path(s, p)[i + 1] = Step(s, Path(s, p)[i])
<1> DEFINE n == Cardinality(Req) + 1
           node == Path(s, p)
<1>1. n \in Nat /\ n >= 1
  BY ReqAssumption, FS_CardinalityType
<1>2. Follows(s, p, n, node)
  BY PathFollows
<1> HIDE DEF n, node
<1>3. DOMAIN node = 1..n /\ 1 \in 1..n
  BY <1>1, <1>2 DEF Follows
<1>4. \A i \in 1..n : node[i] = IF i = 1 THEN p
                      ELSE IF node[i - 1] = NULL THEN NULL ELSE s.next[node[i - 1]]
  BY <1>2 DEF Follows
<1>5. ASSUME NEW i \in 1..n, i < n
      PROVE  i + 1 \in 1..n /\ node[i + 1] = Step(s, node[i])
  <2>1. i + 1 \in 1..n /\ i + 1 # 1 /\ (i + 1) - 1 = i
    BY <1>1, <1>5
  <2>2. node[i + 1] = IF node[(i + 1) - 1] = NULL THEN NULL ELSE s.next[node[(i + 1) - 1]]
    BY <1>4, <2>1
  <2> QED
    BY <2>1, <2>2 DEF Step
<1> QED
  BY <1>1, <1>3, <1>4, <1>5 DEF n, node

\* A path along a list stays on it and ends.
LEMMA PathOnList ==
  ASSUME NEW s \in Store, NEW w \in WhereType, LinkedIn(s, w), Acyclic(s, w),
         NEW p \in Req, w[p] \in Lists
  PROVE  LET n == Cardinality(Req) + 1
         IN  /\ \A i \in 1..n : Path(s, p)[i] = NULL
                                \/ (Path(s, p)[i] \in Req /\ w[Path(s, p)[i]] = w[p])
             /\ Path(s, p)[n] = NULL
<1> DEFINE n == Cardinality(Req) + 1
           node == Path(s, p)
           On1(x) == x = NULL \/ (x \in Req /\ w[x] = w[p])
<1>0. NULL \notin Req /\ IsFiniteSet(Req) /\ Cardinality(Req) \in Nat
  BY ReqAssumption, FS_CardinalityType
<1>1. /\ n \in Nat /\ n >= 1 /\ node[1] = p
      /\ \A i \in 1..n : i < n => i + 1 \in 1..n /\ node[i + 1] = Step(s, node[i])
  BY PathSteps
<1>2. PICK rank \in [Req -> Nat] :
        \A r \in Req : w[r] \in Lists /\ s.next[r] # NULL => rank[s.next[r]] < rank[r]
  BY DEF Acyclic
<1>3. ASSUME NEW x, On1(x)
      PROVE  /\ On1(Step(s, x))
             /\ Step(s, x) # NULL => x # NULL /\ rank[Step(s, x)] < rank[x]
  BY <1>2, <1>3 DEF Step, LinkedIn, Store, Pointer
<1> HIDE DEF n, node, On1
<1>4. \A i \in 1..n : On1(node[i])
  <2> DEFINE S == {i \in 1..n : On1(node[i])}
  <2>1. 1 \in S
    BY <1>1 DEF On1
  <2>2. \A i \in 1..n : i \in S /\ i < n => i + 1 \in S
    BY <1>1, <1>3
  <2> HIDE DEF S
  <2>3. 1..n \subseteq S
    BY <1>1, <2>1, <2>2, IntervalInduction
  <2> QED
    BY <2>3 DEF S
<1> DEFINE Falls(i, j) == node[j] # NULL => node[i] # NULL /\ rank[node[j]] < rank[node[i]]
<1>5. \A i, j \in 1..n : i < j => Falls(i, j)
  <2> DEFINE S == {j \in 1..n : \A i \in 1..n : i < j => Falls(i, j)}
  <2>1. 1 \in S
    BY <1>1
  <2>2. ASSUME NEW j \in 1..n, j \in S, j < n PROVE j + 1 \in S
    <3>1. j + 1 \in 1..n /\ node[j + 1] = Step(s, node[j]) /\ On1(node[j])
      BY <1>1, <1>4, <2>2
    <3>2. node[j + 1] # NULL => node[j] # NULL /\ rank[node[j + 1]] < rank[node[j]]
      BY <1>3, <3>1
    <3>3. On1(node[j + 1])
      BY <1>3, <3>1
    <3>4. ASSUME NEW i \in 1..n, i < j + 1, node[j + 1] # NULL
          PROVE  node[i] # NULL /\ rank[node[j + 1]] < rank[node[i]]
      <4>1. i = j \/ i < j
        BY <3>4
      <4>2. CASE i = j
        BY <3>2, <3>4, <4>2
      <4>3. CASE i < j
        <5>1. node[j] # NULL /\ node[i] # NULL /\ rank[node[j]] < rank[node[i]]
          BY <2>2, <3>2, <3>4, <4>3
        <5>2. node[i] \in Req /\ node[j] \in Req /\ node[j + 1] \in Req
          BY <1>4, <3>3, <3>4, <5>1 DEF On1
        <5>3. rank[node[i]] \in Nat /\ rank[node[j]] \in Nat /\ rank[node[j + 1]] \in Nat
          BY <5>2
        <5>4. rank[node[j + 1]] < rank[node[j]]
          BY <3>2, <3>4
        <5> QED
          BY <5>1, <5>3, <5>4
      <4> QED
        BY <4>1, <4>2, <4>3
    <3> QED
      BY <3>1, <3>4
  <2> HIDE DEF S, Falls
  <2>3. 1..n \subseteq S
    BY <1>1, <2>1, <2>2, IntervalInduction
  <2> QED
    BY <2>3 DEF S
<1>6. ASSUME node[n] # NULL PROVE FALSE
  <2>0. n \in 1..n
    BY <1>1
  <2>1. \A i \in 1..n : node[i] \in Req
    <3>1. ASSUME NEW i \in 1..n PROVE node[i] # NULL
      <4>1. i = n \/ i < n
        BY <1>1
      <4> QED
        BY <1>5, <1>6, <2>0, <4>1
    <3> QED
      BY <1>4, <3>1 DEF On1
  <2> DEFINE f == [i \in 1..n |-> node[i]]
  <2>2. f \in [1..n -> Req]
    BY <2>1
  <2>3. IsFiniteSet(1..n) /\ Cardinality(1..n) = n
    BY <1>1, FS_Interval
  <2>4. Cardinality(Req) < n
    BY <1>0 DEF n
  <2> HIDE DEF f
  <2>5. PICK x, y \in 1..n : x # y /\ f[x] = f[y]
    <3>1. Cardinality(Req) < Cardinality(1..n)
      BY <2>3, <2>4
    <3> QED
      BY <1>0, <2>2, <2>3, <3>1, FS_PigeonHole
  <2>6. node[x] = node[y] /\ node[x] \in Req /\ rank[node[x]] \in Nat
    BY <2>1, <2>5 DEF f
  <2>7. x < y \/ y < x
    BY <2>5
  <2>8. rank[node[x]] < rank[node[y]] \/ rank[node[y]] < rank[node[x]]
    BY <1>0, <1>5, <2>1, <2>7
  <2> QED
    BY <2>6, <2>8
<1> QED
  BY <1>4, <1>6 DEF n, node, On1


\* The nodes met from p on are the least set that holds p and is closed
\* under next.
LEMMA FromLeast ==
  ASSUME NEW s, NEW p, NEW C, p \in C \cup {NULL},
         \A x \in C : x # NULL => s.next[x] \in C \cup {NULL}
  PROVE  From(s, p) \subseteq C
<1> DEFINE n == Cardinality(Req) + 1
           node == Path(s, p)
           S == {i \in 1..n : node[i] \in C \cup {NULL}}
<1>1. /\ n \in Nat /\ n >= 1 /\ node[1] = p /\ DOMAIN node = 1..n
      /\ \A i \in 1..n : i < n => i + 1 \in 1..n /\ node[i + 1] = Step(s, node[i])
  BY PathSteps
<1>2. From(s, p) = {node[i] : i \in DOMAIN node} \ {NULL}
  BY DEF From
<1> HIDE DEF n, node
<1>3. 1 \in S
  BY <1>1
<1>4. \A i \in 1..n : i \in S /\ i < n => i + 1 \in S
  BY <1>1 DEF Step
<1> HIDE DEF S
<1>5. 1..n \subseteq S
  BY <1>1, <1>3, <1>4, IntervalInduction
<1>6. \A i \in 1..n : node[i] \in C \cup {NULL}
  BY <1>5 DEF S
<1> QED
  BY <1>1, <1>2, <1>6

LEMMA FromClosed ==
  ASSUME NEW s \in Store, NEW w \in WhereType, LinkedIn(s, w), Acyclic(s, w),
         NEW p \in Req, w[p] \in Lists
  PROVE  /\ p \in From(s, p)
         /\ From(s, p) \subseteq Req
         /\ \A x \in From(s, p) : w[x] = w[p]
         /\ \A x \in From(s, p) : s.next[x] # NULL => s.next[x] \in From(s, p)
<1> DEFINE n == Cardinality(Req) + 1
           node == Path(s, p)
<1>0. NULL \notin Req
  BY ReqAssumption
<1>1. /\ n \in Nat /\ n >= 1 /\ node[1] = p /\ DOMAIN node = 1..n
      /\ \A i \in 1..n : i < n => i + 1 \in 1..n /\ node[i + 1] = Step(s, node[i])
  BY PathSteps
<1>2. /\ \A i \in 1..n : node[i] = NULL \/ (node[i] \in Req /\ w[node[i]] = w[p])
      /\ node[n] = NULL
  BY PathOnList
<1>3. From(s, p) = {node[i] : i \in DOMAIN node} \ {NULL}
  BY DEF From
<1> HIDE DEF n, node
<1>4. p \in From(s, p)
  BY <1>0, <1>1, <1>3
<1>5. From(s, p) \subseteq Req /\ \A x \in From(s, p) : w[x] = w[p]
  BY <1>1, <1>2, <1>3
<1>6. ASSUME NEW x \in From(s, p), s.next[x] # NULL PROVE s.next[x] \in From(s, p)
  <2>1. PICK i \in 1..n : x = node[i] /\ x # NULL
    BY <1>1, <1>3
  <2>2. i < n
    BY <1>1, <1>2, <2>1
  <2>3. i + 1 \in 1..n /\ node[i + 1] = s.next[x]
    BY <1>1, <2>1, <2>2 DEF Step
  <2> QED
    BY <1>1, <1>3, <1>6, <2>3
<1> QED
  BY <1>4, <1>5, <1>6

LEMMA FromNull == ASSUME NEW s PROVE From(s, NULL) = {}
<1> DEFINE C == {}
<1>0. NULL \in C \cup {NULL} /\ \A x \in C : x # NULL => s.next[x] \in C \cup {NULL}
  OBVIOUS
<1> HIDE DEF C
<1>1. From(s, NULL) \subseteq C
  BY <1>0, FromLeast
<1> QED
  BY <1>1 DEF C

\* Walking on: the rest of the list is what follows, without the node left.
LEMMA FromNext ==
  ASSUME NEW s \in Store, NEW w \in WhereType, LinkedIn(s, w), Acyclic(s, w),
         NEW p \in Req, w[p] \in Lists
  PROVE  /\ From(s, s.next[p]) = From(s, p) \ {p}
         /\ s.prev[p] \notin From(s, s.next[p])
<1>0. NULL \notin Req
  BY ReqAssumption
<1>1. PICK rank \in [Req -> Nat] :
        \A r \in Req : w[r] \in Lists /\ s.next[r] # NULL => rank[s.next[r]] < rank[r]
  BY DEF Acyclic
<1> DEFINE q == s.next[p]
           C == {x \in Req : w[x] = w[p] /\ rank[x] < rank[p]}
<1>2. q \in Pointer
  BY DEF Store
<1>3. From(s, q) \subseteq C
  <2>1. q \in C \cup {NULL}
    BY <1>1, <1>2 DEF Pointer, LinkedIn
  <2>2. \A x \in C : s.next[x] \in C \cup {NULL}
    <3>1. ASSUME NEW x \in C, s.next[x] # NULL PROVE s.next[x] \in C
      <4>1. s.next[x] \in Req /\ w[s.next[x]] = w[p] /\ rank[s.next[x]] < rank[x]
        BY <1>1, <3>1 DEF Store, Pointer, LinkedIn
      <4>2. rank[s.next[x]] \in Nat /\ rank[x] \in Nat /\ rank[p] \in Nat /\ rank[x] < rank[p]
        BY <4>1
      <4> QED
        BY <4>1, <4>2
    <3> QED
      BY <3>1
  <2> HIDE DEF C, q
  <2> QED
    BY <2>1, <2>2, FromLeast
<1>4. p \notin From(s, q)
  BY <1>3
<1>5. s.prev[p] \notin From(s, q)
  <2>1. s.prev[p] \in Req => rank[p] < rank[s.prev[p]]
    BY <1>0, <1>1 DEF LinkedIn
  <2>2. s.prev[p] \in Req => rank[p] \in Nat /\ rank[s.prev[p]] \in Nat
    OBVIOUS
  <2> QED
    BY <1>3, <2>1, <2>2
<1>6. /\ p \in From(s, p)
      /\ \A x \in From(s, p) : s.next[x] # NULL => s.next[x] \in From(s, p)
  BY FromClosed
<1>7. From(s, q) \subseteq From(s, p)
  BY <1>6, FromLeast
<1>8. From(s, p) \subseteq {p} \cup From(s, q)
  <2>1. \A x \in From(s, q) : s.next[x] # NULL => s.next[x] \in From(s, q)
    <3>1. CASE q = NULL
      BY <3>1, FromNull
    <3>2. CASE q # NULL
      <4>1. q \in Req /\ w[q] \in Lists
        BY <1>2, <3>2 DEF Pointer, LinkedIn
      <4> QED
        BY <4>1, FromClosed
    <3> QED
      BY <3>1, <3>2
  <2>2. q # NULL => q \in From(s, q)
    <3>1. q # NULL => q \in Req /\ w[q] \in Lists
      BY <1>2 DEF Pointer, LinkedIn
    <3> QED
      BY <3>1, FromClosed
  <2> DEFINE D == {p} \cup From(s, q)
  <2>3. p \in D \cup {NULL} /\ \A x \in D : x # NULL => s.next[x] \in D \cup {NULL}
    BY <2>1, <2>2
  <2> HIDE DEF D, q
  <2>4. From(s, p) \subseteq D
    BY <2>3, FromLeast
  <2> QED
    BY <2>4 DEF D, q
<1> QED
  BY <1>4, <1>5, <1>6, <1>7, <1>8

\* What follows p does not change when the links of those nodes do not.
LEMMA FromFrame ==
  ASSUME NEW s \in Store, NEW w \in WhereType, LinkedIn(s, w), Acyclic(s, w),
         NEW t \in Store, NEW v \in WhereType, LinkedIn(t, v), Acyclic(t, v),
         NEW p \in Pointer, p # NULL => w[p] \in Lists /\ v[p] \in Lists,
         \A x \in From(s, p) : t.next[x] = s.next[x]
  PROVE  From(t, p) = From(s, p)
<1>1. CASE p = NULL
  BY <1>1, FromNull
<1>2. CASE p # NULL
  <2>0. p \in Req
    BY <1>2 DEF Pointer
  <2>1. /\ p \in From(s, p)
        /\ \A x \in From(s, p) : s.next[x] # NULL => s.next[x] \in From(s, p)
    BY <1>2, <2>0, FromClosed
  <2>2. /\ p \in From(t, p)
        /\ \A x \in From(t, p) : t.next[x] # NULL => t.next[x] \in From(t, p)
    BY <1>2, <2>0, FromClosed
  <2>3. From(t, p) \subseteq From(s, p)
    BY <2>1, FromLeast
  <2> DEFINE D == From(s, p) \cap From(t, p)
  <2>4. p \in D \cup {NULL} /\ \A x \in D : x # NULL => s.next[x] \in D \cup {NULL}
    BY <2>1, <2>2
  <2> HIDE DEF D
  <2>5. From(s, p) \subseteq D
    BY <2>4, FromLeast
  <2> QED
    BY <2>3, <2>5 DEF D
<1> QED
  BY <1>1, <1>2


\* Among finitely many requests one ranks highest.
LEMMA Highest ==
  ASSUME NEW T \in SUBSET Req, T # {}, NEW rank \in [Req -> Nat]
  PROVE  \E m \in T : \A t \in T : rank[t] <= rank[m]
<1> DEFINE above(t) == {x \in T : rank[t] < rank[x]}
           R == StrictSubsetOrdering(Req)
           F == FiniteSubsetsOf(Req)
           A == {above(t) : t \in T}
<1>1. IsWellFoundedOn(R, F)
  BY FS_StrictSubsetOrderingWellFounded
<1>2. A \subseteq F /\ A # {}
  <2>1. F = SUBSET Req
    BY ReqAssumption, FS_FiniteSubsetsOfFinite
  <2>2. \A t \in T : above(t) \in SUBSET Req
    OBVIOUS
  <2> HIDE DEF F, above
  <2> QED
    BY <2>1, <2>2
<1>3. \A t \in T : above(t) \in A /\ above(t) \in SUBSET Req
  OBVIOUS
<1>4. \A t, x \in T : x \in above(t) => x \notin above(x) /\ above(x) \subseteq above(t)
  OBVIOUS
<1>5. \A t, x \in T : x \notin above(t) => rank[x] <= rank[t]
  OBVIOUS
<1>6. \A t, x \in T : x \in above(t) => <<above(x), above(t)>> \in R
  <2>1. ASSUME NEW t \in T, NEW x \in T, x \in above(t) PROVE <<above(x), above(t)>> \in R
    <3>1. above(x) \subseteq above(t) /\ above(x) # above(t)
      BY <1>4, <2>1
    <3> HIDE DEF above
    <3> QED
      BY <1>3, <3>1 DEF StrictSubsetOrdering
  <2> QED
    BY <2>1
<1> HIDE DEF R, F
<1>7. PICK a \in A : \A y \in A : ~(<<y, a>> \in R)
  <2> HIDE DEF A
  <2> QED
    BY <1>1, <1>2, WFMin
<1>8. PICK m \in T : a = above(m)
  BY <1>7
<1>9. \A x \in T : x \notin above(m)
  BY <1>3, <1>6, <1>7, <1>8
<1> QED
  BY <1>5, <1>9

\* A list that starts at its head holds the requests that are on it.
LEMMA FromHead ==
  ASSUME NEW s \in Store, NEW w \in WhereType, LinkedIn(s, w), Acyclic(s, w), NEW l \in Lists
  PROVE  From(s, s.head[l]) = {r \in Req : w[r] = l}
<1> DEFINE h == s.head[l]
           all == {r \in Req : w[r] = l}
           U == all \ From(s, h)
<1>0. NULL \notin Req /\ h \in Pointer
  BY ReqAssumption DEF Store
<1>1. PICK rank \in [Req -> Nat] :
        \A r \in Req : w[r] \in Lists /\ s.next[r] # NULL => rank[s.next[r]] < rank[r]
  BY DEF Acyclic
<1>2. h # NULL => h \in Req /\ w[h] = l
  BY <1>0 DEF Pointer, LinkedIn
<1>3. /\ h # NULL => h \in From(s, h)
      /\ From(s, h) \subseteq all
      /\ \A x \in From(s, h) : s.next[x] # NULL => s.next[x] \in From(s, h)
  <2>1. CASE h = NULL
    BY <2>1, FromNull
  <2>2. CASE h # NULL
    BY <1>2, <2>2, FromClosed
  <2> QED
    BY <2>1, <2>2
<1>4. ASSUME NEW r \in U
      PROVE  s.prev[r] \in U /\ rank[r] < rank[s.prev[r]]
  <2>1. r \in Req /\ w[r] = l /\ r \notin From(s, h)
    BY DEF U
  <2>2. s.prev[r] # NULL
    <3>1. s.prev[r] = NULL => h = r
      BY <2>1 DEF LinkedIn
    <3> QED
      BY <1>0, <1>3, <2>1, <3>1
  <2>3. s.prev[r] \in Req /\ w[s.prev[r]] = l /\ s.next[s.prev[r]] = r
    BY <2>1, <2>2 DEF LinkedIn, Store, Pointer
  <2>4. s.prev[r] \notin From(s, h)
    BY <1>0, <1>3, <2>1, <2>3
  <2>5. rank[r] < rank[s.prev[r]]
    BY <1>0, <1>1, <2>1, <2>3
  <2> QED
    BY <2>3, <2>4, <2>5 DEF U
<1>5. U = {}
  <2>1. ASSUME U # {} PROVE FALSE
    <3>1. U \in SUBSET Req
      BY DEF U
    <3> HIDE DEF U
    <3>2. PICK m \in U : \A t \in U : rank[t] <= rank[m]
      BY <2>1, <3>1, Highest
    <3>3. s.prev[m] \in U /\ rank[m] < rank[s.prev[m]] /\ rank[s.prev[m]] <= rank[m]
      BY <1>4, <3>2
    <3>4. rank[m] \in Nat /\ rank[s.prev[m]] \in Nat
      BY <3>1, <3>3
    <3> QED
      BY <3>3, <3>4
  <2> QED
    BY <2>1
<1> QED
  BY <1>3, <1>5 DEF U

LEMMA HeadWellLinked ==
  ASSUME NEW s \in Store, NEW w \in WhereType, LinkedIn(s, w), Acyclic(s, w), NEW l \in Lists
  PROVE  WellLinked(s, s.head[l])
<1> DEFINE h == s.head[l]
           n == Cardinality(Req) + 1
<1>0. h \in Pointer
  BY DEF Store
<1>1. h # NULL => h \in Req /\ w[h] = l /\ s.prev[h] = NULL
  BY <1>0 DEF Pointer, LinkedIn
<1>2. Path(s, h)[n] = NULL
  <2>1. CASE h = NULL
    <3>1. /\ DOMAIN Path(s, h) = 1..n /\ n \in 1..n
      BY PathSteps
    <3>2. From(s, h) = {}
      BY <2>1, FromNull
    <3> QED
      BY <3>1, <3>2 DEF From
  <2>2. CASE h # NULL
    BY <1>1, <2>2, PathOnList
  <2> QED
    BY <2>1, <2>2
<1>3. \A r \in From(s, h) : s.next[r] # NULL => s.prev[s.next[r]] = r
  BY FromHead DEF LinkedIn
<1> HIDE DEF h
<1> QED
  BY <1>1, <1>2, <1>3 DEF WellLinked, h

LEMMA SoundMeans == ListInv => ListsSound
<1> SUFFICES ASSUME ListInv, NEW l \in Lists
             PROVE  WellLinked(ptr, ptr.head[l]) /\ From(ptr, ptr.head[l]) = On(l)
  BY DEF ListsSound
<1>1. /\ ptr \in Store /\ where \in WhereType
      /\ LinkedIn(ptr, where) /\ Acyclic(ptr, where)
  BY DEF ListInv, TypeOK, Linked, WhereType
<1> QED
  BY <1>1, FromHead, HeadWellLinked DEF On


\* Moving a request to another list leaves what follows it in place.
LEMMA WalkOn ==
  ASSUME NEW s \in Store, NEW w \in WhereType, LinkedIn(s, w), Acyclic(s, w),
         NEW from \in Lists, NEW to \in Lists, NEW r \in Req, w[r] = from
  PROVE  From(MoveTo(s, from, to, r), s.next[r]) = From(s, r) \ {r}
<1> DEFINE t == MoveTo(s, from, to, r)
           v == [w EXCEPT ![r] = to]
           q == s.next[r]
<1>0. NULL \notin Req /\ q \in Pointer /\ s.prev[r] \in Pointer
  BY ReqAssumption DEF Store
<1>1. t \in Store /\ LinkedIn(t, v) /\ Acyclic(t, v) /\ v \in WhereType
  BY MoveLinked, MoveAcyclic DEF WhereType
<1>2. From(s, q) = From(s, r) \ {r} /\ s.prev[r] \notin From(s, q)
  BY FromNext
<1>3. From(s, q) \subseteq Req
  BY <1>2, FromClosed
<1>4. q # NULL => q \in Req /\ q # r /\ w[q] = from
  BY NextOnList
<1>5. q # NULL => w[q] \in Lists /\ v[q] \in Lists
  BY <1>4 DEF WhereType
<1>6. ASSUME NEW x \in Req, x # r, x # s.prev[r] PROVE t.next[x] = s.next[x]
  BY <1>0, <1>6 DEF MoveTo, enqueue, dequeue, Set, Store, Pointer
<1>7. \A x \in From(s, q) : t.next[x] = s.next[x]
  BY <1>2, <1>3, <1>6
<1> HIDE DEF t, v
<1>8. From(t, q) = From(s, q)
  BY <1>0, <1>1, <1>5, <1>7, FromFrame
<1> QED
  BY <1>2, <1>8 DEF t

\* Accepting links one request that was on no walked list.
LEMMA GetRequestLinks ==
  ASSUME ListInv, get_request
  PROVE  \E r \in Req : /\ where[r] \in {"none", "free"}
                        /\ \A x \in Req \ {r} : ptr'.next[x] = ptr.next[x] /\ where'[x] = where[x]
<1>1. /\ ptr \in Store /\ where \in WhereType /\ LinkedIn(ptr, where)
      /\ NULL \notin Req
  BY ReqAssumption DEF ListInv, TypeOK, WhereType, Linked
<1> DEFINE h == ptr.head["free"]
           m == CHOOSE x \in On("none") : TRUE
<1>2. PICK fd \in Fds, to \in {"ready", "free"} :
        \/ h # NULL /\ Admit(dequeue(ptr, "free", h), h, fd, rq[h], to)
        \/ /\ h = NULL /\ On("none") # {}
           /\ \E old \in {rq[m], [rq[m] EXCEPT !.buff = <<>>]} : Admit(ptr, m, fd, old, to)
  BY DEF get_request
<1>3. CASE h # NULL /\ Admit(dequeue(ptr, "free", h), h, fd, rq[h], to)
  <2>1. "free" \in Lists
    BY DEF Lists
  <2>2. h \in Req /\ where[h] = "free" /\ ptr.prev[h] = NULL
    BY <2>1, <1>1, <1>3 DEF LinkedIn, Store, Pointer
  <2>3. /\ ptr' = enqueue(dequeue(ptr, "free", h), to, h)
        /\ where' = [where EXCEPT ![h] = to]
    BY <1>3 DEF Admit
  <2> HIDE DEF h
  <2>4. \A x \in Req \ {h} : ptr'.next[x] = ptr.next[x]
    BY <1>1, <2>2, <2>3 DEF enqueue, dequeue, Set, Store
  <2>5. \A x \in Req \ {h} : where'[x] = where[x]
    BY <1>1, <2>3 DEF WhereType
  <2> QED
    BY <2>2, <2>4, <2>5
<1>4. CASE /\ h = NULL /\ On("none") # {}
           /\ \E old \in {rq[m], [rq[m] EXCEPT !.buff = <<>>]} : Admit(ptr, m, fd, old, to)
  <2>1. m \in Req /\ where[m] = "none"
    BY <1>4 DEF On
  <2>2. ptr' = enqueue(ptr, to, m) /\ where' = [where EXCEPT ![m] = to]
    BY <1>4 DEF Admit
  <2> HIDE DEF m
  <2>3. \A x \in Req \ {m} : ptr'.next[x] = ptr.next[x] /\ where'[x] = where[x]
    BY <1>1, <2>1, <2>2 DEF enqueue, Store, WhereType
  <2> QED
    BY <2>1, <2>3
<1> QED
  BY <1>2, <1>3, <1>4

LEMMA ListFacts ==
  ASSUME ListInv
  PROVE  /\ ptr \in Store /\ where \in WhereType
         /\ LinkedIn(ptr, where) /\ Acyclic(ptr, where)
         /\ pc = "update" => current \in Req /\ where[current] = "block"
         /\ pc \in {"handle", "accept", "move"} => current \in Req /\ where[current] = "ready"
  BY DEF ListInv, TypeOK, Linked, WhereType, CurrentOnList

LEMMA GetRequestWalk ==
  ASSUME ListInv, ListInv', WalkVisitsAll, get_request PROVE WalkVisitsAll'
<1>1. CASE pc = "accept"
  <2>0. /\ ptr \in Store /\ where \in WhereType
        /\ LinkedIn(ptr, where) /\ Acyclic(ptr, where)
        /\ current \in Req /\ where[current] = "ready"
    BY <1>1, ListFacts
  <2>1. /\ ptr' \in Store /\ where' \in WhereType
        /\ LinkedIn(ptr', where') /\ Acyclic(ptr', where')
    BY DEF ListInv, TypeOK, Linked, WhereType
  <2>2. UNCHANGED <<current, todo>> /\ pc' = "move"
    BY <1>1 DEF get_request
  <2>3. PICK r \in Req : /\ where[r] \in {"none", "free"}
                         /\ \A x \in Req \ {r} : ptr'.next[x] = ptr.next[x]
                                                  /\ where'[x] = where[x]
    BY GetRequestLinks
  <2>4. "ready" \in Lists
    BY DEF Lists
  <2>5. From(ptr, current) \subseteq Req /\ \A x \in From(ptr, current) : where[x] = "ready"
    BY <2>0, <2>4, FromClosed
  <2>6. \A x \in From(ptr, current) : ptr'.next[x] = ptr.next[x]
    BY <2>3, <2>5
  <2>7. where'[current] = "ready" /\ current \in Pointer
    BY <2>0, <2>3 DEF Pointer
  <2>8. From(ptr', current) = From(ptr, current)
    BY <2>0, <2>1, <2>4, <2>6, <2>7, FromFrame
  <2> QED
    BY <1>1, <2>2, <2>8 DEF WalkVisitsAll
<1>2. CASE pc # "accept"
  BY <1>2 DEF get_request, WalkVisitsAll
<1> QED
  BY <1>1, <1>2

\* A turn of either walk: the request is left where it is or moved.
LEMMA TurnWalk ==
  ASSUME ListInv, WalkVisitsAll, NEW from \in {"block", "ready"},
         pc \in {"update", "accept", "move"}, where[current] = from,
         \/ UNCHANGED <<ptr, where>>
         \/ \E to \in Lists : ptr' = MoveTo(ptr, from, to, current),
         current' = ptr.next[current], todo' = todo \ {current}
  PROVE  From(ptr', current') = todo'
<1>0. /\ ptr \in Store /\ where \in WhereType /\ current \in Req
      /\ LinkedIn(ptr, where) /\ Acyclic(ptr, where)
  BY ListFacts
<1>1. From(ptr, current) = todo /\ from \in Lists
  BY DEF WalkVisitsAll, Lists
<1>2. From(ptr', ptr.next[current]) = From(ptr, current) \ {current}
  BY <1>0, <1>1, WalkOn, FromNext
<1> QED
  BY <1>1, <1>2

LEMMA WalkStep ==
  ASSUME ListInv, ListInv', WalkVisitsAll, [Next]_vars PROVE WalkVisitsAll'
<1>0. /\ ptr \in Store /\ where \in WhereType
      /\ LinkedIn(ptr, where) /\ Acyclic(ptr, where)
      /\ "ready" \in Lists /\ "block" \in Lists /\ "free" \in Lists
  BY ListFacts DEF Lists
<1>1. CASE UNCHANGED vars
  BY <1>1 DEF vars, WalkVisitsAll
<1>2. CASE sighup_run
  BY <1>2 DEF sighup_run, WalkVisitsAll
<1>3. CASE Select
  <2>1. From(ptr, ptr.head["block"]) = On("block")
    BY <1>0, FromHead DEF On
  <2> QED
    BY <1>3, <2>1 DEF Select, WalkVisitsAll
<1>4. CASE process_requests
  <2>1. From(ptr, ptr.head["ready"]) = On("ready")
    BY <1>0, FromHead DEF On
  <2> QED
    BY <1>4, <2>1 DEF process_requests, WalkVisitsAll
<1>5. CASE fdset_update
  <2>1. where[current] = "block" /\ pc = "update"
    BY <1>5, ListFacts DEF fdset_update
  <2>2. /\ UNCHANGED <<ptr, where>> \/ ptr' = MoveTo(ptr, "block", "ready", current)
        /\ current' = ptr.next[current] /\ todo' = todo \ {current}
    BY <1>5 DEF fdset_update
  <2>3. From(ptr', current') = todo'
    BY <1>0, <2>1, <2>2, TurnWalk
  <2> QED
    BY <2>3 DEF WalkVisitsAll
<1>6. CASE Handler
  <2>1. HandlerEffect
    BY <1>6, HandlerTypes
  <2> QED
    BY <2>1 DEF HandlerEffect, WalkVisitsAll
<1>7. CASE MoveOn
  <2>1. /\ pc \in {"accept", "move"}
        /\ current' = ptr.next[current] /\ todo' = todo \ {current}
        /\ \/ UNCHANGED <<ptr, where>>
           \/ \E to \in Lists : ptr' = MoveTo(ptr, "ready", to, current)
    BY <1>0, <1>7 DEF MoveOn, block_request, free_request, MoreToDo, UnknownRetval, Returned,
                      Onward, NextOne, MoveCurrent
  <2>2. where[current] = "ready"
    BY <2>1, ListFacts
  <2>3. From(ptr', current') = todo'
    BY <2>1, <2>2, TurnWalk
  <2> QED
    BY <2>3 DEF WalkVisitsAll
<1> QED
  BY <1>1, <1>2, <1>3, <1>4, <1>5, <1>6, <1>7, GetRequestWalk DEF Next, LoopStep

(***************************************************************************)
(* Whatever is woken, blocked, freed and accepted, and in whatever order,  *)
(* the ready, block and free lists each end, are linked both ways and hold *)
(* exactly the requests put on them (queue.c).                             *)
(***************************************************************************)
THEOREM ListsSoundAlways == Spec => []ListsSound
  BY ListsCorrect, SoundMeans, PTL

(***************************************************************************)
(* fdset_update and process_requests, which move the request they are at   *)
(* while connections are accepted, visit every request that was on their   *)
(* list when they began and no other.                                      *)
(***************************************************************************)
THEOREM WalksComplete == Spec => []WalkVisitsAll
<1>1. Init => WalkVisitsAll
  BY DEF Init, WalkVisitsAll
<1>2. ListInv /\ ListInv' /\ WalkVisitsAll /\ [Next]_vars => WalkVisitsAll'
  BY WalkStep
<1> QED
  BY <1>1, <1>2, ListsCorrect, PTL DEF Spec

-----------------------------------------------------------------------------

(***************************************************************************)
(* Whose output a request sends, when an answer fits the buffer            *)
(***************************************************************************)

OneBuffer == MaxChunks \in {0, 1}

FdsApart == \A r, q \in Served : rq[r].fd = rq[q].fd => r = q

\* Output waits in req->buff only between an answer and the visit that reads
\* it, in a request that nothing closes meanwhile.
BuffOwned ==
  \A r \in Req : rq[r].buff # <<>> =>
    /\ where[r] = "ready" /\ rq[r].status = "BUFF_READ" /\ rq[r].win = 0
    /\ Head(rq[r].buff) = rq[r].conn /\ Tail(rq[r].buff) = <<>>
    /\ pc \in {"accept", "move"} /\ r = current => rv = 1

\* A handler that leaves its request polling returns 1.
PollStays ==
  pc \in {"accept", "move"} /\ rq[current].status = "BUFF_POLL" => rv = 1

PoolInv == FdsApart /\ AskerPolls /\ OwnOutput /\ BuffOwned /\ PollStays

LEMMA InitPoolInv == Init => PoolInv
BY DEF Init, PoolInv, FdsApart, AskerPolls, OwnOutput, BuffOwned, PollStays, Served, On

\* A handler that only touches current keeps PoolInv when it leaves no output
\* in buff, nobody else's in the window, and a polling request polling.
LEMMA LocalPoolInv ==
  ASSUME ListInv, PoolInv, HandlerEffect,
         \A x \in Req \ {current} : rq'[x] = rq[x],
         rq'[current].win \in {0, rq[current].conn},
         rq'[current].buff = <<>>,
         rq'[current].status = "BUFF_POLL" => rv' = 1,
         rq[current].status = "BUFF_POLL" => rq'[current].status = "BUFF_POLL",
         \A j \in jobs' : \/ j \in jobs
                         \/ /\ j = [fd |-> rq[current].fd, conn |-> rq[current].conn]
                            /\ rq'[current].status = "BUFF_POLL"
  PROVE  PoolInv'
<1>1. /\ pc' = "accept" /\ UNCHANGED <<where, current>> /\ current \in Req
      /\ where[current] = "ready" /\ current \in Served /\ Served' = Served
      /\ \A r \in Req : rq'[r].conn = rq[r].conn /\ rq'[r].fd = rq[r].fd
  BY DEF HandlerEffect, ListInv, CurrentOnList, Served, On
<1>2. Served \subseteq Req  BY DEF Served, On
<1>3. FdsApart'  BY <1>1, <1>2 DEF PoolInv, FdsApart
<1>4. AskerPolls'
  <2> SUFFICES ASSUME NEW j \in jobs'
               PROVE  \E r \in Served : /\ rq'[r].fd = j.fd /\ rq'[r].conn = j.conn
                                        /\ rq'[r].status = "BUFF_POLL" /\ where[r] = "ready"
    BY <1>1 DEF AskerPolls
  <2>1. CASE j \in jobs
    <3>1. PICK r \in Served : /\ rq[r].fd = j.fd /\ rq[r].conn = j.conn
                             /\ rq[r].status = "BUFF_POLL" /\ where[r] = "ready"
      BY <2>1 DEF PoolInv, AskerPolls
    <3>2. r \in Req  BY <1>2
    <3>3. rq'[r].status = "BUFF_POLL"  BY <3>1, <3>2
    <3> QED  BY <3>1, <3>2, <3>3, <1>1
  <2>2. CASE /\ j = [fd |-> rq[current].fd, conn |-> rq[current].conn]
             /\ rq'[current].status = "BUFF_POLL"
    BY <2>2, <1>1
  <2> QED  BY <2>1, <2>2
<1>5. OwnOutput'  BY <1>1, <1>2 DEF PoolInv, OwnOutput
<1>6. BuffOwned'  BY <1>1 DEF PoolInv, BuffOwned
<1>7. PollStays'  BY <1>1 DEF PollStays
<1> QED  BY <1>3, <1>4, <1>5, <1>6, <1>7 DEF PoolInv

\* The handlers of requests whose buff is empty.
LEMMA EmptyPolled ==
  ASSUME ListInv, PoolInv, pc = "handle", rq[current].status # "BUFF_READ"
  PROVE  /\ current \in Req /\ current \in Served /\ rq[current].buff = <<>>
         /\ rq[current].win \in {0, rq[current].conn}
         /\ Polled(rq) = rq
BY DEF ListInv, CurrentOnList, PoolInv, BuffOwned, OwnOutput, Polled, Served, On

LEMMA QuietPoolInv ==
  ASSUME ListInv, PoolInv, OtherHandler \/ Closing
  PROVE  PoolInv'
<1>1. /\ pc = "handle" /\ rq[current].status \in {"READ_HEADER", "DONE", "TIMED_OUT", "DEAD"}
      /\ UNCHANGED <<rq, jobs>>
  BY DEF OtherHandler, Closing, Handled
<1>2. HandlerEffect  BY HandlerTypes DEF Handler
<1> QED  BY <1>1, <1>2, EmptyPolled, LocalPoolInv

LEMMA InitWorkPoolInv ==
  ASSUME ListInv, PoolInv, init_work_cgi
  PROVE  PoolInv'
<1>1. /\ pc = "handle" /\ rq[current].status = "READ_HEADER" /\ rv' = 1
      /\ rq' = [rq EXCEPT ![current].status = "BUFF_POLL"]
      /\ jobs' = jobs \cup {[fd |-> rq[current].fd, conn |-> rq[current].conn]}
  BY DEF init_work_cgi, Handled
<1>2. HandlerEffect  BY HandlerTypes DEF Handler
<1>3. current \in Req /\ rq[current].buff = <<>> /\ rq[current].win \in {0, rq[current].conn}
  BY <1>1, EmptyPolled
<1>4. rq \in [Req -> Request] /\ "BUFF_POLL" \in Status  BY DEF ListInv, TypeOK, Status
<1>5. /\ \A x \in Req \ {current} : rq'[x] = rq[x]
      /\ rq'[current].status = "BUFF_POLL" /\ rq'[current].buff = rq[current].buff
      /\ rq'[current].win = rq[current].win
  BY <1>1, <1>3, <1>4, StatusSet
<1> QED  BY <1>1, <1>2, <1>3, <1>5, LocalPoolInv

LEMMA PollFailPoolInv ==
  ASSUME ListInv, PoolInv, PollNothing \/ \E j \in jobs : PollFailure(j)
  PROVE  PoolInv'
<1>1. /\ pc = "handle" /\ rq[current].status = "BUFF_POLL" /\ rv' = 1
      /\ rq' = Polled(rq) /\ jobs' \subseteq jobs
  BY DEF PollNothing, PollFailure, Handled
<1>2. HandlerEffect  BY PollEffect DEF poll_from_shbuff
<1>3. /\ current \in Req /\ rq[current].buff = <<>> /\ rq[current].win \in {0, rq[current].conn}
      /\ rq' = rq
  BY <1>1, EmptyPolled
<1> QED  BY <1>1, <1>2, <1>3, LocalPoolInv

\* read_from_shbuff and write_from_shbuff.
LEMMA ReadWritePoolInv ==
  ASSUME ListInv, PoolInv, read_from_shbuff \/ write_from_shbuff
  PROVE  PoolInv'
<1> DEFINE q == rq[current]
<1>1. HandlerEffect  BY HandlerTypes DEF Handler
<1>2. pc = "handle" /\ UNCHANGED jobs  BY DEF read_from_shbuff, write_from_shbuff
<1>3. /\ rq \in [Req -> Request] /\ current \in Req /\ q \in Request /\ current \in Served
      /\ q.win \in {0, q.conn}
  BY <1>2 DEF ListInv, TypeOK, CurrentOnList, PoolInv, OwnOutput, Served, On
<1>4. ASSUME NEW st \in {"BUFF_READ", "BUFF_WRITE"}, NEW p \in Request, WriteWindow(st, p),
             p.conn = q.conn, p.win \in {0, q.conn}, p.buff = <<>>, p.status # "BUFF_POLL"
      PROVE  PoolInv'
  <2>1. rq[current].status = st  BY <1>4 DEF WriteWindow, Handled
  <2>2. PICK z \in Request : /\ rq' = [rq EXCEPT ![current] = z]
                            /\ z.win \in {0, q.conn} /\ z.buff = <<>> /\ z.status # "BUFF_POLL"
    <3>1. LET a == [p EXCEPT !.status = "BUFF_READ", !.win = 0]
              b == [p EXCEPT !.status = "DEAD"]
          IN  /\ a \in Request /\ a.win = 0 /\ a.buff = p.buff /\ a.status = "BUFF_READ"
              /\ b \in Request /\ b.win = p.win /\ b.buff = p.buff /\ b.status = "DEAD"
      BY DEF Request, Status
    <3> QED  BY <1>4, <3>1 DEF WriteWindow
  <2>3. rq'[current] = z /\ \A x \in Req \ {current} : rq'[x] = rq[x]  BY <2>2, <1>3
  <2> QED  BY <2>1, <2>2, <2>3, <1>1, <1>2, <1>3, LocalPoolInv
<1>5. CASE /\ q.win = 0 /\ q.buff # <<>>
           /\ WriteWindow("BUFF_READ", [q EXCEPT !.win = Head(q.buff), !.buff = Tail(q.buff)])
  <2> DEFINE p == [q EXCEPT !.win = Head(q.buff), !.buff = Tail(q.buff)]
  <2>1. Head(q.buff) = q.conn /\ Tail(q.buff) = <<>> /\ q.status = "BUFF_READ"
    BY <1>3, <1>5 DEF PoolInv, BuffOwned
  <2>2. <<>> \in Seq(Conn)  OBVIOUS
  <2>3. p \in Request /\ p.conn = q.conn /\ p.win = q.conn /\ p.buff = <<>> /\ p.status = "BUFF_READ"
    BY <1>3, <2>1, <2>2 DEF Request
  <2>4. WriteWindow("BUFF_READ", p)  BY <1>5
  <2> HIDE DEF p
  <2> QED  BY <2>3, <2>4, <1>4
<1>6. CASE Handled("BUFF_READ", 1) /\ ReadAnswer(q) /\ ~(q.win = 0 /\ q.buff # <<>>)
  <2>1. q.buff = <<>> /\ q.status = "BUFF_READ"
    BY <1>3, <1>6 DEF PoolInv, BuffOwned, Handled
  <2>2. PICK end \in BOOLEAN :
          rq' = [rq EXCEPT ![current] =
                   [q EXCEPT !.status = "BUFF_WRITE", !.cgi = IF end THEN "DONE" ELSE @]]
    BY <1>6 DEF ReadAnswer
  <2> DEFINE z == [q EXCEPT !.status = "BUFF_WRITE", !.cgi = IF end THEN "DONE" ELSE @]
  <2>3. rq' = [rq EXCEPT ![current] = z]  BY <2>2
  <2>4. z.win = q.win /\ z.buff = q.buff /\ z.status = "BUFF_WRITE"  BY <1>3 DEF Request
  <2> HIDE DEF z
  <2>5. rq'[current] = z /\ \A x \in Req \ {current} : rq'[x] = rq[x]  BY <2>3, <1>3
  <2> QED  BY <2>1, <2>4, <2>5, <1>1, <1>2, <1>3, LocalPoolInv
<1>9. CASE ReadLeftover(q)
  <2>1. PICK z \in Request, v \in {0, 1} :
             /\ Handled("BUFF_READ", v) /\ rq' = [rq EXCEPT ![current] = z]
             /\ z.buff = <<>> /\ z.win = IF q.buff = <<>> THEN q.win ELSE Head(q.buff)
             /\ z.status \in {q.status, "BUFF_READ", "BUFF_WRITE", "DONE"}
    BY <1>3, <1>9, LeftoverRead
  <2>2. q.status = "BUFF_READ"  BY <2>1 DEF Handled
  <2>3. z.win \in {0, q.conn}  BY <2>1, <1>3 DEF PoolInv, BuffOwned
  <2>4. rq'[current] = z /\ \A x \in Req \ {current} : rq'[x] = rq[x]  BY <2>1, <1>3
  <2> QED  BY <2>1, <2>2, <2>3, <2>4, <1>1, <1>2, <1>3, LocalPoolInv
<1>7. CASE q.win # 0 /\ WriteWindow("BUFF_WRITE", q)
  <2>1. q.status = "BUFF_WRITE"  BY <1>7 DEF WriteWindow, Handled
  <2>2. q.buff = <<>>  BY <2>1, <1>3 DEF PoolInv, BuffOwned
  <2> QED  BY <2>1, <2>2, <1>3, <1>4, <1>7
<1>8. CASE \/ Handled("BUFF_WRITE", 0) /\ UNCHANGED rq
           \/ Handled("BUFF_WRITE", 1) /\ rq' = [rq EXCEPT ![current].status = "BUFF_READ"]
  <2>1. q.status = "BUFF_WRITE"  BY <1>8 DEF Handled
  <2>2. q.buff = <<>>  BY <2>1, <1>3 DEF PoolInv, BuffOwned
  <2>3. "BUFF_READ" \in Status  BY DEF Status
  <2>4. /\ \A x \in Req \ {current} : rq'[x] = rq[x]
        /\ rq'[current].win = q.win /\ rq'[current].buff = q.buff
        /\ rq'[current].status \in {"BUFF_WRITE", "BUFF_READ"}
    <3>1. CASE UNCHANGED rq  BY <3>1, <2>1
    <3>2. CASE rq' = [rq EXCEPT ![current].status = "BUFF_READ"]
      BY <3>2, <2>3, <1>3, StatusSet
    <3> QED  BY <3>1, <3>2, <1>8
  <2> QED  BY <2>1, <2>2, <2>4, <1>1, <1>2, <1>3, LocalPoolInv
<1> QED  BY <1>5, <1>6, <1>7, <1>8, <1>9 DEF read_from_shbuff, ReadAnswer, write_from_shbuff

\* An answer reaches the request that asked for it.
LEMMA FindsAsker ==
  ASSUME ListInv, PoolInv, NEW j \in jobs, NEW r \in find_request_by_fd(j.fd)
  PROVE  /\ r \in Req /\ r \in Served /\ where[r] = "ready"
         /\ rq[r].fd = j.fd /\ rq[r].conn = j.conn /\ rq[r].status = "BUFF_POLL"
<1>1. PICK a \in Served : /\ rq[a].fd = j.fd /\ rq[a].conn = j.conn
                         /\ rq[a].status = "BUFF_POLL" /\ where[a] = "ready"
  BY DEF PoolInv, AskerPolls
<1>2. a \in Req  BY DEF Served, On
<1> DEFINE ready == {x \in On("ready") : rq[x].fd = j.fd}
<1>3. a \in ready  BY <1>1, <1>2 DEF On
<1>4. r \in ready  BY <1>3 DEF find_request_by_fd
<1>5. r \in Served  BY <1>4 DEF Served
<1>6. r = a  BY <1>1, <1>4, <1>5 DEF PoolInv, FdsApart
<1> QED  BY <1>1, <1>2, <1>6

LEMMA AnswerPoolInv ==
  ASSUME OneBuffer, ListInv, PoolInv, NEW j \in jobs, PollAnswer(j)
  PROVE  PoolInv'
<1>1. /\ pc = "handle" /\ rq[current].status = "BUFF_POLL" /\ rv' = 1 /\ pc' = "accept"
      /\ UNCHANGED <<where, current>> /\ jobs' = jobs \ {j}
  BY DEF PollAnswer, Handled
<1>2. /\ current \in Req /\ rq \in [Req -> Request] /\ jobs \subseteq Job
      /\ Served' = Served /\ Served \subseteq Req
  BY <1>1 DEF ListInv, TypeOK, CurrentOnList, Served, On
<1>3. PICK n \in 0..MaxChunks, r \in find_request_by_fd(j.fd) :
        rq' = Polled(IF r = NULL THEN rq ELSE cgi_work_resp(rq, r, j.conn, n))
  BY DEF PollAnswer
<1>4. /\ r \in Req /\ r \in Served /\ where[r] = "ready"
      /\ rq[r].fd = j.fd /\ rq[r].conn = j.conn /\ rq[r].status = "BUFF_POLL"
  BY FindsAsker
<1> DEFINE g == cgi_work_resp(rq, r, j.conn, n)
<1>5. rq' = Polled(g)  BY <1>3, <1>4, ReqAssumption
<1>6. j.conn \in Conn /\ n \in Nat /\ n \in {0, 1}
  BY <1>2, PoolAssumption DEF Job, OneBuffer
<1>7. /\ g \in [Req -> Request]
      /\ \A x \in Req \ {r} : g[x] = rq[x]
      /\ g[r].status = "BUFF_READ" /\ g[r].win = 0
      /\ g[r].buff = rq[r].buff \o [i \in 1..n |-> j.conn]
      /\ \A x \in Req : g[x].conn = rq[x].conn /\ g[x].fd = rq[x].fd
  BY <1>2, <1>4, <1>6, RespSet
<1> HIDE DEF g
<1>8. rq[r].buff = <<>> /\ rq[current].buff = <<>>
  BY <1>1, <1>2, <1>4 DEF PoolInv, BuffOwned
<1>9. g[r].buff # <<>> => Head(g[r].buff) = j.conn /\ Tail(g[r].buff) = <<>>
  <2>1. CASE n = 0  BY <2>1, <1>7, <1>8
  <2>2. CASE n = 1
    <3>1. [i \in 1..n |-> j.conn] = <<j.conn>>  BY <2>2
    <3>2. <<>> \o <<j.conn>> = <<j.conn>>  BY <1>6
    <3>3. g[r].buff = <<j.conn>>  BY <3>1, <3>2, <1>7, <1>8
    <3> QED  BY <3>3
  <2> QED  BY <2>1, <2>2, <1>6
<1>10. rq' = g
  <2>1. CASE g[current].buff = <<>>  BY <2>1, <1>5 DEF Polled
  <2>2. CASE g[current].buff # <<>>
    <3>1. current = r  BY <2>2, <1>2, <1>7, <1>8
    <3>2. "BUFF_READ" \in Status  BY DEF Status
    <3>3. rq' = [g EXCEPT ![r].status = "BUFF_READ"]  BY <2>2, <3>1, <1>5 DEF Polled
    <3>4. g[r] \in Request  BY <1>4, <1>7
    <3>5. [g[r] EXCEPT !.status = "BUFF_READ"] = g[r]  BY <3>4, <1>7 DEF Request
    <3> QED  BY <3>3, <3>5, <1>4, <1>7
  <2> QED  BY <2>1, <2>2
<1>11. FdsApart'  BY <1>2, <1>7, <1>10 DEF PoolInv, FdsApart
<1>12. AskerPolls'
  <2> SUFFICES ASSUME NEW k \in jobs \ {j}
               PROVE  \E x \in Served : /\ rq'[x].fd = k.fd /\ rq'[x].conn = k.conn
                                        /\ rq'[x].status = "BUFF_POLL" /\ where[x] = "ready"
    BY <1>1, <1>2 DEF AskerPolls
  <2>1. PICK x \in Served : /\ rq[x].fd = k.fd /\ rq[x].conn = k.conn
                           /\ rq[x].status = "BUFF_POLL" /\ where[x] = "ready"
    BY DEF PoolInv, AskerPolls
  <2>2. x # r
    <3>1. k # j /\ k \in Job /\ j \in Job  BY <1>2
    <3>2. k.fd # j.fd \/ k.conn # j.conn  BY <3>1 DEF Job
    <3> QED  BY <3>2, <2>1, <1>4
  <2>3. rq'[x] = rq[x]  BY <2>2, <1>2, <1>7, <1>10
  <2> QED  BY <2>1, <2>3
<1>13. OwnOutput'
  BY <1>2, <1>7, <1>10 DEF PoolInv, OwnOutput
<1>14. BuffOwned'
  <2> SUFFICES ASSUME NEW x \in Req, g[x].buff # <<>>
               PROVE  /\ where[x] = "ready" /\ g[x].status = "BUFF_READ" /\ g[x].win = 0
                      /\ Head(g[x].buff) = g[x].conn /\ Tail(g[x].buff) = <<>>
    BY <1>1, <1>10 DEF BuffOwned
  <2>1. CASE x = r  BY <2>1, <1>4, <1>7, <1>9
  <2>2. CASE x # r  BY <2>2, <1>7 DEF PoolInv, BuffOwned
  <2> QED  BY <2>1, <2>2
<1>15. PollStays'  BY <1>1 DEF PollStays
<1> QED  BY <1>11, <1>12, <1>13, <1>14, <1>15 DEF PoolInv

\* A step outside the handlers: it moves requests that neither poll nor hold
\* output.
LEMMA MovePoolInv ==
  ASSUME ListInv, PoolInv, UNCHANGED jobs, pc' \notin {"accept", "move"},
         Served' \subseteq Served,
         \A r \in Req : /\ rq'[r].fd = rq[r].fd /\ rq'[r].win = rq[r].win
                        /\ rq'[r].buff = rq[r].buff,
         \A r \in Served' : rq'[r].conn = rq[r].conn,
         \A r \in Req : (rq[r].status = "BUFF_POLL" /\ where[r] = "ready")
                          \/ rq[r].buff # <<>> =>
                        where'[r] = where[r] /\ rq'[r] = rq[r]
  PROVE  PoolInv'
<1>1. Served \subseteq Req /\ Served' \subseteq Req  BY DEF Served, On
<1>2. FdsApart'
  BY <1>1 DEF PoolInv, FdsApart
<1>3. AskerPolls'
  <2> SUFFICES ASSUME NEW j \in jobs
               PROVE  \E r \in Served' : /\ rq'[r].fd = j.fd /\ rq'[r].conn = j.conn
                                         /\ rq'[r].status = "BUFF_POLL" /\ where'[r] = "ready"
    BY DEF AskerPolls
  <2>1. PICK r \in Served : /\ rq[r].fd = j.fd /\ rq[r].conn = j.conn
                           /\ rq[r].status = "BUFF_POLL" /\ where[r] = "ready"
    BY DEF PoolInv, AskerPolls
  <2>2. where'[r] = "ready" /\ rq'[r] = rq[r] /\ r \in Req  BY <2>1, <1>1
  <2>3. r \in Served'  BY <2>2 DEF Served, On
  <2> QED  BY <2>1, <2>2, <2>3
<1>4. OwnOutput'  BY <1>1 DEF PoolInv, OwnOutput
<1>5. BuffOwned'  BY DEF PoolInv, BuffOwned
<1>6. PollStays'  BY DEF PollStays
<1> QED  BY <1>2, <1>3, <1>4, <1>5, <1>6 DEF PoolInv

LEMMA SelectPoolInv ==
  ASSUME ListInv, PoolInv, Select \/ process_requests \/ sighup_run
  PROVE  PoolInv'
<1>1. UNCHANGED <<rq, jobs>> /\ pc' \notin {"accept", "move"}
  BY DEF Select, process_requests, sighup_run
<1>3. \A r \in Req : where'[r] = where[r] \/ (where[r] = "free" /\ where'[r] = "none")
  <2>1. CASE UNCHANGED where  BY <2>1
  <2>2. CASE sighup_run  BY <2>2 DEF sighup_run
  <2> QED  BY <2>1, <2>2 DEF Select, process_requests
<1>4. Served' \subseteq Served
  <2>1. \A r \in Req : where'[r] \in {"ready", "block"} => where[r] = where'[r]  BY <1>3
  <2> QED  BY <2>1 DEF Served, On
<1>5. \A r \in Req : (rq[r].status = "BUFF_POLL" /\ where[r] = "ready") \/ rq[r].buff # <<>>
                     => where'[r] = where[r]
  BY <1>3 DEF PoolInv, BuffOwned
<1>6. \A r \in Req : rq'[r] = rq[r]  BY <1>1
<1> QED  BY <1>1, <1>4, <1>5, <1>6, MovePoolInv DEF Served, On

LEMMA UpdatePoolInv ==
  ASSUME ListInv, PoolInv, fdset_update
  PROVE  PoolInv'
<1>1. /\ rq \in [Req -> Request] /\ where \in WhereType
      /\ current \in Req /\ where[current] = "block"
  BY DEF ListInv, TypeOK, WhereType, CurrentOnList, fdset_update
<1>2. pc' \notin {"accept", "move"} /\ UNCHANGED jobs  BY DEF fdset_update
<1>3. /\ \A r \in Req \ {current} : where'[r] = where[r]
      /\ where'[current] \in {"block", "ready"}
  BY <1>1 DEF fdset_update, WhereType
<1>4. /\ \A r \in Req : /\ rq'[r].fd = rq[r].fd /\ rq'[r].win = rq[r].win
                        /\ rq'[r].buff = rq[r].buff /\ rq'[r].conn = rq[r].conn
      /\ \A r \in Req \ {current} : rq'[r] = rq[r]
  <2>1. CASE UNCHANGED rq  BY <2>1
  <2>2. CASE rq' = [rq EXCEPT ![current].status = "TIMED_OUT"]
    <3>1. "TIMED_OUT" \in Status  BY DEF Status
    <3> QED  BY <2>2, <3>1, <1>1, StatusSet
  <2> QED  BY <2>1, <2>2 DEF fdset_update
<1>5. Served' \subseteq Served /\ Served' \subseteq Req  BY <1>1, <1>3 DEF Served, On
<1>6. \A r \in Req : (rq[r].status = "BUFF_POLL" /\ where[r] = "ready") \/ rq[r].buff # <<>>
                     => r # current
  BY <1>1 DEF PoolInv, BuffOwned
<1> QED  BY <1>2, <1>3, <1>4, <1>5, <1>6, MovePoolInv

LEMMA MoveOnPoolInv ==
  ASSUME ListInv, PoolInv, MoveOn
  PROVE  PoolInv'
<1>1. /\ rq \in [Req -> Request] /\ where \in WhereType /\ pc \in {"accept", "move"}
      /\ current \in Req /\ where[current] = "ready"
  BY DEF ListInv, TypeOK, WhereType, CurrentOnList, MoveOn, block_request, free_request,
         MoreToDo, UnknownRetval, Returned
<1>2. pc' \notin {"accept", "move"} /\ UNCHANGED jobs
  BY DEF MoveOn, block_request, free_request, MoreToDo, UnknownRetval, Onward
<1>3. CASE MoreToDo
  BY <1>1, <1>2, <1>3, MovePoolInv DEF MoreToDo, Served, On
<1>4. CASE ~MoreToDo
  <2>1. rv # 1
    BY <1>4 DEF MoveOn, block_request, free_request, UnknownRetval, Returned
  <2>2. \A r \in Req : (rq[r].status = "BUFF_POLL" /\ where[r] = "ready") \/ rq[r].buff # <<>>
                     => r # current
    BY <2>1, <1>1 DEF PoolInv, BuffOwned, PollStays
  <2>3. \A r \in Req \ {current} : where'[r] = where[r]
    BY <1>1, <1>4 DEF MoveOn, block_request, free_request, UnknownRetval, MoveCurrent, WhereType
  <2>4. Served' \subseteq Served  BY <2>3, <1>1 DEF Served, On
  <2>5. CASE UNCHANGED rq  BY <2>2, <2>3, <2>4, <2>5, <1>2, MovePoolInv
  <2>6. CASE rq' = [rq EXCEPT ![current].status = "DEAD"]
    <3>1. "DEAD" \in Status  BY DEF Status
    <3>2. /\ \A r \in Req : /\ rq'[r].fd = rq[r].fd /\ rq'[r].win = rq[r].win
                            /\ rq'[r].buff = rq[r].buff /\ rq'[r].conn = rq[r].conn
          /\ \A r \in Req \ {current} : rq'[r] = rq[r]
      BY <2>6, <3>1, <1>1, StatusSet
    <3>3. Served' \subseteq Req  BY DEF Served, On
    <3> QED  BY <2>2, <2>3, <2>4, <3>2, <3>3, <1>2, MovePoolInv
  <2>7. CASE MoveCurrent("free") /\ rq' = [rq EXCEPT ![current].conn = 0]
    <3> DEFINE q == [rq[current] EXCEPT !.conn = 0]
    <3>1. rq[current] \in Request  BY <1>1
    <3>2. q.fd = rq[current].fd /\ q.win = rq[current].win /\ q.buff = rq[current].buff
      BY <3>1 DEF Request
    <3>3. rq' = [rq EXCEPT ![current] = q]  BY <2>7, <1>1
    <3> HIDE DEF q
    <3>4. rq'[current] = q /\ \A r \in Req \ {current} : rq'[r] = rq[r]  BY <3>3, <1>1
    <3>5. where'[current] = "free"  BY <2>7, <1>1 DEF MoveCurrent, WhereType
    <3>6. current \notin Served' /\ Served' \subseteq Req  BY <3>5 DEF Served, On
    <3> QED  BY <2>2, <2>3, <2>4, <3>2, <3>4, <3>6, <1>2, MovePoolInv
  <2> QED  BY <2>5, <2>6, <2>7, <1>4 DEF MoveOn, block_request, free_request, UnknownRetval
<1> QED  BY <1>3, <1>4

LEMMA GetRequestPoolInv ==
  ASSUME ListInv, PoolInv, get_request
  PROVE  PoolInv'
<1>1. PICK fd \in Fds, to \in {"ready", "free"}, r \in Req, old \in Request, s \in Store :
           /\ Accepts(fd) /\ where[r] \in {"none", "free"}
           /\ old \in {rq[r], [rq[r] EXCEPT !.buff = <<>>]}
           /\ LinkedIn(s, [where EXCEPT ![r] = "none"])
           /\ Acyclic(s, [where EXCEPT ![r] = "none"])
           /\ Admit(s, r, fd, old, to)
  BY GetRequestPicks
<1>2. /\ where \in WhereType /\ rq \in [Req -> Request]
      /\ UNCHANGED <<jobs, current, rv>>
      /\ pc' \in {"accept", "move"} => pc = "accept"
  BY DEF ListInv, TypeOK, WhereType, get_request
<1>3. pc = "accept" => current \in Req /\ current # r
  BY <1>1 DEF ListInv, CurrentOnList
<1> DEFINE c == IF to = "ready" THEN accepted + 1 ELSE 0
<1> DEFINE q == [sanitize_request(old) EXCEPT !.fd = fd, !.conn = c]
<1>4. rq' = [rq EXCEPT ![r] = q] /\ where' = [where EXCEPT ![r] = to]
  BY <1>1 DEF Admit
<1>5. old.buff = <<>>
  <2>1. rq[r].buff = <<>>  BY <1>1 DEF PoolInv, BuffOwned
  <2>2. rq[r] \in Request  BY <1>2
  <2> QED  BY <2>1, <2>2, <1>1 DEF Request
<1> HIDE DEF c
<1>6. q.buff = <<>> /\ q.win = 0 /\ q.fd = fd /\ q.status = "READ_HEADER"
  BY <1>5 DEF sanitize_request, Request
<1> HIDE DEF q
<1>7. /\ rq'[r] = q /\ where'[r] = to
      /\ \A x \in Req \ {r} : rq'[x] = rq[x] /\ where'[x] = where[x]
  BY <1>2, <1>4 DEF WhereType
<1>8. r \notin Served /\ Served' \subseteq Served \cup {r} /\ Served \subseteq Served' \cap Req
  BY <1>1, <1>7 DEF Served, On
<1>9. FdsApart'
  <2>1. \A x \in Served : rq[x].fd # fd  BY <1>1 DEF Accepts
  <2> QED  BY <2>1, <1>6, <1>7, <1>8 DEF PoolInv, FdsApart
<1>10. AskerPolls'
  <2> SUFFICES ASSUME NEW j \in jobs
               PROVE  \E x \in Served' : /\ rq'[x].fd = j.fd /\ rq'[x].conn = j.conn
                                         /\ rq'[x].status = "BUFF_POLL" /\ where'[x] = "ready"
    BY <1>2 DEF AskerPolls
  <2>1. PICK x \in Served : /\ rq[x].fd = j.fd /\ rq[x].conn = j.conn
                           /\ rq[x].status = "BUFF_POLL" /\ where[x] = "ready"
    BY DEF PoolInv, AskerPolls
  <2>2. x \in Req /\ x # r /\ x \in Served'  BY <1>8
  <2> QED  BY <2>1, <2>2, <1>7
<1>11. OwnOutput'  BY <1>6, <1>7, <1>8 DEF PoolInv, OwnOutput
<1>12. BuffOwned'
  BY <1>2, <1>3, <1>6, <1>7 DEF PoolInv, BuffOwned
<1>13. PollStays'
  BY <1>2, <1>3, <1>7 DEF PoolInv, PollStays
<1> QED  BY <1>9, <1>10, <1>11, <1>12, <1>13 DEF PoolInv

LEMMA NextPoolInv == OneBuffer /\ ListInv /\ PoolInv /\ [Next]_vars => PoolInv'
<1> SUFFICES ASSUME OneBuffer, ListInv, PoolInv, [Next]_vars PROVE PoolInv'  OBVIOUS
<1>1. CASE Handler
  <2>1. CASE poll_from_shbuff
    BY <2>1, PollFailPoolInv, AnswerPoolInv DEF poll_from_shbuff
  <2> QED  BY <1>1, <2>1, QuietPoolInv, InitWorkPoolInv, ReadWritePoolInv DEF Handler
<1>2. CASE Select \/ fdset_update \/ process_requests \/ MoveOn \/ get_request \/ sighup_run
  BY <1>2, SelectPoolInv, UpdatePoolInv, MoveOnPoolInv, GetRequestPoolInv
<1>3. CASE UNCHANGED vars
  BY <1>3 DEF vars, PoolInv, FdsApart, AskerPolls, OwnOutput, BuffOwned, PollStays, Served, On
<1> QED  BY <1>1, <1>2, <1>3 DEF Next, LoopStep

(***************************************************************************)
(* When no answer is larger than the buffer, the request a worker's answer *)
(* is for is still open and polling when it comes, whatever connections    *)
(* come and go: cgi_work_resp finds it by its descriptor.                  *)
(***************************************************************************)
THEOREM AskerCorrect == OneBuffer => (Spec => []AskerPolls)
<1> SUFFICES ASSUME OneBuffer PROVE Spec => []AskerPolls  OBVIOUS
<1>1. ListInv /\ PoolInv /\ [Next]_vars => PoolInv'  BY NextPoolInv
<1>2. PoolInv => AskerPolls  BY DEF PoolInv
<1> QED  BY <1>1, <1>2, InitPoolInv, ListsCorrect, PTL DEF Spec

(***************************************************************************)
(* Under the same condition a request only sends its own client's output,  *)
(* although sanitize_request keeps req->buff (v_leftover shows what        *)
(* happens without it).                                                    *)
(***************************************************************************)
THEOREM OwnOutputCorrect == OneBuffer => (Spec => []OwnOutput)
<1> SUFFICES ASSUME OneBuffer PROVE Spec => []OwnOutput  OBVIOUS
<1>1. ListInv /\ PoolInv /\ [Next]_vars => PoolInv'  BY NextPoolInv
<1>2. PoolInv => OwnOutput  BY DEF PoolInv
<1> QED  BY <1>1, <1>2, InitPoolInv, ListsCorrect, PTL DEF Spec
=============================================================================
