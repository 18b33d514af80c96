----------------------------- MODULE WorkerPool -----------------------------
(***************************************************************************)
(* Requests answered by worker processes (libshare's shproc): a request    *)
(* hands its work to a worker and polls, on the ready list, until the      *)
(* answer comes in.  cgi_work_resp finds the request an answer belongs to  *)
(* by its descriptor number and puts the output into req->buff, from which *)
(* read_from_shbuff and write_from_shbuff carry it to the client.          *)
(*                                                                         *)
(* The module holds the three lists of requests with their pointers, the   *)
(* two loops that walk them while requests move (fdset_update,             *)
(* process_requests), and accept, which may give a connection the          *)
(* descriptor number and the request structure of an earlier one.          *)
(* READ_HEADER stands for every status of a request that has no worker.    *)
(*                                                                         *)
(* KeepsWindow, PassesFlushError, AppendsOnly, PollTimesOut and            *)
(* NextAfterMove are the definitions after them with a fault; nothing uses *)
(* them.                                                                   *)
(***************************************************************************)
EXTENDS Queues

CONSTANTS
  Fds,        \* descriptor numbers accept can return
  MaxConns,   \* connections accepted in a run
  MaxChunks   \* most buffer-fulls of output in one answer

ASSUME PoolAssumption ==
  /\ Fds \subseteq Nat
  /\ MaxConns \in Nat /\ MaxChunks \in Nat

Conn == 1..MaxConns
Status == {"READ_HEADER", "BUFF_POLL", "BUFF_READ", "BUFF_WRITE", "DONE", "TIMED_OUT", "DEAD"}

VARIABLES
  ptr,       \* the three lists
  where,     \* history: the list each structure is on, "none" when not allocated
  rq,        \* the request structures
  jobs,      \* work handed to a worker and not answered yet
  lost,      \* history: connections whose worker failed
  accepted,  \* connections accepted so far
  pc,        \* where the loop is
  current,   \* the request a walk is at
  rv,        \* what the handler returned; 2 is any value but -1, 0 and 1
  todo       \* history: the requests the walk has yet to visit

vars == <<ptr, where, rq, jobs, lost, accepted, pc, current, rv, todo>>

(***************************************************************************)
(* fd is the descriptor number; a structure on the free list keeps it.     *)
(* buff is the output in req->buff, a buffer-full at a time, each the      *)
(* connection it was made for; win is the one between header_line and      *)
(* header_end, 0 when there is none.  cgi is cgi_status, CGI_PARSE until a  *)
(* worker has answered.  conn is the connection served, 0 when there is    *)
(* none.                                                                   *)
(***************************************************************************)
Request ==
  [status : Status, fd : Fds \cup {0}, buff : Seq(Conn), win : Conn \cup {0},
   cgi : {"PARSE", "BUFFER", "DONE"}, conn : Conn \cup {0}]

Job == [fd : Fds \cup {0}, conn : Conn]

Init ==
  /\ ptr = EmptyStore
  /\ where = [r \in Req |-> "none"]
  /\ rq = [r \in Req |-> [status |-> "READ_HEADER", fd |-> 0, buff |-> <<>>,
                          win |-> 0, cgi |-> "PARSE", conn |-> 0]]
  /\ jobs = {} /\ lost = {} /\ accepted = 0
  /\ pc = "select" /\ current = NULL /\ rv = 1 /\ todo = {}

On(l) == {r \in Req : where[r] = l}
Served == On("ready") \cup On("block")

\* block_request and ready_request; their descriptor sets are EventLoop's.
MoveTo(s, from, to, r) == enqueue(dequeue(s, from, r), to, r)

-----------------------------------------------------------------------------
(***************************************************************************)
(* select_loop between two passes                                          *)
(***************************************************************************)

\* sighup_run: free_requests gives the structures on the free list back.
sighup_run ==
  /\ pc = "select"
  /\ ptr' = [ptr EXCEPT !.head["free"] = NULL]
  /\ where' = [r \in Req |-> IF where[r] = "free" THEN "none" ELSE where[r]]
  /\ UNCHANGED <<rq, jobs, lost, accepted, pc, current, rv, todo>>

\* select returns; fdset_update starts at the head of the block list.
Select ==
  /\ pc = "select"
  /\ IF ptr.head["block"] = NULL
       THEN pc' = "pending" /\ UNCHANGED <<current, todo>>
       ELSE pc' = "update" /\ current' = ptr.head["block"] /\ todo' = On("block")
  /\ UNCHANGED <<ptr, where, rq, jobs, lost, accepted, rv>>

\* One turn of fdset_update: the request sleeps on, is woken, or has timed
\* out and is woken to be closed.
fdset_update ==
  /\ pc = "update"
  /\ LET r == current
         next == ptr.next[r]
     IN  /\ \/ /\ rq[r].status \notin {"TIMED_OUT", "DEAD"}
               /\ UNCHANGED <<ptr, where, rq>>
            \/ /\ ptr' = MoveTo(ptr, "block", "ready", r)
               /\ where' = [where EXCEPT ![r] = "ready"]
               /\ \/ UNCHANGED rq
                  \/ rq' = [rq EXCEPT ![r].status = "TIMED_OUT"]
         /\ current' = next
         /\ todo' = todo \ {r}
         /\ pc' = IF next = NULL THEN "pending" ELSE "update"
  /\ UNCHANGED <<jobs, lost, accepted, rv>>

\* process_requests starts at the head of the ready list.
process_requests ==
  /\ pc \in {"pending", "begin"}
  /\ current' = ptr.head["ready"]
  /\ todo' = On("ready")
  /\ pc' = IF current' = NULL THEN "select" ELSE "handle"
  /\ UNCHANGED <<ptr, where, rq, jobs, lost, accepted, rv>>

-----------------------------------------------------------------------------
(***************************************************************************)
(* get_request, called before the walk and after each handler while        *)
(* connections are pending.  sanitize_request clears the fields before fd; *)
(* buff is below the line "kept regardless".                               *)
(***************************************************************************)

KeepsWindow(q) == [q EXCEPT !.status = "READ_HEADER", !.cgi = "PARSE"]
sanitize_request(q) == [q EXCEPT !.status = "READ_HEADER", !.win = 0, !.cgi = "PARSE"]

\* The connection has descriptor fd and structure r, in list to: the ready
\* list, or the free list when the socket could not be set up and was closed.
Admit(s, r, fd, old, to) ==
  /\ accepted' = accepted + 1
  /\ ptr' = enqueue(s, to, r)
  /\ where' = [where EXCEPT ![r] = to]
  /\ rq' = [rq EXCEPT ![r] =
              [sanitize_request(old) EXCEPT
                 !.fd = fd, !.conn = IF to = "ready" THEN accepted + 1 ELSE 0]]

\* accept returns the lowest number that is not open.
Accepts(fd) ==
  LET open == {rq[q].fd : q \in Served}
  IN  fd \notin open /\ \A g \in Fds : g < fd => g \in open

\* new_request takes the head of the free list, or memory that is either
\* clear or still holds what it held when free_requests gave it back (one of
\* the unused structures stands for whichever malloc returns).
get_request ==
  /\ pc \in {"pending", "accept"}
  /\ accepted < MaxConns
  /\ \E fd \in Fds, to \in {"ready", "free"} :
       /\ Accepts(fd)
       /\ LET r == ptr.head["free"]
              m == CHOOSE x \in On("none") : TRUE
          IN  \/ r # NULL /\ Admit(dequeue(ptr, "free", r), r, fd, rq[r], to)
              \/ /\ r = NULL /\ On("none") # {}
                 /\ \E old \in {rq[m], [rq[m] EXCEPT !.buff = <<>>]} :
                      Admit(ptr, m, fd, old, to)
  /\ pc' = IF pc = "pending" THEN "begin" ELSE "move"
  /\ UNCHANGED <<jobs, lost, current, rv, todo>>

-----------------------------------------------------------------------------
(***************************************************************************)
(* The handlers process_requests calls on current                          *)
(***************************************************************************)

Handled(st, v) ==
  /\ pc = "handle"
  /\ rq[current].status = st
  /\ rv' = v
  /\ pc' = "accept"
  /\ UNCHANGED <<ptr, where, accepted, current, todo>>

\* A handler of a request without a worker; also shproc_push refusing work,
\* whose error init_work_cgi returns.
PassesFlushError ==
  \E v \in {-2, -1, 0, 1} : Handled("READ_HEADER", v) /\ UNCHANGED <<rq, jobs, lost>>
OtherHandler ==
  \E v \in {-1, 0, 1, 2} : Handled("READ_HEADER", v) /\ UNCHANGED <<rq, jobs, lost>>

\* init_work_cgi: the work is pushed and names the descriptor.
init_work_cgi ==
  /\ Handled("READ_HEADER", 1)
  /\ jobs' = jobs \cup {[fd |-> rq[current].fd, conn |-> rq[current].conn]}
  /\ rq' = [rq EXCEPT ![current].status = "BUFF_POLL"]
  /\ UNCHANGED lost

\* find_request_by_fd: the ready list, then the block list, then the free
\* list.  Open connections differ in fd; the free list may hold a number
\* more than once, and whichever is first is found.
find_request_by_fd(fd) ==
  LET with(l) == {r \in On(l) : rq[r].fd = fd}
  IN  IF with("ready") # {} THEN with("ready")
      ELSE IF with("block") # {} THEN with("block")
      ELSE IF with("free") # {} THEN with("free")
      ELSE {NULL}

\* cgi_work_resp: n buffer-fulls of output made for connection c go to the
\* request found.  Worker requests are never EXEC, so all of the buffer is
\* used and no header is parsed.
AppendsOnly(s, r, c, n) ==
  [s EXCEPT ![r].buff = @ \o [i \in 1..n |-> c], ![r].cgi = "BUFFER", ![r].win = 0]
cgi_work_resp(s, r, c, n) ==
  [s EXCEPT ![r].buff = @ \o [i \in 1..n |-> c], ![r].status = "BUFF_READ",
            ![r].cgi = "BUFFER", ![r].win = 0]

\* poll_from_shbuff after shproc_poll: go on to read when there is output.
PollTimesOut(s) ==
  IF s[current].buff # <<>> THEN [s EXCEPT ![current].status = "BUFF_READ"]
  ELSE IF s[current].status = "BUFF_POLL" THEN [s EXCEPT ![current].status = "DEAD"] ELSE s
Polled(s) ==
  IF s[current].buff # <<>> THEN [s EXCEPT ![current].status = "BUFF_READ"] ELSE s

\* poll_from_shbuff, with nothing to collect, a worker's answer, or a
\* worker's failure, which cgi_work_resp drops.
PollNothing ==
  Handled("BUFF_POLL", 1) /\ rq' = Polled(rq) /\ UNCHANGED <<jobs, lost>>

PollAnswer(j) ==
  /\ Handled("BUFF_POLL", 1)
  /\ \E n \in 0..MaxChunks, r \in find_request_by_fd(j.fd) :
       rq' = Polled(IF r = NULL THEN rq ELSE cgi_work_resp(rq, r, j.conn, n))
  /\ jobs' = jobs \ {j}
  /\ UNCHANGED lost

PollFailure(j) ==
  /\ Handled("BUFF_POLL", 1)
  /\ rq' = Polled(rq)
  /\ jobs' = jobs \ {j}
  /\ lost' = lost \cup {j.conn}

poll_from_shbuff ==
  PollNothing \/ \E j \in jobs : PollAnswer(j) \/ PollFailure(j)

\* The write of write_from_shbuff on request q, whose window is not empty:
\* it sends some or is interrupted, would block, sends the rest, or fails.
WriteWindow(st, q) ==
  \/ /\ \E v \in {1, -1} : Handled(st, v)
     /\ rq' = [rq EXCEPT ![current] = q]
  \/ /\ Handled(st, 1)
     /\ rq' = [rq EXCEPT ![current] = [q EXCEPT !.status = "BUFF_READ", !.win = 0]]
  \/ /\ Handled(st, 0)
     /\ rq' = [rq EXCEPT ![current] = [q EXCEPT !.status = "DEAD"]]

write_from_shbuff ==
  /\ pc = "handle"
  /\ LET q == rq[current]
     IN  \/ q.win # 0 /\ WriteWindow("BUFF_WRITE", q)
         \/ /\ q.win = 0 /\ q.cgi = "DONE"
            /\ Handled("BUFF_WRITE", 0)
            /\ UNCHANGED rq
         \/ /\ q.win = 0 /\ q.cgi # "DONE"
            /\ Handled("BUFF_WRITE", 1)
            /\ rq' = [rq EXCEPT ![current].status = "BUFF_READ"]
  /\ UNCHANGED <<jobs, lost>>

\* The rest of read_from_shbuff once a worker has answered.  A window left
\* over from a blocked write is a full buffer while there is more output; the
\* last one may be shorter, and is then taken for the end.
ReadAnswer(q) ==
  \/ /\ q.win = 0 /\ q.buff # <<>>
     /\ WriteWindow("BUFF_READ", [q EXCEPT !.win = Head(q.buff), !.buff = Tail(q.buff)])
  \/ /\ q.win # 0 \/ q.buff = <<>>
     /\ Handled("BUFF_READ", 1)
     /\ \E end \in BOOLEAN :
          /\ q.buff # <<>> => ~end
          /\ q.win = 0 => end
          /\ rq' = [rq EXCEPT ![current] =
                      [q EXCEPT !.status = "BUFF_WRITE", !.cgi = IF end THEN "DONE" ELSE @]]

\* ... and before: output an earlier connection left in req->buff is all
\* copied (header_line still points to the client's stream, so there is no
\* limit) and searched for the end of a header, which ends the turn without
\* one.  Otherwise process_cgi_header refuses it, passes it on (merged into
\* the buffer it is still the window here) or answers with its Location.
ReadLeftover(q) ==
  LET p  == [q EXCEPT !.win = IF q.buff = <<>> THEN @ ELSE Head(q.buff), !.buff = <<>>]
      st == IF q.buff = <<>> THEN "BUFF_WRITE" ELSE "BUFF_READ"
  IN  \/ /\ q.buff # <<>>
         /\ Handled("BUFF_READ", 1)
         /\ rq' = [rq EXCEPT ![current] = p]
      \/ \E o \in {<<st, 0>>, <<st, 1>>, <<"DONE", 1>>} :
           /\ Handled("BUFF_READ", o[2])
           /\ rq' = [rq EXCEPT ![current] = [p EXCEPT !.status = o[1], !.cgi = "DONE"]]

read_from_shbuff ==
  /\ pc = "handle"
  /\ IF rq[current].cgi = "PARSE" THEN ReadLeftover(rq[current]) ELSE ReadAnswer(rq[current])
  /\ UNCHANGED <<jobs, lost>>

\* The statuses of a request that is to be closed; one that is DONE may have
\* to wait until its client takes the answer in the buffer.
Closing ==
  /\ \E o \in {<<"TIMED_OUT", 0>>, <<"DEAD", 0>>, <<"DONE", -1>>, <<"DONE", 0>>, <<"DONE", 1>>} :
       Handled(o[1], o[2])
  /\ UNCHANGED <<rq, jobs, lost>>

Handler ==
  OtherHandler \/ init_work_cgi \/ poll_from_shbuff \/ read_from_shbuff
    \/ write_from_shbuff \/ Closing

-----------------------------------------------------------------------------
(***************************************************************************)
(* The end of process_requests' turn: current moves on, then the request   *)
(* is moved as its handler's return value says.                            *)
(***************************************************************************)

NextAfterMove == ptr'.next[current]
NextOne == ptr.next[current]

Returned(v) == pc \in {"accept", "move"} /\ rv = v

Onward ==
  /\ current' = NextOne
  /\ todo' = todo \ {current}
  /\ pc' = IF current' = NULL THEN "select" ELSE "handle"
  /\ rv' = 1
  /\ UNCHANGED <<jobs, lost, accepted>>

MoveCurrent(to) ==
  /\ ptr' = MoveTo(ptr, "ready", to, current)
  /\ where' = [where EXCEPT ![current] = to]

block_request == Returned(-1) /\ MoveCurrent("block") /\ UNCHANGED rq /\ Onward

\* free_request: the connection is kept alive (never after a worker: init_cgi
\* squashes it) or closed.
free_request ==
  /\ Returned(0)
  /\ \/ rq[current].status = "READ_HEADER" /\ MoveCurrent("block") /\ UNCHANGED rq
     \/ MoveCurrent("free") /\ rq' = [rq EXCEPT ![current].conn = 0]
  /\ Onward

MoreToDo == Returned(1) /\ UNCHANGED <<ptr, where, rq>> /\ Onward

UnknownRetval ==
  /\ Returned(2)
  /\ rq' = [rq EXCEPT ![current].status = "DEAD"]
  /\ UNCHANGED <<ptr, where>>
  /\ Onward

MoveOn == block_request \/ free_request \/ MoreToDo \/ UnknownRetval

LoopStep == Select \/ fdset_update \/ process_requests \/ Handler \/ MoveOn

Next == LoopStep \/ get_request \/ sighup_run

Spec == Init /\ [][Next]_vars

\* Worker processes answer or fail in the end, so polling over and over
\* finds what became of each job.
Answered(c) == \E j \in jobs : j.conn = c /\ (PollAnswer(j) \/ PollFailure(j))

FairSpec ==
  /\ Spec
  /\ WF_vars(LoopStep)
  /\ \A c \in Conn : SF_vars(Answered(c))

-----------------------------------------------------------------------------
\* Type correctness.
TypeOK ==
  /\ ptr \in Store
  /\ where \in [Req -> Lists \cup {"none"}]
  /\ rq \in [Req -> Request]
  /\ jobs \subseteq Job /\ lost \subseteq Conn
  /\ accepted \in 0..MaxConns
  /\ pc \in {"select", "update", "pending", "begin", "handle", "accept", "move"}
  /\ current \in Pointer
  /\ rv \in {-1, 0, 1, 2}
  /\ todo \subseteq Req

\* Whatever order requests are woken, blocked, freed and accepted in, each
\* list ends, is linked both ways and holds exactly the requests put on it:
\* dequeue moves the head given to it although free_request and new_request
\* pass different ones (queue.c dequeue "from ready or block list").
ListsSound ==
  \A l \in Lists : WellLinked(ptr, ptr.head[l]) /\ From(ptr, ptr.head[l]) = On(l)

\* The neighbours of a request are on its list and point back, and the ends
\* of a list are where its head says: what dequeue and enqueue keep true,
\* and what ListsSound and both walks rest on.
Linked == LinkedIn(ptr, where)

\* Both walks, which move the request they are at to another list and accept
\* new ones meanwhile, still visit every request that was on the list at the
\* start and no other (process_requests: "current->next is valid!").
WalkVisitsAll ==
  pc \in {"update", "handle", "accept", "move"} => From(ptr, current) = todo

\* The asker is still there: a job's descriptor belongs to the open request
\* that pushed it, and that request is polling.  (A request that polls cannot
\* time out or be closed, so cgi_work_resp, which only has the number, finds
\* the asker and not a later user of the number.)
AskerPolls ==
  \A j \in jobs : \E r \in Served :
    /\ rq[r].fd = j.fd /\ rq[r].conn = j.conn
    /\ rq[r].status = "BUFF_POLL" /\ where[r] = "ready"

\* What a request is about to write to its client is what a worker made for
\* this client, although structures, their req->buff and descriptor numbers
\* pass from connection to connection.
OwnOutput == \A r \in Served : rq[r].win \in {0, rq[r].conn}

\* A request does not poll for ever, unless its worker failed.
PollEnds ==
  \A c \in Conn :
    (\E r \in Served : rq[r].conn = c /\ rq[r].status = "BUFF_POLL")
      ~> (c \in lost \/ \A r \in Served : rq[r].conn = c => rq[r].status # "BUFF_POLL")
=============================================================================
