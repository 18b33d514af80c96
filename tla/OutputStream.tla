---------------------------- MODULE OutputStream ----------------------------
(***************************************************************************)
(* The bytes of one connection's answers on their way to the client:       *)
(* through request.buffer (buffer.c), straight from a file (process_get,   *)
(* io_shuffle_sendfile) and from a program's pipe, which uses the same     *)
(* buffer (pipe.c, cgi_header.c), as process_requests and free_request     *)
(* drive them.                                                             *)
(*                                                                         *)
(* A byte is its position in the stream of answers the connection should   *)
(* carry, so the client must see 1, 2, 3, ...; 0 is a NUL, and what lies   *)
(* in the buffer before anything is stored.  The socket takes what it      *)
(* has room for; the client takes bytes out of it at any moment, also      *)
(* between two writes of one visit.  Filters (gzip, deflate) are left out. *)
(*                                                                         *)
(* AdvancedWhenEmpty, MergeOutputUnchecked, DispatchTouchesTime and        *)
(* NoFinalFlush are the definitions after them with a fault; nothing uses  *)
(* them.                                                                   *)
(***************************************************************************)
EXTENDS Integers, Sequences, FiniteSetsExt

CONSTANTS
  Kinds,       \* what clients ask for, a subset of AllKinds
  BufferSize,  \* BUFFER_SIZE
  HeaderSize,  \* bytes of a response header (and of an error page)
  PartSize,    \* bytes of a part header or trailer in a multipart answer
  Margin,      \* the 256 bytes init_get wants free before it copies file data
  PartLists,   \* the lengths of the ranges a client may ask for
  Programs,    \* the numbers of bytes a program may put out
  SockSize,    \* room in the socket's send buffer
  MaxAnswers,  \* requests on the connection
  RequestTimeout  \* REQUEST_TIMEOUT, in ticks

AllKinds == {"page", "mapped", "file", "dir", "cgi", "raw"}

ASSUME KindsAssumption == Kinds \subseteq AllKinds
ASSUME SizesAssumption ==
  /\ BufferSize \in Nat \ {0} /\ SockSize \in Nat \ {0}
  /\ HeaderSize \in 1..(BufferSize \div 2)
  /\ PartSize \in Nat \ {0} /\ Margin \in Nat
  /\ MaxAnswers \in Nat /\ RequestTimeout \in Nat
  /\ Programs \subseteq Nat
  /\ PartLists \subseteq Seq(Nat \ {0}) \ {<<>>}

Half == BufferSize \div 2
Status == {"READ_HEADER", "WRITE", "IOSHUFFLE", "PIPE_READ", "PIPE_WRITE",
           "DONE", "TIMED_OUT", "DEAD"}
Faults == {"lost", "overtaken"}

VARIABLES
  conn,    \* the request, its socket and what the client was sent
  pc,      \* where process_requests is with the request
  asked,   \* requests the client has made
  age      \* current_time - time_last, in ticks

vars == <<conn, pc, asked, age>>

(***************************************************************************)
(* bstart, bend: buffer_start and buffer_end.  hline, hend: header_line    *)
(* and header_end as offsets into buffer.  parts: bytes left in each range *)
(* of the request; multi: a 206 whose numranges, which also counts ranges  *)
(* that ranges_fixup dropped, is over 1.  prog: bytes the program has yet  *)
(* to put out.  cut: the file has been truncated.  made: bytes produced so *)
(* far, base of them before this answer.  room: free space in the socket;  *)
(* gone: the peer has reset it, and writes fail.  sent (history): what the *)
(* socket took.  faults (history): "lost", free_request dropped bytes, or  *)
(* a trailer found no room; "overtaken", bytes left by a partial flush     *)
(* were passed by a handler's own write, or overwritten.                   *)
(***************************************************************************)
Connection ==
  [status : Status, mem : [0..BufferSize -> Nat], bstart : Nat, bend : Nat,
   hline : Nat, hend : Nat, cgi : {"PARSE", "BUFFER", "DONE"},
   kind : AllKinds, head : BOOLEAN, ka : BOOLEAN, parts : Seq(Nat),
   multi : BOOLEAN, prog : Nat, cut : BOOLEAN, base : Nat, made : Nat,
   room : 0..SockSize, gone : BOOLEAN, sent : Seq(Nat),
   faults : SUBSET Faults]

BeforeTimedOut(q) == q.status \notin {"TIMED_OUT", "DEAD"}

Outcome(rv, q) == [rv |-> rv, q |-> q]
Blocked(q)  == Outcome(-1, q)
Complete(q) == Outcome(0, q)
MoreToDo(q) == Outcome(1, q)
Died(q)     == Complete([q EXCEPT !.status = "DEAD"])

-----------------------------------------------------------------------------
\* mem with the n bytes numbered from first on put at offset at
Stored(mem, at, n, first) ==
  [i \in DOMAIN mem |-> IF i \in at..(at + n - 1) THEN first + (i - at) ELSE mem[i]]

\* the bytes of mem from offset from up to, not including, to
Bytes(mem, from, to) == [i \in 1..(to - from) |-> mem[from + i - 1]]

\* the next n bytes of the answer
Fresh(q, n) == [i \in 1..n |-> q.made + i]

\* write(fd, bs): the socket takes as much as it has room for
Taken(q, bs) == Min({q.room, Len(bs)})
Written(q, bs) ==
  [q EXCEPT !.sent = @ \o SubSeq(bs, 1, Taken(q, bs)), !.room = @ - Taken(q, bs)]

\* a handler's own write while the buffer still holds bytes
Direct(q, bs) ==
  [Written(q, bs) EXCEPT !.faults = IF q.bend = 0 THEN @ ELSE @ \cup {"overtaken"}]

(***************************************************************************)
(* req_write: refused after DONE, fatal when the buffer has no room behind *)
(* buffer_end (the room before buffer_start is not used).                  *)
(***************************************************************************)
req_write(q, n) ==
  IF ~BeforeTimedOut(q) THEN q
  ELSE IF q.bend + n > BufferSize THEN [q EXCEPT !.status = "DEAD"]
  ELSE [q EXCEPT !.mem = Stored(@, q.bend, n, q.made + 1),
                 !.bend = @ + n, !.made = @ + n]

(***************************************************************************)
(* req_flush: -2 failed, -1 blocked, otherwise buffer_end afterwards.      *)
(***************************************************************************)
AdvancedWhenEmpty(q, k) ==
  IF q.bstart + k = q.bend THEN [q EXCEPT !.bstart = 0, !.bend = 0] ELSE q

Advanced(q, k) ==
  IF q.bstart + k = q.bend THEN [q EXCEPT !.bstart = 0, !.bend = 0]
  ELSE [q EXCEPT !.bstart = @ + k]

req_flush(q) ==
  LET bs == Bytes(q.mem, q.bstart, q.bend)
  IN  IF ~BeforeTimedOut(q) THEN {Outcome(-2, q)}
      ELSE IF q.bend = q.bstart THEN {Outcome(0, Advanced(q, 0))}
      ELSE IF q.gone
           THEN {Outcome(-2, [q EXCEPT !.status = "DEAD", !.bstart = 0, !.bend = 0])}
      ELSE IF q.room = 0 THEN {Blocked(q)}
      ELSE LET w == Advanced(Written(q, bs), Taken(q, bs)) IN {Outcome(w.bend, w)}

\* the states after a flush whose result is not looked at
Flushed(q) == {o.q : o \in req_flush(q)}

\* send_r_error, send_r_bad_gateway, ...: SQUASH_KA, a page and a flush.
\* What was produced of another answer and never left the server is void.
send_r(q) == Flushed(req_write([q EXCEPT !.ka = FALSE, !.made = q.base], HeaderSize))

(***************************************************************************)
(* complete_response: the range is taken off the list.  In a multipart     *)
(* answer the header of the next part follows, or the trailer; any other   *)
(* answer is complete.  The DEAD that req_write leaves when a trailer does *)
(* not fit is overwritten by DONE: the answer ends without its trailer.    *)
(***************************************************************************)
Trailed(q) ==
  LET w == req_write(q, PartSize)
  IN  [w EXCEPT !.status = "DONE",
                !.faults = IF BeforeTimedOut(w) THEN @ ELSE @ \cup {"lost"}]

complete_response(q) ==
  LET popped == [q EXCEPT !.parts = Tail(@)]
  IN  IF ~q.multi THEN {Complete([popped EXCEPT !.status = "DONE"])}
      ELSE IF popped.parts # <<>> THEN {MoreToDo(req_write(popped, PartSize))}
      ELSE {MoreToDo(p) : p \in Flushed(Trailed(popped))}

(***************************************************************************)
(* process_get and io_shuffle_sendfile write the range straight from the   *)
(* file.  A truncated file raises SIGBUS in the one and makes sendfile     *)
(* return 0, which counts as blocked, in the other.                        *)
(***************************************************************************)
SendChunk(q) ==
  LET bs == Fresh(q, Head(q.parts))
      k  == Taken(q, bs)
      w  == [Direct(q, bs) EXCEPT !.made = @ + k, !.parts[1] = @ - k]
  IN  IF q.gone THEN {Died(q)}
      ELSE IF k = 0 THEN {Blocked(q)}
      ELSE IF w.parts[1] = 0 THEN complete_response(w) ELSE {MoreToDo(w)}

process_get(q) ==
  IF q.head THEN complete_response(q)
  ELSE IF q.cut THEN {Died(q)} ELSE SendChunk(q)

io_shuffle_sendfile(q) ==
  IF q.head THEN complete_response(q)
  ELSE IF q.cut /\ ~q.gone THEN {Blocked(q)} ELSE SendChunk(q)

-----------------------------------------------------------------------------
\* write_from_pipe writes what lies between header_line and header_end.
PipeDrained(q) == [q EXCEPT !.status = "PIPE_READ", !.hline = 0, !.hend = 0]

write_from_pipe(q) ==
  LET bs == Bytes(q.mem, q.hline, q.hend)
      k  == Taken(q, bs)
      w  == [Direct(q, bs) EXCEPT !.hline = @ + k]
  IN  IF q.hline = q.hend
      THEN {IF q.cgi = "DONE" THEN Complete(q) ELSE MoreToDo(PipeDrained(q))}
      ELSE IF q.gone THEN {Died(q)}
      ELSE IF k = 0 THEN {Blocked(q)}
      ELSE {MoreToDo(IF w.hline = w.hend THEN PipeDrained(w) ELSE w)}

(***************************************************************************)
(* process_cgi_header.  No end of the header: 502.  Location: a            *)
(* redirection.  A Status header (kind raw) is passed on as it is.         *)
(* Otherwise the server's header goes into the buffer, the program's       *)
(* output is moved up behind it and the whole is flushed; for a HEAD only  *)
(* the program's header (n of its bytes) is kept, and that ends it.        *)
(***************************************************************************)
SendOk(q) ==
  [q EXCEPT !.mem = Stored(@, q.bend, HeaderSize, q.base + 1), !.bend = @ + HeaderSize]

Merged(q, n) ==
  LET ok    == SendOk(q)
      moved == [i \in DOMAIN ok.mem |->
                  IF i \in ok.bend..(ok.bend + n - 1) THEN ok.mem[q.hline + (i - ok.bend)]
                  ELSE ok.mem[i]]
  IN  [ok EXCEPT !.mem = moved, !.bend = @ + n, !.hline = ok.bend + n, !.hend = ok.bend + n,
                 !.made = q.base + HeaderSize + n]

MergeOutputUnchecked(q, n) ==
  {Outcome(IF q.head THEN 0 ELSE 1, p) : p \in Flushed(Merged(q, n))}

MergeOutput(q, n) ==
  IF q.bend + HeaderSize + n > BufferSize
  THEN {Complete(p) : p \in send_r([q EXCEPT !.bstart = 0, !.bend = 0])}
  ELSE {Outcome(IF q.head THEN 0 ELSE 1, p) : p \in Flushed(Merged(q, n))}

process_cgi_header(q0, found) ==
  LET q == IF q0.cgi = "DONE" THEN q0 ELSE [q0 EXCEPT !.cgi = "BUFFER"]
      n == q.hend - q.hline
  IN  IF ~found THEN {Complete(p) : p \in send_r(q)}
      ELSE IF q.kind = "raw" THEN {MoreToDo(q)}
      ELSE {MoreToDo([p EXCEPT !.status = "DONE"]) : p \in send_r(q)}
           \cup (IF q.head
                 THEN UNION {MergeOutput([q EXCEPT !.cgi = "DONE"], k) : k \in 0..n}
                 ELSE MergeOutput(q, n))

(***************************************************************************)
(* read_from_pipe reads behind header_end and stores a NUL behind what it  *)
(* has read, also behind nothing at the end of the output.  (A read that   *)
(* fills the room puts the NUL behind buffer, where nothing is kept.)      *)
(* While the program's header is not complete it only collects; later it   *)
(* writes at once what it has read.                                        *)
(***************************************************************************)
PipeRoom(q) == BufferSize - (q.hend - 1)

Terminated(mem, at) == [i \in DOMAIN mem |-> IF i = at THEN 0 ELSE mem[i]]

Collected(q, n) ==
  [q EXCEPT !.mem = Terminated(Stored(@, q.hend, n, q.made + 1), q.hend + n),
            !.hend = @ + n, !.made = @ + n, !.prog = @ - n,
            !.faults = IF (q.hend..(q.hend + n)) \cap (q.bstart..(q.bend - 1)) = {}
                       THEN @ ELSE @ \cup {"overtaken"}]

BufferFull(q) ==
  IF q.cgi = "PARSE"
  THEN process_cgi_header([q EXCEPT !.cgi = "BUFFER"], FALSE)
  ELSE {MoreToDo([q EXCEPT !.status = "PIPE_WRITE"])}

PipeEof(q) ==
  LET e == [q EXCEPT !.status = "PIPE_WRITE", !.cgi = "DONE"]
  IN  IF q.cgi = "PARSE" THEN process_cgi_header(e, FALSE) ELSE {MoreToDo(e)}

PipeData(q) ==
  IF q.cgi # "PARSE" THEN write_from_pipe(q)
  ELSE {MoreToDo(q)} \cup process_cgi_header([q EXCEPT !.cgi = "DONE"], TRUE)

read_from_pipe(q) ==
  IF PipeRoom(q) = 0 THEN BufferFull(q)
  ELSE {Blocked(q), Died(q)}
       \cup (IF q.prog = 0 THEN PipeEof(Collected(q, 0))
             ELSE UNION {PipeData(Collected(q, n)) : n \in 1..Min({q.prog, PipeRoom(q)})})

-----------------------------------------------------------------------------
(***************************************************************************)
(* init_get for a regular file: the header, and for a mapped file as much  *)
(* of the first range as fits.  SIGBUS while copying throws the buffer     *)
(* away (reset_output_buffer) and answers with an error.                   *)
(***************************************************************************)
Answering(q, s) ==
  req_write([q EXCEPT !.status = s], HeaderSize + (IF q.multi THEN PartSize ELSE 0))

reset_output_buffer(q) == [q EXCEPT !.bend = 0]

FillBuffer(q) ==
  LET space == BufferSize - q.bend
      n     == Min({space, Head(q.parts)})
      full  == [q EXCEPT !.mem = Stored(@, q.bend, n, q.made + 1), !.bend = @ + n,
                         !.made = @ + n, !.parts[1] = @ - n]
  IN  IF space <= Margin THEN {MoreToDo(q)}
      ELSE IF q.cut THEN {Complete(p) : p \in send_r(reset_output_buffer(q))}
      ELSE IF full.parts[1] = 0 THEN complete_response(full)
      ELSE {MoreToDo(full)}

init_get(q) ==
  LET a == Answering(q, IF q.kind = "file" THEN "IOSHUFFLE" ELSE "WRITE")
  IN  IF q.head THEN complete_response(a)
      ELSE IF q.kind = "file" THEN {MoreToDo(a)}
      ELSE FillBuffer(a)

\* init_cgi for a program: half of the buffer, and for one that gets a server
\* header the room in the stream that header will need
init_cgi(q) ==
  {MoreToDo([q EXCEPT !.ka = FALSE, !.status = "PIPE_READ", !.cgi = "PARSE",
                      !.hline = Half, !.hend = Half,
                      !.made = @ + (IF q.kind = "cgi" THEN HeaderSize ELSE 0)])}

\* get_dir with a directory maker: header, a flush nobody looks at, and then
\* the program gets all the buffer
get_dir(q) ==
  LET h == Flushed(req_write([q EXCEPT !.ka = FALSE, !.status = "WRITE"], HeaderSize))
  IN  IF q.head THEN {Complete(p) : p \in h}
      ELSE {MoreToDo([p EXCEPT !.status = "PIPE_READ", !.cgi = "BUFFER",
                               !.hline = 0, !.hend = 0]) : p \in h}

Answer(q) ==
  CASE q.kind = "page" -> {Complete(p) : p \in send_r(q)}
    [] q.kind \in {"mapped", "file"} -> init_get(q)
    [] q.kind = "dir" -> get_dir(q)
    [] q.kind \in {"cgi", "raw"} -> init_cgi(q)

-----------------------------------------------------------------------------
\* The switch of process_requests.
Handle(q) ==
  CASE q.status = "WRITE" -> process_get(q)
    [] q.status = "IOSHUFFLE" -> io_shuffle_sendfile(q)
    [] q.status = "PIPE_READ" -> read_from_pipe(q)
    [] q.status = "PIPE_WRITE" -> write_from_pipe(q)
    [] q.status = "DONE" ->
         {IF o.rv = -2 THEN Died(o.q) ELSE IF o.rv > 0 THEN MoreToDo(o.q) ELSE o :
            o \in req_flush(q)}
    [] q.status \in {"TIMED_OUT", "DEAD"} ->
         {Complete([q EXCEPT !.bend = 0, !.ka = FALSE])}

Init ==
  /\ \E k \in Kinds :
       conn = [status |-> "READ_HEADER", mem |-> [i \in 0..BufferSize |-> 0],
               bstart |-> 0, bend |-> 0, hline |-> 0, hend |-> 0, cgi |-> "PARSE",
               kind |-> k, head |-> FALSE, ka |-> FALSE, parts |-> <<>>,
               multi |-> FALSE, prog |-> 0, cut |-> FALSE, base |-> 0, made |-> 0,
               room |-> SockSize, gone |-> FALSE, sent |-> <<>>, faults |-> {}]
  /\ pc = "idle"
  /\ asked = 0
  /\ age = 0

\* -1: block list; 0: free_request; 1: stays on the ready list
DispatchTouchesTime(o) ==
  /\ conn' = o.q
  /\ pc' = CASE o.rv = -1 -> "blocked" [] o.rv = 0 -> "free" [] o.rv > 0 -> "flush"
  /\ age' = 0

Dispatch(o) ==
  /\ conn' = o.q
  /\ pc' = CASE o.rv = -1 -> "blocked" [] o.rv = 0 -> "free" [] o.rv > 0 -> "flush"
  /\ age' = IF o.rv = -1 THEN age ELSE 0

\* what a request may ask for: ranges of a file, or a program's output; of
\* several ranges ranges_fixup may have left one
Wants ==
  {w \in [kind : Kinds \cap {"mapped", "file"}, parts : PartLists, multi : BOOLEAN,
          prog : {0}, cut : BOOLEAN] : Len(w.parts) > 1 => w.multi}
  \cup [kind : Kinds \cap {"dir", "cgi", "raw"}, parts : {<<>>}, multi : {FALSE},
        prog : Programs, cut : {FALSE}]
  \cup [kind : Kinds \cap {"page"}, parts : {<<>>}, multi : {FALSE}, prog : {0},
        cut : {FALSE}]

\* read_header reads a request and starts its answer; the file may be
\* truncated between fstat and the copy.
NewRequest ==
  /\ pc = "idle"
  /\ asked < MaxAnswers
  /\ asked' = asked + 1
  /\ \E w \in Wants, h, a \in BOOLEAN :
       \E o \in Answer([conn EXCEPT !.kind = w.kind, !.head = h, !.ka = a,
                                    !.parts = w.parts, !.multi = w.multi,
                                    !.prog = w.prog, !.cut = w.cut, !.base = conn.made]) :
         Dispatch(o)

\* The flush at the head of a visit; bytes left do not stop the handler.
Flush ==
  /\ pc = "flush"
  /\ UNCHANGED asked
  /\ IF conn.bend # 0 /\ BeforeTimedOut(conn)
     THEN \E o \in req_flush(conn) :
            IF o.rv = -2 THEN Dispatch(Died(o.q))
            ELSE IF o.rv = -1 THEN Dispatch(o)
            ELSE conn' = o.q /\ pc' = "handle" /\ UNCHANGED age
     ELSE pc' = "handle" /\ UNCHANGED <<conn, age>>

HandleRequest ==
  /\ pc = "handle"
  /\ UNCHANGED asked
  /\ \E o \in Handle(conn) : Dispatch(o)

(***************************************************************************)
(* free_request: one more flush; a partial one keeps the request as DONE,  *)
(* a blocked one loses what is left.  Then the connection waits for its    *)
(* next request, with the fields of the request zeroed, or is closed.      *)
(***************************************************************************)
NoFinalFlush(q) == {Outcome(0, q)}

FinalFlush(q) ==
  IF q.bend # 0 /\ BeforeTimedOut(q) THEN req_flush([q EXCEPT !.status = "DONE"])
  ELSE {Outcome(0, q)}

KeptAlive(q) ==
  [q EXCEPT !.status = "READ_HEADER", !.bstart = 0, !.bend = 0, !.hline = 0, !.hend = 0,
            !.cgi = "PARSE", !.parts = <<>>, !.multi = FALSE, !.prog = 0]

FreeRequest ==
  /\ pc = "free"
  /\ UNCHANGED asked
  /\ age' = 0
  /\ \E o \in FinalFlush(conn) :
       LET q == IF o.rv = -1 THEN [o.q EXCEPT !.faults = @ \cup {"lost"}] ELSE o.q
       IN  IF o.rv > 0 THEN conn' = q /\ pc' = "flush"
           ELSE IF BeforeTimedOut(q) /\ q.ka THEN conn' = KeptAlive(q) /\ pc' = "idle"
           ELSE conn' = q /\ pc' = "closed"

-----------------------------------------------------------------------------
(***************************************************************************)
(* fdset_update: a request that waited too long times out; otherwise it is *)
(* woken when what it waits for happens: room in the socket, or output or  *)
(* the end of the program.                                                 *)
(***************************************************************************)
Expired == age > RequestTimeout
WaitsForPipe(q) == q.bend = 0 /\ q.status = "PIPE_READ"

Wake ==
  /\ pc = "blocked"
  /\ Expired \/ WaitsForPipe(conn) \/ conn.room > 0 \/ conn.gone
  /\ conn' = IF Expired THEN [conn EXCEPT !.status = "TIMED_OUT"] ELSE conn
  /\ pc' = "flush"
  /\ UNCHANGED <<asked, age>>

\* The client takes bytes out of the socket or resets it, the file is
\* truncated, time passes: none of them waits for the server.
Drain ==
  /\ pc # "closed"
  /\ ~conn.gone
  /\ \E n \in (conn.room + 1)..SockSize : conn' = [conn EXCEPT !.room = n]
  /\ UNCHANGED <<pc, asked, age>>

Reset ==
  /\ pc # "closed"
  /\ ~conn.gone
  /\ conn' = [conn EXCEPT !.gone = TRUE]
  /\ UNCHANGED <<pc, asked, age>>

Truncate ==
  /\ pc \notin {"idle", "closed"}
  /\ conn.kind \in {"mapped", "file"}
  /\ ~conn.cut
  /\ conn' = [conn EXCEPT !.cut = TRUE]
  /\ UNCHANGED <<pc, asked, age>>

Tick ==
  /\ pc = "blocked"
  /\ ~Expired
  /\ age' = age + 1
  /\ UNCHANGED <<conn, pc, asked>>

Finished ==
  /\ pc = "closed" \/ (pc = "idle" /\ asked = MaxAnswers)
  /\ UNCHANGED vars

LoopStep == Flush \/ HandleRequest \/ FreeRequest

Next == NewRequest \/ LoopStep \/ Wake \/ Drain \/ Reset \/ Truncate \/ Tick \/ Finished

(***************************************************************************)
(* The process runs: it does not rest while it works on the request, where *)
(* every step takes it to another location and some step is always         *)
(* possible.  select() returns when a descriptor is ready or its timeout   *)
(* is over, and time passes.  Client, file and program owe nothing.        *)
(***************************************************************************)
Working   == {"flush", "handle", "free"}
Locations == Working \cup {"idle", "blocked", "closed"}
MovesOn   == pc \in Working /\ pc' \in Locations \ {pc}

Spec == Init /\ [][Next]_vars
FairSpec == Spec /\ WF_pc(MovesOn) /\ WF_vars(Wake) /\ SF_vars(Tick)

-----------------------------------------------------------------------------
\* Every component of the connection keeps its type; the buffer's window and
\* the pipe's window stay inside the buffer.
TypeOK ==
  /\ conn \in Connection
  /\ BeforeTimedOut(conn) => conn.bstart <= conn.bend
  /\ conn.bend <= BufferSize
  /\ conn.hline <= conn.hend /\ conn.hend <= BufferSize + 1
  /\ pc \in Locations
  /\ asked \in 0..MaxAnswers
  /\ age \in 0..(RequestTimeout + 1)

\* The client is sent the bytes of the answers in their order, none twice and
\* none overwritten before it was sent.
InOrder == \A i \in DOMAIN conn.sent : conn.sent[i] = i

\* process_requests, req_flush and the handlers: the order of the stream is
\* lost only after bytes were dropped (by free_request, or a trailer without
\* room), or after a handler passed bytes a partial flush had left or put its
\* own or the NUL of read_from_pipe over them.
OrderKept == conn.faults = {} => InOrder

\* A connection the peer did not reset that waits for its next request, or
\* was closed without a timeout or an error, has been sent everything that
\* was produced for it.
AnswerWhole ==
  pc \in {"idle", "closed"} /\ conn.faults = {} /\ BeforeTimedOut(conn) /\ ~conn.gone
    => Len(conn.sent) = conn.made

\* Whatever client, program and file do, an answer ends: also when sendfile
\* finds the file truncated and the request is woken again and again.
AnswerEnds == pc = "flush" ~> pc \in {"idle", "closed"}
=============================================================================
