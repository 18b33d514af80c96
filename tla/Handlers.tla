------------------------------ MODULE Handlers ------------------------------
(***************************************************************************)
(* What the handlers of process_requests may do to one request.            *)
(*                                                                         *)
(* A handler (read_header, process_get, read_from_pipe, ...) is a C        *)
(* function that works on one request structure and returns -1 (blocked),  *)
(* 0 (complete) or 1 (more to do).  It is modelled by the set of outcomes  *)
(* it can produce: the return value together with the request afterwards.  *)
(* System calls are the source of the nondeterminism: a read or a write    *)
(* may be refused with EAGAIN, fail, be partial or complete.               *)
(*                                                                         *)
(* Of the request only what the event loop looks at is kept: the status,   *)
(* whether the output buffer holds bytes, the keepalive bookkeeping, which *)
(* descriptors are open, and how many complete requests sit unparsed in    *)
(* client_stream.  The configuration modelled is the Linux default:        *)
(* select.c, HAVE_SENDFILE.                                                *)
(***************************************************************************)
EXTENDS Integers

CONSTANTS
  Kinds,      \* what clients ask for, a subset of AllKinds
  MaxPipe,    \* most complete requests client_stream can hold
  MaxWork     \* reads or writes one request may need (the size of its data)

FileKinds == {"reject", "small", "mapped", "file"}
AllKinds  == FileKinds \cup {"silent", "post", "cgi", "script", "gzip", "work"}

ASSUME KindsAssumption   == Kinds \subseteq AllKinds
ASSUME MaxPipeAssumption == MaxPipe \in Nat
ASSUME MaxWorkAssumption == MaxWork \in Nat

(***************************************************************************)
(* enum REQ_STATUS.  READ_HEADER stands for the four header states         *)
(* READ_HEADER, ONE_CR, ONE_LF and TWO_CR, which the loop treats alike.    *)
(***************************************************************************)
Status == {"READ_HEADER", "BODY_READ", "BODY_WRITE", "WRITE", "BUFF_POLL",
           "BUFF_READ", "BUFF_WRITE", "PIPE_READ", "PIPE_WRITE", "IOSHUFFLE",
           "DONE", "TIMED_OUT", "DEAD"}

\* status < TIMED_OUT in the order of the enumeration
BeforeTimedOut(q) == q.status \notin {"TIMED_OUT", "DEAD"}

\* fd is the client socket, data is data_fd, post is post_data_fd
Roles == {"fd", "data", "post"}
Dirs  == {"R", "W"}

FdRead   == <<"fd", "R">>
FdWrite  == <<"fd", "W">>
DataRead == <<"data", "R">>
PostWrite == <<"post", "W">>
NoWait   == <<"none", "none">>
Waits    == {FdRead, FdWrite, DataRead, PostWrite}

(***************************************************************************)
(* struct request.  buf: buffer_end > 0.  ka: keepalive = KA_ACTIVE.       *)
(* resp: response_status is 0, in 1..499, or at least 500.  pipe: complete *)
(* requests in client_stream beyond parse_pos.  age: current_time -        *)
(* time_last.  left: reads and writes the present work may still need.     *)
(* cgi: cgi_status.  out: bytes of a program's output between header_line  *)
(* and header_end.                                                         *)
(* cause (history): the operation whose EAGAIN made the handler return -1. *)
(* reused (history): the connection already carried a request.             *)
(***************************************************************************)
Request ==
  [status : Status, buf : BOOLEAN, ka : BOOLEAN, resp : {"none", "ok", "err"},
   logline : BOOLEAN, pipe : 0..MaxPipe, kacount : Nat, age : Nat,
   open : SUBSET Roles, left : 0..MaxWork, cgi : {"PARSE", "BUFFER", "DONE"},
   out : BOOLEAN, cause : Waits \cup {NoWait},
   reused : BOOLEAN]

\* the zeroed request of sanitize_request, before a connection is tied to it
Blank ==
  [status |-> "READ_HEADER", buf |-> FALSE, ka |-> FALSE, resp |-> "none",
   logline |-> FALSE, pipe |-> 0, kacount |-> 0, age |-> 0, open |-> {},
   left |-> MaxWork, cgi |-> "PARSE", out |-> FALSE, cause |-> NoWait, reused |-> FALSE]

Outcome(rv, q) == [rv |-> rv, q |-> q]
Blocked(q, w)  == Outcome(-1, [q EXCEPT !.cause = w])
Complete(q)    == Outcome(0, q)
MoreToDo(q)    == Outcome(1, q)
Died(q)        == Complete([q EXCEPT !.status = "DEAD"])

-----------------------------------------------------------------------------
(***************************************************************************)
(* req_flush.  -2: the write failed; -1: EAGAIN; otherwise buffer_end      *)
(* afterwards, 0 when all was written and positive (here 1) when not.      *)
(***************************************************************************)
req_flush(q) ==
  IF ~BeforeTimedOut(q) THEN {Outcome(-2, q)}
  ELSE IF ~q.buf THEN {Outcome(0, q)}
  ELSE {Outcome(-2, [q EXCEPT !.status = "DEAD", !.buf = FALSE]),
        Outcome(-1, q),
        Outcome(0, [q EXCEPT !.buf = FALSE])}
       \cup (IF q.left = 0 THEN {} ELSE {Outcome(1, [q EXCEPT !.left = @ - 1])})

\* The states a request can be in after a handler buffered a response and
\* flushed it without looking at the result.
Buffered(q) == {o.q : o \in req_flush([q EXCEPT !.buf = TRUE])}

(***************************************************************************)
(* send_r_bad_request, send_r_not_found, send_r_error, ...: SQUASH_KA, a   *)
(* status of at least 300, the page into the buffer, and a flush.          *)
(***************************************************************************)
send_r(q) ==
  UNION {Buffered([q EXCEPT !.ka = FALSE, !.resp = c]) : c \in {"ok", "err"}}

Reject(q) == {Complete(p) : p \in send_r(q)}

(***************************************************************************)
(* init_cgi: keepalive is squashed; then a pipe to the child, nothing for  *)
(* the loop to do (NPH, or a failure that sends no page), or an error      *)
(* page.  With libshare a worker takes the request; shproc_push may refuse *)
(* it with an error code that is none of -1, 0, 1 (here 2).                *)
(***************************************************************************)
init_cgi(q) ==
  LET c      == [q EXCEPT !.ka = FALSE]
      forked == [c EXCEPT !.open = @ \ {"post"}]
      piped  == [forked EXCEPT !.open = @ \cup {"data"},
                               !.status = "PIPE_READ", !.left = MaxWork]
  IN  {MoreToDo([piped EXCEPT !.cgi = s, !.out = FALSE]) : s \in {"PARSE", "BUFFER"}}
      \cup {Complete(forked), Complete(c)} \cup Reject(c)

init_work_cgi(q) ==
  LET c == [q EXCEPT !.ka = FALSE]
  IN  {MoreToDo([c EXCEPT !.status = "BUFF_POLL", !.left = MaxWork]), Outcome(2, c)}

(***************************************************************************)
(* init_get, by what it finds:                                             *)
(*   reject  an error, a redirection or "not modified"                     *)
(*   small   the whole answer fits the buffer (HEAD, short or empty file)  *)
(*   mapped  an mmapped file, to be written by process_get                 *)
(*   file    a file to be sent by io_shuffle_sendfile                      *)
(***************************************************************************)
init_get(q, kind) ==
  LET answer == [q EXCEPT !.resp = "ok", !.buf = TRUE, !.left = MaxWork,
                          !.status = "WRITE"]
  IN CASE kind = "reject" -> Reject([q EXCEPT !.status = "WRITE"])
       [] kind = "small"  -> {Complete(answer), Complete([answer EXCEPT !.status = "DONE"])}
       [] kind = "mapped" -> {MoreToDo(answer)}
       [] kind = "file"   -> {MoreToDo([answer EXCEPT !.status = "IOSHUFFLE",
                                                      !.open = @ \cup {"data"}])}

\* mime_get_gzip: the inflated file goes through the buffer at once; without
\* the file a 502 page and the return value -1.
mime_get_gzip(q) ==
  {MoreToDo(p) : p \in Buffered([q EXCEPT !.resp = "ok"])}
  \cup {Outcome(-1, p) : p \in send_r(q)}

(***************************************************************************)
(* process_header_end.  A POST gets a temporary file for its body; a       *)
(* script found by its extension (mime_get_cgi) that could not be started, *)
(* init_cgi returning 0, is then served by init_get like any other file.   *)
(***************************************************************************)
process_header_end(q, kind) ==
  CASE kind \in FileKinds -> init_get(q, kind)
    [] kind = "silent" -> {Complete([q EXCEPT !.ka = FALSE])}
    [] kind = "post"   -> {MoreToDo([q EXCEPT !.open = @ \cup {"post"}]), Complete(q)}
                          \cup Reject(q)
    [] kind = "cgi"    -> init_cgi(q)
    [] kind = "work"   -> init_work_cgi(q)
    [] kind = "gzip"   -> mime_get_gzip(q)
    [] kind = "script" ->
         LET started == init_cgi(q)
         IN  {o \in started : o.rv # 0}
             \cup UNION {init_get(o.q, k) : o \in {p \in started : p.rv = 0},
                                            k \in Kinds \cap FileKinds}

(***************************************************************************)
(* read_header.  Bytes already in client_stream are parsed before anything *)
(* is read.  A complete HTTP/1.x header ends in BODY_READ, and the body of *)
(* a POST comes next unless its length is refused; an HTTP/0.9 request is  *)
(* complete with its first line and leaves the status alone.  A malformed  *)
(* line ends the request, with or without a page.                          *)
(***************************************************************************)
ParsedFull(q) ==
  {[q EXCEPT !.status = "BODY_READ", !.pipe = @ - 1, !.logline = TRUE,
             !.ka = k, !.left = MaxWork] : k \in BOOLEAN}

ParsedLine(q) ==
  IF q.logline THEN {}
  ELSE {[q EXCEPT !.pipe = @ - 1, !.logline = TRUE, !.left = MaxWork]}

HeaderEnd(q, kind) ==
  LET body(p) == [p EXCEPT !.status = "BODY_WRITE"]
  IN  UNION {IF o.rv = 1 /\ kind = "post" THEN {MoreToDo(body(o.q))} \cup Reject(body(o.q))
             ELSE {o} : o \in process_header_end(q, kind)}

Header1x(q) == UNION {HeaderEnd(p, k) : p \in ParsedFull(q), k \in Kinds}
Header09(q) == UNION {process_header_end(p, k) : p \in ParsedLine(q), k \in Kinds}

Malformed(q) ==
  IF "reject" \in Kinds
  THEN UNION {{Complete(p)} \cup Reject(p) : p \in {q, [q EXCEPT !.logline = TRUE]}}
  ELSE {}

(***************************************************************************)
(* Otherwise one read: it blocks, ends or fails (response_status 400,      *)
(* status unchanged), or brings bytes.  What arrives may complete requests *)
(* (pipe) or only a first line (logline); HTTP/1.1 or a Connection header  *)
(* decides ka.  A full client_stream kills the connection.                 *)
(***************************************************************************)
BytesRead(q) ==
  {[q EXCEPT !.pipe = n, !.left = @ - 1] : n \in 1..MaxPipe}
  \cup {[q EXCEPT !.logline = TRUE, !.ka = k, !.left = @ - 1] : k \in BOOLEAN}
  \cup {[q EXCEPT !.left = @ - 1]}

read_header(q) ==
  IF q.pipe > 0
  THEN Header1x(q) \cup Header09(q) \cup Malformed(q)
  ELSE {Blocked(q, FdRead), Complete([q EXCEPT !.resp = "ok"])}
       \cup (IF q.left = 0
             THEN {Died([q EXCEPT !.resp = "ok"])}
             ELSE {MoreToDo(p) : p \in BytesRead(q)})
       \cup (IF q.left < MaxWork \/ q.reused THEN Malformed(q) ELSE {})

(***************************************************************************)
(* read_body and write_body pass the body of a POST to the temporary file; *)
(* write_body starts the program once all of it is there.  Without a       *)
(* temporary file (after mime_get_gzip) filesize is 0: nothing is read or  *)
(* written and the program is started at once.                             *)
(***************************************************************************)
read_body(q) ==
  {MoreToDo([q EXCEPT !.status = "BODY_WRITE"])}
  \cup (IF "post" \in q.open
        THEN {Blocked(q, FdRead), Complete([q EXCEPT !.resp = "ok"])} \cup Reject(q)
        ELSE {})

write_body(q) ==
  init_cgi(q)
  \cup (IF "work" \in Kinds THEN init_work_cgi(q) ELSE {})
  \cup (IF "post" \in q.open THEN {Blocked(q, PostWrite), Complete(q)} ELSE {})
  \cup (IF "post" \in q.open /\ q.left > 0
        THEN {MoreToDo([q EXCEPT !.left = @ - 1, !.status = s]) :
                s \in {"BODY_READ", "BODY_WRITE"}}
        ELSE {})

(***************************************************************************)
(* One write of a file towards the client, then complete_response when the *)
(* range is finished: DONE for the only or last range (a multipart answer  *)
(* adds its trailer and stays on the ready list), the next part's header   *)
(* into the buffer otherwise.                                              *)
(***************************************************************************)
complete_response(q) ==
  {Complete([q EXCEPT !.status = "DONE"])}
  \cup {MoreToDo(p) : p \in Buffered([q EXCEPT !.status = "DONE"])}
  \cup (IF q.left = 0 THEN {} ELSE {MoreToDo([q EXCEPT !.buf = TRUE, !.left = @ - 1])})

SendChunk(q) ==
  {Blocked(q, FdWrite), Died(q)} \cup complete_response(q)
  \cup (IF q.left = 0 THEN {} ELSE {MoreToDo([q EXCEPT !.left = @ - 1])})

process_get(q) == SendChunk(q)
io_shuffle_sendfile(q) == SendChunk(q)

(***************************************************************************)
(* process_cgi_header: a bad header is answered with 502, Location with a  *)
(* redirection; a Status header is passed on as it is (so is all output    *)
(* to HTTP/0.9); anything else gets 200 and the output read so far is      *)
(* merged into the buffer, which ends the answer to a HEAD.                *)
(***************************************************************************)
process_cgi_header(q0) ==
  LET q      == IF q0.cgi = "DONE" THEN q0 ELSE [q0 EXCEPT !.cgi = "BUFFER"]
      merged == [q EXCEPT !.resp = "ok", !.out = FALSE]
  IN  Reject(q)
      \cup {MoreToDo([p EXCEPT !.status = "DONE"]) : p \in send_r(q)}
      \cup {MoreToDo(q)}
      \cup {MoreToDo(p) : p \in Buffered(merged)}
      \cup {Complete(p) : p \in Buffered([merged EXCEPT !.cgi = "DONE"])}

(***************************************************************************)
(* The two halves of a CGI transfer, for a pipe and for a buffer filled    *)
(* by a worker.  The reading half writes at once what it has read, without *)
(* leaving its own status.                                                 *)
(***************************************************************************)
WriteOut(q, reading) ==
  IF q.out
  THEN {Blocked(q, FdWrite), Died(q),
        MoreToDo([q EXCEPT !.status = reading, !.out = FALSE])}
       \cup (IF q.left = 0 THEN {} ELSE {MoreToDo([q EXCEPT !.left = @ - 1])})
  ELSE IF q.cgi = "DONE" THEN {Complete(q)}
  ELSE {MoreToDo([q EXCEPT !.status = reading])}

write_from_pipe(q) == WriteOut(q, "PIPE_READ")
write_from_shbuff(q) == WriteOut(q, "BUFF_READ")

\* buffer full: the header cannot grow any more, or the data must go out
NoRoom(q, writing) ==
  IF q.cgi = "PARSE" THEN process_cgi_header([q EXCEPT !.cgi = "BUFFER"])
  ELSE {MoreToDo([q EXCEPT !.status = writing])}

EndOfOutput(q, writing) ==
  LET eof == [q EXCEPT !.status = writing, !.cgi = "DONE"]
  IN  IF q.cgi = "PARSE" THEN process_cgi_header(eof) ELSE {MoreToDo(eof)}

OutputRead(q, reading) ==
  LET more == [q EXCEPT !.out = TRUE, !.left = @ - 1]
  IN  IF q.left = 0 THEN {}
      ELSE IF q.cgi # "PARSE" THEN WriteOut(more, reading)
      ELSE {MoreToDo(more)} \cup process_cgi_header([more EXCEPT !.cgi = "DONE"])

read_from_pipe(q) ==
  (IF q.out THEN NoRoom(q, "PIPE_WRITE") ELSE {})
  \cup {Blocked(q, DataRead), Died(q)}
  \cup EndOfOutput(q, "PIPE_WRITE") \cup OutputRead(q, "PIPE_READ")

read_from_shbuff(q) ==
  (IF q.out THEN NoRoom(q, "BUFF_WRITE") ELSE {})
  \cup EndOfOutput(q, "BUFF_WRITE") \cup OutputRead(q, "BUFF_READ")

\* poll_from_shbuff asks the pool for answers of the workers (cgi_work_resp
\* takes one in) and never blocks.  Its return of 0 without a pool is not
\* met: a request polls only after init_work_cgi has pushed to the pool.
poll_from_shbuff(q) ==
  {MoreToDo(q),
   MoreToDo([q EXCEPT !.status = "BUFF_READ", !.open = @ \ {"post"},
                      !.cgi = "BUFFER", !.out = FALSE])}

-----------------------------------------------------------------------------
\* the DONE case of process_requests
FlushDone(q) ==
  {CASE o.rv = -2 -> Complete(o.q)
     [] o.rv = -1 -> Blocked(o.q, FdWrite)
     [] OTHER     -> o : o \in req_flush(q)}

\* the switch on status in process_requests
Dispatch(q) ==
  CASE q.status = "READ_HEADER" -> read_header(q)
    [] q.status = "BODY_READ"   -> read_body(q)
    [] q.status = "BODY_WRITE"  -> write_body(q)
    [] q.status = "WRITE"       -> process_get(q)
    [] q.status = "BUFF_POLL"   -> poll_from_shbuff(q)
    [] q.status = "BUFF_READ"   -> read_from_shbuff(q)
    [] q.status = "BUFF_WRITE"  -> write_from_shbuff(q)
    [] q.status = "PIPE_READ"   -> read_from_pipe(q)
    [] q.status = "PIPE_WRITE"  -> write_from_pipe(q)
    [] q.status = "IOSHUFFLE"   -> io_shuffle_sendfile(q)
    [] q.status = "DONE"        -> FlushDone(q)
    [] OTHER -> {Complete([q EXCEPT !.buf = FALSE, !.ka = FALSE])}

(***************************************************************************)
(* One iteration of process_requests up to the return value: buffered      *)
(* bytes are flushed first, and unless that blocks or fails the handler    *)
(* runs, also when bytes are left in the buffer.                           *)
(***************************************************************************)
Handle(q) ==
  IF q.buf /\ BeforeTimedOut(q)
  THEN UNION {IF o.rv = -2 THEN {Complete(o.q)}
              ELSE IF o.rv = -1 THEN {Blocked(o.q, FdWrite)}
              ELSE Dispatch(o.q) : o \in req_flush(q)}
  ELSE Dispatch(q)
=============================================================================
