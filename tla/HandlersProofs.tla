--------------------------- MODULE HandlersProofs ---------------------------
(***************************************************************************)
(* Every handler, whatever the system calls do, returns one of the values  *)
(* process_requests switches on, leaves a well-formed request, and neither *)
(* opens nor closes the client socket nor counts its requests: that is     *)
(* left to get_request and free_request.  A request that transfers a       *)
(* program's output keeps its pipe, and one that is put to sleep waits for *)
(* a descriptor it holds.                                                  *)
(***************************************************************************)
EXTENDS Handlers, TLAPS

PipeStatus == {"PIPE_READ", "PIPE_WRITE"}

\* a transfer from a program has the pipe
Piped(q) == q.status \in PipeStatus => "data" \in q.open

\* the requests that hold the client socket exactly when q does, keep its
\* pipe and carry its counts
Same(q) ==
  {p \in Request : /\ ("fd" \in p.open) <=> ("fd" \in q.open)
                   /\ "data" \in q.open => "data" \in p.open
                   /\ p.kacount = q.kacount /\ p.reused = q.reused
                   /\ Piped(q) => Piped(p)}

\* a request that waits to write a body has the temporary file
Asleep(p) == p.status = "BODY_WRITE" /\ ~p.buf => "post" \in p.open

Tied(q) ==
  {o \in [rv : {-1, 0, 1, 2}, q : Same(q)] : o.rv = -1 => Asleep(o.q)}

Flushed(q) == [rv : {-2, -1, 0, 1}, q : Same(q)]

-----------------------------------------------------------------------------
\* Same is reflexive and transitive, so outcomes can be chained.
LEMMA SameRefl == ASSUME NEW q \in Request PROVE q \in Same(q)
  BY DEF Same

LEMMA SameRequest == ASSUME NEW q, NEW p \in Same(q) PROVE p \in Request
  BY DEF Same

LEMMA SameTrans ==
  ASSUME NEW q, NEW p \in Same(q), NEW r \in Same(p) PROVE r \in Same(q)
  BY DEF Same

LEMMA TiedTrans ==
  ASSUME NEW q, NEW p \in Same(q) PROVE Tied(p) \subseteq Tied(q)
  BY SameTrans DEF Tied

\* The outcome constructors, on requests that hold the same socket.
LEMMA OutcomeTied ==
  ASSUME NEW q, NEW p \in Same(q)
  PROVE  /\ Complete(p) \in Tied(q)
         /\ MoreToDo(p) \in Tied(q)
         /\ Asleep(p) => Outcome(-1, p) \in Tied(q)
         /\ Outcome(2, p) \in Tied(q)
  BY DEF Outcome, Complete, MoreToDo, Tied

LEMMA BlockedTied ==
  ASSUME NEW q, NEW p \in Same(q), NEW w \in Waits, Asleep(p)
  PROVE  Blocked(p, w) \in Tied(q)
<1>1. [p EXCEPT !.cause = w] \in Same(q)
  BY DEF Same, Request, Piped
<1>2. Asleep([p EXCEPT !.cause = w])
  BY DEF Same, Request, Asleep
<1> QED
  BY <1>1, <1>2, OutcomeTied DEF Blocked

LEMMA WaitsFacts == {FdRead, FdWrite, DataRead, PostWrite} \subseteq Waits
  BY DEF Waits

LEMMA StatusFacts ==
  /\ {"READ_HEADER", "BODY_READ", "BODY_WRITE", "WRITE", "BUFF_POLL",
      "BUFF_READ", "BUFF_WRITE", "IOSHUFFLE", "DONE", "TIMED_OUT", "DEAD"}
       \subseteq Status \ PipeStatus
  /\ "PIPE_READ" \in Status /\ "PIPE_WRITE" \in Status
  BY DEF Status, PipeStatus

LEMMA WorkFacts ==
  /\ MaxWork \in 0..MaxWork
  /\ \A n \in 0..MaxWork : n # 0 => n - 1 \in 0..MaxWork
  BY MaxWorkAssumption

\* The handlers open and close data_fd and post_data_fd only.
LEMMA OpenFacts ==
  ASSUME NEW q, NEW p \in Same(q), NEW x \in {"data", "post"}
  PROVE  /\ p.open \cup {x} \in SUBSET Roles
         /\ p.open \ {"post"} \in SUBSET Roles
         /\ "fd" \in p.open \cup {x} <=> "fd" \in p.open
         /\ "fd" \in p.open \ {"post"} <=> "fd" \in p.open
         /\ "data" \in p.open => "data" \in p.open \cup {x}
         /\ "data" \in p.open => "data" \in p.open \ {"post"}
  BY DEF Same, Request, Roles

\* Updates of one field, as the handlers make them.
LEMMA SetStatus ==
  ASSUME NEW q, NEW p \in Same(q), NEW s \in Status,
         s \in PipeStatus /\ Piped(q) => "data" \in p.open
  PROVE  [p EXCEPT !.status = s] \in Same(q)
  BY DEF Same, Request, Piped

LEMMA SetLeft ==
  ASSUME NEW q, NEW p \in Same(q), p.left # 0
  PROVE  [p EXCEPT !.left = @ - 1] \in Same(q)
  BY MaxWorkAssumption DEF Same, Request, Piped

LEMMA SetBuf ==
  ASSUME NEW q, NEW p \in Same(q), NEW b \in BOOLEAN
  PROVE  [p EXCEPT !.buf = b] \in Same(q)
  BY DEF Same, Request, Piped

LEMMA SetCgi ==
  ASSUME NEW q, NEW p \in Same(q), NEW c \in {"PARSE", "BUFFER", "DONE"}
  PROVE  [p EXCEPT !.cgi = c] \in Same(q)
  BY DEF Same, Request, Piped

LEMMA DiedTied ==
  ASSUME NEW q, NEW p \in Same(q) PROVE Died(p) \in Tied(q)
<1>1. "DEAD" \in Status \ PipeStatus
  BY StatusFacts
<1> QED
  BY <1>1, SetStatus, OutcomeTied DEF Died

-----------------------------------------------------------------------------
LEMMA FlushTied ==
  ASSUME NEW q, NEW p \in Same(q) PROVE req_flush(p) \subseteq Flushed(q)
<1>1. [p EXCEPT !.status = "DEAD", !.buf = FALSE] \in Same(q)
  BY DEF Same, Request, Status, Piped, PipeStatus
<1>2. [p EXCEPT !.buf = FALSE] \in Same(q)
  BY SetBuf
<1>3. ASSUME NEW n \in {-2, -1, 0, 1}, NEW r \in Same(q)
      PROVE  Outcome(n, r) \in Flushed(q)
  BY DEF Outcome, Flushed
<1> QED
  BY <1>1, <1>2, <1>3, SetLeft DEF req_flush

\* Only a failed write changes the status, and a blocked one nothing.
LEMMA FlushStatus ==
  ASSUME NEW p \in Request, NEW o \in req_flush(p)
  PROVE  /\ o.q.status \in {p.status, "DEAD"}
         /\ o.rv = -1 => o.q = p /\ p.buf
         /\ o.rv \in {0, 1} => o.q.status = p.status
<1> DEFINE dead == [p EXCEPT !.status = "DEAD", !.buf = FALSE]
           sent == [p EXCEPT !.buf = FALSE]
           part == [p EXCEPT !.left = @ - 1]
<1>1. dead.status = "DEAD" /\ sent.status = p.status /\ part.status = p.status
  BY DEF Request
<1>2. \/ o \in {Outcome(-2, p), Outcome(0, p)}
      \/ p.buf /\ o = Outcome(-1, p)
      \/ o \in {Outcome(-2, dead), Outcome(0, sent), Outcome(1, part)}
  BY DEF req_flush
<1> HIDE DEF dead, sent, part
<1> QED
  BY <1>1, <1>2 DEF Outcome

LEMMA BufferedSame ==
  ASSUME NEW q, NEW p \in Same(q) PROVE Buffered(p) \subseteq Same(q)
<1>1. [p EXCEPT !.buf = TRUE] \in Same(q)
  BY SetBuf
<1>2. req_flush([p EXCEPT !.buf = TRUE]) \subseteq Flushed(q)
  BY <1>1, FlushTied
<1> QED
  BY <1>2 DEF Buffered, Flushed

LEMMA SendSame ==
  ASSUME NEW q, NEW p \in Same(q) PROVE send_r(p) \subseteq Same(q)
<1>1. ASSUME NEW c \in {"ok", "err"}
      PROVE  [p EXCEPT !.ka = FALSE, !.resp = c] \in Same(q)
  BY DEF Same, Request, Piped
<1> QED
  BY <1>1, BufferedSame DEF send_r

\* A page changes the status of the request only if the connection is dead.
LEMMA SendStatus ==
  ASSUME NEW q, NEW p \in Same(q), NEW x \in send_r(p)
  PROVE  x.status \in {p.status, "DEAD"}
<1> DEFINE page(c) == [[p EXCEPT !.ka = FALSE, !.resp = c] EXCEPT !.buf = TRUE]
<1>1. PICK c \in {"ok", "err"} : \E o \in req_flush(page(c)) : x = o.q
  BY DEF send_r, Buffered
<1>2. page(c) \in Request /\ page(c).status = p.status
  BY DEF Same, Request
<1> HIDE DEF page
<1> QED
  BY <1>1, <1>2, FlushStatus

LEMMA RejectTied ==
  ASSUME NEW q, NEW p \in Same(q) PROVE Reject(p) \subseteq Tied(q)
  BY SendSame, OutcomeTied DEF Reject

\* Several fields at once, as the handlers set them on entering a new stage.
LEMMA SetStage ==
  ASSUME NEW q, NEW p \in Same(q), NEW s \in Status, NEW n \in 0..MaxWork,
         s \in PipeStatus /\ Piped(q) => "data" \in p.open
  PROVE  /\ [p EXCEPT !.status = s, !.left = n] \in Same(q)
         /\ [p EXCEPT !.resp = "ok", !.buf = TRUE, !.left = n, !.status = s] \in Same(q)
  BY DEF Same, Request, Piped

LEMMA SetOpen ==
  ASSUME NEW q, NEW p \in Same(q), NEW s \in Status, NEW n \in 0..MaxWork,
         NEW c \in {"PARSE", "BUFFER", "DONE"}, NEW b \in BOOLEAN,
         NEW o \in SUBSET Roles, "fd" \in o <=> "fd" \in p.open,
         "data" \in p.open => "data" \in o,
         s \in PipeStatus /\ Piped(q) => "data" \in o
  PROVE  /\ [p EXCEPT !.open = o] \in Same(q)
         /\ [p EXCEPT !.status = s, !.open = o] \in Same(q)
         /\ [p EXCEPT !.open = o, !.status = s, !.left = n] \in Same(q)
         /\ [p EXCEPT !.status = s, !.open = o, !.cgi = c, !.out = b] \in Same(q)
  BY DEF Same, Request, Piped

LEMMA SetOutput ==
  ASSUME NEW q, NEW p \in Same(q), NEW s \in Status, NEW n \in 0..MaxWork,
         NEW c \in {"PARSE", "BUFFER", "DONE"}, NEW b \in BOOLEAN,
         s \in PipeStatus /\ Piped(q) => "data" \in p.open
  PROVE  /\ [p EXCEPT !.cgi = c, !.out = b] \in Same(q)
         /\ [p EXCEPT !.resp = "ok", !.out = b] \in Same(q)
         /\ [p EXCEPT !.status = s, !.out = b] \in Same(q)
         /\ [p EXCEPT !.status = s, !.cgi = c] \in Same(q)
         /\ [p EXCEPT !.out = b, !.left = n] \in Same(q)
  BY DEF Same, Request, Piped

LEMMA SetAnswer ==
  ASSUME NEW q, NEW p \in Same(q)
  PROVE  /\ [p EXCEPT !.ka = FALSE] \in Same(q)
         /\ [p EXCEPT !.resp = "ok"] \in Same(q)
         /\ [p EXCEPT !.buf = FALSE, !.ka = FALSE] \in Same(q)
         /\ \A n \in 0..MaxWork : [p EXCEPT !.buf = TRUE, !.left = n] \in Same(q)
  BY DEF Same, Request, Piped

LEMMA SetHeader ==
  ASSUME NEW q, NEW p \in Same(q), NEW n \in 0..MaxWork, NEW m \in 0..MaxPipe,
         NEW k \in BOOLEAN, NEW s \in Status, s \notin PipeStatus
  PROVE  /\ [p EXCEPT !.pipe = m, !.left = n] \in Same(q)
         /\ [p EXCEPT !.logline = TRUE, !.ka = k, !.left = n] \in Same(q)
         /\ [p EXCEPT !.status = s, !.pipe = m, !.logline = TRUE, !.ka = k, !.left = n]
              \in Same(q)
  BY DEF Same, Request, Piped

LEMMA LeftType == ASSUME NEW q, NEW p \in Same(q) PROVE p.left \in 0..MaxWork
  BY DEF Same, Request, Piped

-----------------------------------------------------------------------------
LEMMA CgiTied ==
  ASSUME NEW q, NEW p \in Same(q)
  PROVE  init_cgi(p) \subseteq Tied(q) /\ init_work_cgi(p) \subseteq Tied(q)
<1> DEFINE c      == [p EXCEPT !.ka = FALSE]
           forked == [c EXCEPT !.open = @ \ {"post"}]
           piped  == [forked EXCEPT !.open = @ \cup {"data"},
                                    !.status = "PIPE_READ", !.left = MaxWork]
           poll   == [c EXCEPT !.status = "BUFF_POLL", !.left = MaxWork]
           begun(s) == [piped EXCEPT !.cgi = s, !.out = FALSE]
<1>5. /\ init_cgi(p) = {MoreToDo(begun(s)) : s \in {"PARSE", "BUFFER"}}
                       \cup {Complete(forked), Complete(c)} \cup Reject(c)
      /\ init_work_cgi(p) = {MoreToDo(poll), Outcome(2, c)}
  BY DEF init_cgi, init_work_cgi
<1>1. c \in Same(q)
  BY SetAnswer
<1> HIDE DEF c
<1>4. poll \in Same(q)
  BY <1>1, SetStage, WorkFacts, StatusFacts
<1>2. forked \in Same(q)
  BY <1>1, OpenFacts, SetOpen, WorkFacts, StatusFacts
<1> HIDE DEF forked, poll
<1>3. piped \in Same(q)
  BY <1>2, OpenFacts, SetOpen, WorkFacts, StatusFacts
<1> HIDE DEF piped
<1>6. ASSUME NEW s \in {"PARSE", "BUFFER"} PROVE begun(s) \in Same(q)
  BY <1>3, SetOutput, WorkFacts, StatusFacts
<1> HIDE DEF begun
<1> QED
  BY <1>1, <1>2, <1>4, <1>5, <1>6, OutcomeTied, RejectTied

LEMMA GetTied ==
  ASSUME NEW q, NEW p \in Same(q), NEW kind \in FileKinds
  PROVE  init_get(p, kind) \subseteq Tied(q)
<1> DEFINE answer == [p EXCEPT !.resp = "ok", !.buf = TRUE, !.left = MaxWork,
                               !.status = "WRITE"]
           sent   == [answer EXCEPT !.status = "IOSHUFFLE", !.open = @ \cup {"data"}]
<1>1. answer \in Same(q)
  BY SetStage, WorkFacts, StatusFacts
<1>2. CASE kind = "reject"
  <2>1. init_get(p, kind) = Reject([p EXCEPT !.status = "WRITE"])
    BY <1>2 DEF init_get
  <2> QED
    BY <2>1, SetStatus, StatusFacts, RejectTied
<1>3. CASE kind = "small"
  <2>1. init_get(p, kind) = {Complete(answer), Complete([answer EXCEPT !.status = "DONE"])}
    BY <1>3 DEF init_get
  <2> HIDE DEF answer
  <2> QED
    BY <1>1, <2>1, SetStatus, StatusFacts, OutcomeTied
<1>4. CASE kind = "mapped"
  <2>1. init_get(p, kind) = {MoreToDo(answer)}
    BY <1>4 DEF init_get
  <2> HIDE DEF answer
  <2> QED
    BY <1>1, <2>1, OutcomeTied
<1>5. CASE kind = "file"
  <2>1. init_get(p, kind) = {MoreToDo(sent)}
    BY <1>5 DEF init_get
  <2> HIDE DEF answer
  <2>2. sent \in Same(q)
    BY <1>1, OpenFacts, SetOpen, WorkFacts, StatusFacts
  <2> HIDE DEF sent
  <2> QED
    BY <2>1, <2>2, OutcomeTied
<1> QED
  BY <1>2, <1>3, <1>4, <1>5 DEF FileKinds

LEMMA GzipTied ==
  ASSUME NEW q, NEW p \in Same(q), p.status # "BODY_WRITE"
  PROVE  mime_get_gzip(p) \subseteq Tied(q)
<1>1. Buffered([p EXCEPT !.resp = "ok"]) \subseteq Same(q)
  BY SetAnswer, BufferedSame
<1>2. \A x \in send_r(p) : x \in Same(q) /\ Asleep(x)
  BY SendSame, SendStatus DEF Asleep
<1> QED
  BY <1>1, <1>2, OutcomeTied DEF mime_get_gzip

\* A script that could not be started goes through init_get as a file.
LEMMA ScriptTied ==
  ASSUME NEW q, NEW p \in Same(q)
  PROVE  process_header_end(p, "script") \subseteq Tied(q)
<1>1. process_header_end(p, "script")
        = {o \in init_cgi(p) : o.rv # 0}
          \cup UNION {init_get(o.q, k) : o \in {x \in init_cgi(p) : x.rv = 0},
                                         k \in Kinds \cap FileKinds}
  BY DEF process_header_end, FileKinds
<1>2. \A o \in init_cgi(p) : o \in Tied(q) /\ o.q \in Same(q)
  BY CgiTied DEF Tied
<1>3. ASSUME NEW o \in init_cgi(p), NEW k \in Kinds \cap FileKinds
      PROVE  init_get(o.q, k) \subseteq Tied(q)
  BY <1>2, GetTied
<1> QED
  BY <1>1, <1>2, <1>3

LEMMA ProcessHeaderEndTied ==
  ASSUME NEW q, NEW p \in Same(q), NEW kind \in AllKinds, p.status # "BODY_WRITE"
  PROVE  process_header_end(p, kind) \subseteq Tied(q)
<1> DEFINE stored == [p EXCEPT !.open = @ \cup {"post"}]
<1>1. CASE kind \in FileKinds
  <2>1. process_header_end(p, kind) = init_get(p, kind)
    BY <1>1 DEF process_header_end, FileKinds
  <2> QED
    BY <1>1, <2>1, GetTied
<1>2. CASE kind = "silent"
  <2>1. process_header_end(p, kind) = {Complete([p EXCEPT !.ka = FALSE])}
    BY <1>2 DEF process_header_end, FileKinds
  <2> QED
    BY <2>1, SetAnswer, OutcomeTied
<1>3. CASE kind = "post"
  <2>1. process_header_end(p, kind) = {MoreToDo(stored), Complete(p)} \cup Reject(p)
    BY <1>3 DEF process_header_end, FileKinds
  <2>2. stored \in Same(q)
    BY OpenFacts, SetOpen, WorkFacts, StatusFacts
  <2> HIDE DEF stored
  <2> QED
    BY <2>1, <2>2, OutcomeTied, RejectTied
<1>4. CASE kind = "cgi"
  <2>1. process_header_end(p, kind) = init_cgi(p)
    BY <1>4 DEF process_header_end, FileKinds
  <2> QED
    BY <2>1, CgiTied
<1>5. CASE kind = "work"
  <2>1. process_header_end(p, kind) = init_work_cgi(p)
    BY <1>5 DEF process_header_end, FileKinds
  <2> QED
    BY <2>1, CgiTied
<1>6. CASE kind = "gzip"
  <2>1. process_header_end(p, kind) = mime_get_gzip(p)
    BY <1>6 DEF process_header_end, FileKinds
  <2> QED
    BY <2>1, GzipTied
<1>7. CASE kind = "script"
  BY <1>7, ScriptTied
<1> QED
  BY <1>1, <1>2, <1>3, <1>4, <1>5, <1>6, <1>7 DEF AllKinds

LEMMA HeaderEndTied ==
  ASSUME NEW q, NEW p \in Same(q), NEW kind \in AllKinds, p.status # "BODY_WRITE"
  PROVE  HeaderEnd(p, kind) \subseteq Tied(q)
<1> DEFINE body(x) == [x EXCEPT !.status = "BODY_WRITE"]
<1>1. ASSUME NEW o \in process_header_end(p, kind)
      PROVE  o \in Tied(q) /\ {MoreToDo(body(o.q))} \cup Reject(body(o.q)) \subseteq Tied(q)
  <2>1. o \in Tied(q) /\ o.q \in Same(q)
    BY ProcessHeaderEndTied DEF Tied
  <2>2. body(o.q) \in Same(q)
    BY <2>1, SetStatus, StatusFacts
  <2> HIDE DEF body
  <2> QED
    BY <2>1, <2>2, OutcomeTied, RejectTied
<1> QED
  BY <1>1 DEF HeaderEnd

LEMMA MalformedTied ==
  ASSUME NEW q, NEW p \in Same(q) PROVE Malformed(p) \subseteq Tied(q)
<1>1. [p EXCEPT !.logline = TRUE] \in Same(q)
  BY DEF Same, Request, Piped
<1>2. \A x \in Same(q) : {Complete(x)} \cup Reject(x) \subseteq Tied(q)
  BY OutcomeTied, RejectTied
<1> QED
  BY <1>1, <1>2 DEF Malformed

-----------------------------------------------------------------------------
LEMMA ReadHeaderTied ==
  ASSUME NEW q, NEW p \in Same(q), p.status = "READ_HEADER"
  PROVE  read_header(p) \subseteq Tied(q)
<1>0. p.pipe \in 0..MaxPipe /\ p.left \in 0..MaxWork
  BY DEF Same, Request, Piped
<1>1. CASE p.pipe > 0
  <2>1. p.pipe - 1 \in 0..MaxPipe
    BY <1>0, <1>1, MaxPipeAssumption
  <2>2. \A k \in BOOLEAN : [p EXCEPT !.status = "BODY_READ", !.pipe = @ - 1, !.logline = TRUE,
                                     !.ka = k, !.left = MaxWork] \in Same(q)
    BY <2>1, SetHeader, WorkFacts, StatusFacts
  <2>3. \A x \in ParsedFull(p) : x \in Same(q) /\ x.status # "BODY_WRITE"
    <3>1. \A x \in ParsedFull(p) : x \in Same(q)
      BY <2>2, Zenon DEF ParsedFull
    <3>2. \A x \in ParsedFull(p) : x.status = "BODY_READ"
      BY DEF ParsedFull, Same, Request
    <3> QED
      BY <3>1, <3>2
  <2>4. ASSUME NEW m \in 0..MaxPipe
        PROVE  [p EXCEPT !.pipe = m, !.logline = TRUE, !.left = MaxWork] \in Same(q)
    BY WorkFacts DEF Same, Request, Piped
  <2>5. \A x \in ParsedLine(p) : x \in Same(q) /\ x.status # "BODY_WRITE"
    <3>1. \A x \in ParsedLine(p) : x.status = p.status
      BY DEF ParsedLine, Same, Request
    <3> QED
      BY <2>1, <2>4, <3>1 DEF ParsedLine
  <2>6. \A x \in ParsedFull(p), k \in Kinds : HeaderEnd(x, k) \subseteq Tied(q)
    BY <2>3, HeaderEndTied, KindsAssumption
  <2>7. \A x \in ParsedLine(p), k \in Kinds : process_header_end(x, k) \subseteq Tied(q)
    BY <2>5, ProcessHeaderEndTied, KindsAssumption
  <2>8. Header1x(p) \subseteq Tied(q)
    BY <2>6 DEF Header1x
  <2>9. Header09(p) \subseteq Tied(q)
    BY <2>7 DEF Header09
  <2> QED
    BY <1>1, <2>8, <2>9, MalformedTied DEF read_header
<1>2. CASE ~(p.pipe > 0)
  <2>1. {Blocked(p, FdRead), Complete([p EXCEPT !.resp = "ok"])} \subseteq Tied(q)
    BY BlockedTied, WaitsFacts, SetAnswer, OutcomeTied DEF Asleep
  <2>2. Died([p EXCEPT !.resp = "ok"]) \in Tied(q)
    BY SetAnswer, DiedTied
  <2>3. ASSUME p.left # 0 PROVE BytesRead(p) \subseteq Same(q)
    <3>1. \A n \in 1..MaxPipe : n \in 0..MaxPipe
      OBVIOUS
    <3>2. p.left - 1 \in 0..MaxWork
      BY <1>0, <2>3, WorkFacts
    <3>3. 0 \in 0..MaxPipe
      BY MaxPipeAssumption
    <3>4. \A n \in 1..MaxPipe : [p EXCEPT !.pipe = n, !.left = @ - 1] \in Same(q)
      BY <3>1, <3>2, SetHeader, StatusFacts
    <3>5. \A k \in BOOLEAN : [p EXCEPT !.logline = TRUE, !.ka = k, !.left = @ - 1] \in Same(q)
      BY <3>2, <3>3, SetHeader, StatusFacts
    <3>6. [p EXCEPT !.left = @ - 1] \in Same(q)
      BY <2>3, SetLeft
    <3> QED
      BY <3>4, <3>5, <3>6, Zenon DEF BytesRead
  <2> QED
    BY <1>2, <2>1, <2>2, <2>3, OutcomeTied, MalformedTied DEF read_header
<1> QED
  BY <1>1, <1>2

LEMMA BodyTied ==
  ASSUME NEW q, NEW p \in Same(q)
  PROVE  /\ p.status = "BODY_READ" => read_body(p) \subseteq Tied(q)
         /\ write_body(p) \subseteq Tied(q)
<1>1. [p EXCEPT !.status = "BODY_WRITE"] \in Same(q)
  BY SetStatus, StatusFacts
<1>2. \A s \in {"BODY_READ", "BODY_WRITE"} :
        p.left > 0 => [p EXCEPT !.left = @ - 1, !.status = s] \in Same(q)
  <2>1. ASSUME NEW s \in Status \ PipeStatus, NEW n \in 0..MaxWork
        PROVE  [p EXCEPT !.left = n, !.status = s] \in Same(q)
    BY DEF Same, Request, Piped
  <2>2. p.left > 0 => p.left - 1 \in 0..MaxWork
    BY LeftType, WorkFacts
  <2> QED
    BY <2>1, <2>2, StatusFacts
<1>3. /\ p.status = "BODY_READ" => Blocked(p, FdRead) \in Tied(q)
      /\ "post" \in p.open => Blocked(p, PostWrite) \in Tied(q)
  BY BlockedTied, WaitsFacts DEF Asleep
<1>4. p.status = "BODY_READ" => read_body(p) \subseteq Tied(q)
  BY <1>1, <1>3, SetAnswer, OutcomeTied, RejectTied DEF read_body
<1>5. write_body(p) \subseteq Tied(q)
  BY <1>2, <1>3, OutcomeTied, CgiTied DEF write_body
<1> QED
  BY <1>4, <1>5

LEMMA SendTied ==
  ASSUME NEW q, NEW p \in Same(q), p.status # "BODY_WRITE"
  PROVE  SendChunk(p) \subseteq Tied(q)
<1>1. [p EXCEPT !.status = "DONE"] \in Same(q)
  BY SetStatus, StatusFacts
<1>2. Buffered([p EXCEPT !.status = "DONE"]) \subseteq Same(q)
  BY <1>1, BufferedSame
<1>3. p.left # 0 => [p EXCEPT !.buf = TRUE, !.left = @ - 1] \in Same(q)
  BY LeftType, WorkFacts, SetAnswer
<1>4. complete_response(p) \subseteq Tied(q)
  BY <1>1, <1>2, <1>3, OutcomeTied DEF complete_response
<1> QED
  BY <1>4, BlockedTied, WaitsFacts, DiedTied, SetLeft, OutcomeTied DEF SendChunk, Asleep

LEMMA CgiHeaderTied ==
  ASSUME NEW q, NEW p0 \in Same(q) PROVE process_cgi_header(p0) \subseteq Tied(q)
<1> DEFINE p      == IF p0.cgi = "DONE" THEN p0 ELSE [p0 EXCEPT !.cgi = "BUFFER"]
           merged == [p EXCEPT !.resp = "ok", !.out = FALSE]
           last   == [merged EXCEPT !.cgi = "DONE"]
<1>0. process_cgi_header(p0)
        = Reject(p)
          \cup {MoreToDo([x EXCEPT !.status = "DONE"]) : x \in send_r(p)}
          \cup {MoreToDo(p)}
          \cup {MoreToDo(x) : x \in Buffered(merged)}
          \cup {Complete(x) : x \in Buffered(last)}
  BY DEF process_cgi_header
<1>1. p \in Same(q)
  BY SetCgi
<1> HIDE DEF p
<1>2. merged \in Same(q)
  BY <1>1, SetOutput, WorkFacts, StatusFacts
<1> HIDE DEF merged
<1>3. last \in Same(q)
  BY <1>2, SetCgi
<1> HIDE DEF last
<1>4. \A x \in send_r(p) : [x EXCEPT !.status = "DONE"] \in Same(q)
  BY <1>1, SendSame, SetStatus, StatusFacts
<1> QED
  BY <1>0, <1>1, <1>2, <1>3, <1>4, RejectTied, BufferedSame, OutcomeTied

LEMMA WriteOutTied ==
  ASSUME NEW q, NEW p \in Same(q), NEW s \in Status, p.status # "BODY_WRITE",
         s \in PipeStatus /\ Piped(q) => "data" \in p.open
  PROVE  WriteOut(p, s) \subseteq Tied(q)
<1>1. [p EXCEPT !.status = s, !.out = FALSE] \in Same(q)
  BY SetOutput, WorkFacts
<1> QED
  BY <1>1, SetStatus, SetLeft, BlockedTied, WaitsFacts, DiedTied, OutcomeTied
     DEF WriteOut, Asleep

\* The parts the two readers of a program's output share.
LEMMA ReadOutTied ==
  ASSUME NEW q, NEW p \in Same(q), NEW s \in Status, p.status # "BODY_WRITE",
         s \in PipeStatus /\ Piped(q) => "data" \in p.open
  PROVE  /\ NoRoom(p, s) \subseteq Tied(q)
         /\ EndOfOutput(p, s) \subseteq Tied(q)
         /\ OutputRead(p, s) \subseteq Tied(q)
<1>1. NoRoom(p, s) \subseteq Tied(q)
  BY SetCgi, SetStatus, CgiHeaderTied, OutcomeTied DEF NoRoom
<1>2. EndOfOutput(p, s) \subseteq Tied(q)
  <2>1. [p EXCEPT !.status = s, !.cgi = "DONE"] \in Same(q)
    BY SetOutput, WorkFacts
  <2> QED
    BY <2>1, CgiHeaderTied, OutcomeTied DEF EndOfOutput
<1>3. OutputRead(p, s) \subseteq Tied(q)
  <2> DEFINE more == [p EXCEPT !.out = TRUE, !.left = @ - 1]
  <2>1. CASE p.left = 0
    BY <2>1 DEF OutputRead
  <2>2. CASE p.left # 0
    <3>1. more \in Same(q)
      BY <2>2, LeftType, WorkFacts, SetOutput, StatusFacts
    <3>2. OutputRead(p, s)
            = IF p.cgi # "PARSE" THEN WriteOut(more, s)
              ELSE {MoreToDo(more)} \cup process_cgi_header([more EXCEPT !.cgi = "DONE"])
      BY <2>2 DEF OutputRead
    <3>3. more.status = p.status /\ more.open = p.open
      BY DEF Same, Request
    <3> HIDE DEF more
    <3> QED
      BY <3>1, <3>2, <3>3, WriteOutTied, OutcomeTied, CgiHeaderTied, SetCgi
  <2> QED
    BY <2>1, <2>2
<1> QED
  BY <1>1, <1>2, <1>3

LEMMA PipeTied ==
  ASSUME NEW q, NEW p \in Same(q), p.status # "BODY_WRITE"
  PROVE  /\ p.status \in PipeStatus => read_from_pipe(p) \subseteq Tied(q)
         /\ p.status \in PipeStatus => write_from_pipe(p) \subseteq Tied(q)
         /\ read_from_shbuff(p) \subseteq Tied(q)
         /\ write_from_shbuff(p) \subseteq Tied(q)
         /\ poll_from_shbuff(p) \subseteq Tied(q)
<1>0. p.status \in PipeStatus /\ Piped(q) => "data" \in p.open
  BY DEF Same, Piped
<1>1. Blocked(p, DataRead) \in Tied(q) /\ Died(p) \in Tied(q)
  BY BlockedTied, WaitsFacts, DiedTied DEF Asleep
<1>2. ASSUME p.status \in PipeStatus
      PROVE  read_from_pipe(p) \subseteq Tied(q) /\ write_from_pipe(p) \subseteq Tied(q)
  BY <1>0, <1>1, <1>2, ReadOutTied, WriteOutTied, StatusFacts DEF read_from_pipe, write_from_pipe
<1>3. read_from_shbuff(p) \subseteq Tied(q) /\ write_from_shbuff(p) \subseteq Tied(q)
  BY ReadOutTied, WriteOutTied, StatusFacts DEF read_from_shbuff, write_from_shbuff
<1>4. [p EXCEPT !.status = "BUFF_READ", !.open = @ \ {"post"},
                !.cgi = "BUFFER", !.out = FALSE] \in Same(q)
  BY OpenFacts, SetOpen, WorkFacts, StatusFacts
<1>5. poll_from_shbuff(p) \subseteq Tied(q)
  BY <1>4, OutcomeTied DEF poll_from_shbuff
<1> QED
  BY <1>2, <1>3, <1>5

LEMMA FlushDoneTied ==
  ASSUME NEW q, NEW p \in Same(q) PROVE FlushDone(p) \subseteq Tied(q)
<1>1. ASSUME NEW o \in req_flush(p)
      PROVE  (CASE o.rv = -2 -> Complete(o.q)
                [] o.rv = -1 -> Blocked(o.q, FdWrite)
                [] OTHER     -> o) \in Tied(q)
  <2>1. o \in Flushed(q) /\ o.q \in Same(q)
    BY FlushTied DEF Flushed
  <2>2. o.rv \notin {-2, -1} => o \in Tied(q)
    BY <2>1 DEF Flushed, Tied
  <2>3. o.rv = -1 => Asleep(o.q)
    BY SameRequest, FlushStatus DEF Asleep
  <2> QED
    BY <2>1, <2>2, <2>3, OutcomeTied, BlockedTied, WaitsFacts
<1> QED
  BY <1>1 DEF FlushDone

-----------------------------------------------------------------------------
LEMMA DispatchTied ==
  ASSUME NEW q, NEW p \in Same(q) PROVE Dispatch(p) \subseteq Tied(q)
<1>1. Complete([p EXCEPT !.buf = FALSE, !.ka = FALSE]) \in Tied(q)
  BY SetAnswer, OutcomeTied
<1>2. /\ p.status # "BODY_WRITE" => process_get(p) \subseteq Tied(q)
      /\ p.status # "BODY_WRITE" => io_shuffle_sendfile(p) \subseteq Tied(q)
  BY SendTied DEF process_get, io_shuffle_sendfile
<1>3. p.status \in {"BUFF_POLL", "BUFF_READ", "BUFF_WRITE", "PIPE_READ", "PIPE_WRITE"}
        => Dispatch(p) \subseteq Tied(q)
  BY PipeTied DEF Dispatch, PipeStatus
<1>4. p.status \in {"READ_HEADER", "BODY_READ", "BODY_WRITE"} => Dispatch(p) \subseteq Tied(q)
  BY ReadHeaderTied, BodyTied DEF Dispatch
<1> QED
  BY <1>1, <1>2, <1>3, <1>4, FlushDoneTied DEF Dispatch

\* Whatever state a well-formed request is in and whatever its system calls
\* return, one iteration of process_requests yields one of the four return
\* values its switch knows and a well-formed request; the client socket, the
\* pipe and the keepalive counts are as they were, and a request that is to
\* be blocked holds the descriptor it will wait for.
THEOREM HandleTied ==
  ASSUME NEW q \in Request PROVE Handle(q) \subseteq Tied(q)
<1>0. q \in Same(q)
  BY SameRefl
<1>1. Dispatch(q) \subseteq Tied(q)
  BY <1>0, DispatchTied
<1>2. ASSUME NEW o \in req_flush(q)
      PROVE  (IF o.rv = -2 THEN {Complete(o.q)}
              ELSE IF o.rv = -1 THEN {Blocked(o.q, FdWrite)}
              ELSE Dispatch(o.q)) \subseteq Tied(q)
  <2>1. o.q \in Same(q)
    BY <1>0, FlushTied DEF Flushed
  <2>2. o.rv = -1 => Asleep(o.q)
    BY FlushStatus DEF Asleep
  <2> QED
    BY <2>1, <2>2, OutcomeTied, BlockedTied, WaitsFacts, DispatchTied
<1> QED
  BY <1>1, <1>2 DEF Handle
=============================================================================
