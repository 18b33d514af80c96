------------------------- MODULE OutputStreamProofs -------------------------
(***************************************************************************)
(* The order and the completeness of what a client is sent, for any sizes  *)
(* of the buffer, the headers, the socket and the answers.                 *)
(*                                                                         *)
(* OrderKept speaks of the bytes the socket took.  What makes it inductive *)
(* is where the others are: those in the buffer continue the ones sent,    *)
(* those of a program continue the ones in the buffer, and nothing else    *)
(* was produced.                                                           *)
(***************************************************************************)
EXTENDS OutputStream, SequenceTheorems, TLAPS

\* Nothing was dropped or overtaken, and the socket still takes bytes.
Flawless(q) == q.faults = {} /\ ~q.gone

\* What was sent is in order.
SentOK(q) == q.faults = {} => \A i \in 1..Len(q.sent) : q.sent[i] = i

\* From offset from up to offset to lie the bytes that follow byte b.
Run(mem, from, to, b) == \A i \in from..(to - 1) : mem[i] = b + 1 + (i - from)

\* The buffer continues what was sent.
Follows(q) == Run(q.mem, q.bstart, q.bend, Len(q.sent))

\* the number of bytes sent or waiting in the buffer
Passed(q) == Len(q.sent) + (q.bend - q.bstart)

\* Windows inside the buffer and an orderly past: of every request.
Typed(q) ==
  /\ q \in Connection
  /\ q.bend <= BufferSize
  /\ q.hline <= q.hend /\ q.hend <= BufferSize + 1
  /\ SentOK(q)

\* An orderly buffer: until the request has timed out or died.
Sound(q) ==
  /\ Typed(q)
  /\ q.bstart <= q.bend
  /\ Flawless(q) => Follows(q)

\* Everything produced was sent or is in the buffer.
Whole(q) == Flawless(q) => q.made = Passed(q)

\* ... or it is a program's output, which continues the buffer.  Before its
\* header is complete the server's own header has yet to come between.
InPipe(q) == q.status \in {"PIPE_READ", "PIPE_WRITE"}

Ahead(q, gap) == Passed(q) + gap

Continues(q, gap) ==
  Flawless(q) =>
    /\ Run(q.mem, q.hline, q.hend, Ahead(q, gap))
    /\ q.made = Ahead(q, gap) + (q.hend - q.hline)

\* A program whose header is not complete has half of an empty buffer.
HeaderRoom(q) == IF q.kind = "cgi" THEN HeaderSize ELSE 0

Parsing(q) ==
  /\ Sound(q)
  /\ InPipe(q)
  /\ q.kind \in {"cgi", "raw"}
  /\ q.bstart = 0 /\ q.bend = 0 /\ q.hline = Half
  /\ Flawless(q) => Len(q.sent) = q.base
  /\ Continues(q, HeaderRoom(q))

Passing(q) == Sound(q) /\ InPipe(q) /\ Continues(q, 0)

\* A request that free_request takes, one that goes on, and a connection
\* between two requests.
Final(q) == Typed(q) /\ (BeforeTimedOut(q) => Sound(q) /\ Whole(q))

Going(q) ==
  /\ Typed(q)
  /\ q.status # "READ_HEADER"
  /\ q.status \in {"WRITE", "IOSHUFFLE"} => q.parts # <<>>
  /\ BeforeTimedOut(q) =>
       /\ InPipe(q) /\ q.cgi = "PARSE" => Parsing(q) /\ q.status = "PIPE_READ"
       /\ InPipe(q) /\ q.cgi # "PARSE" => Passing(q)
       /\ ~InPipe(q) => Sound(q) /\ Whole(q)

Waiting(q) ==
  /\ Sound(q) /\ Whole(q)
  /\ q.status = "READ_HEADER"
  /\ q.bstart = 0 /\ q.bend = 0

Inv ==
  /\ pc \in Locations
  /\ asked \in 0..MaxAnswers
  /\ age \in 0..(RequestTimeout + 1)
  /\ pc = "idle" => Waiting(conn)
  /\ pc \in {"flush", "handle", "blocked"} => Going(conn)
  /\ pc = "free" => Final(conn)
  /\ pc = "closed" => Final(conn) /\ (BeforeTimedOut(conn) /\ Flawless(conn) => conn.bend = 0)

-----------------------------------------------------------------------------
LEMMA Sizes ==
  /\ BufferSize \in Nat /\ HeaderSize \in Nat /\ Half \in Nat /\ SockSize \in Nat
  /\ PartSize \in Nat /\ Margin \in Nat /\ MaxAnswers \in Nat /\ RequestTimeout \in Nat
  /\ HeaderSize <= Half /\ Half <= BufferSize
  BY SizesAssumption DEF Half

LEMMA MinOfTwo ==
  ASSUME NEW a \in Nat, NEW b \in Nat
  PROVE  Min({a, b}) = IF a <= b THEN a ELSE b
<1> DEFINE m == IF a <= b THEN a ELSE b
<1>1. m \in {a, b} /\ \A y \in {a, b} : m <= y
  OBVIOUS
<1>2. \A x \in {a, b} : (\A y \in {a, b} : x <= y) => x = m
  OBVIOUS
<1> QED
  BY <1>1, <1>2 DEF Min

\* The components of a request.
LEMMA Components ==
  ASSUME NEW q \in Connection
  PROVE  /\ q.status \in Status /\ q.mem \in [0..BufferSize -> Nat]
         /\ q.bstart \in Nat /\ q.bend \in Nat /\ q.hline \in Nat /\ q.hend \in Nat
         /\ q.cgi \in {"PARSE", "BUFFER", "DONE"} /\ q.kind \in AllKinds
         /\ q.head \in BOOLEAN /\ q.ka \in BOOLEAN /\ q.parts \in Seq(Nat)
         /\ q.multi \in BOOLEAN /\ q.prog \in Nat /\ q.cut \in BOOLEAN
         /\ q.base \in Nat /\ q.made \in Nat /\ q.room \in 0..SockSize
         /\ q.gone \in BOOLEAN /\ q.sent \in Seq(Nat) /\ q.faults \in SUBSET Faults
         /\ Len(q.sent) \in Nat
  BY DEF Connection

\* mem after bytes numbered from first on were put at offset at
LEMMA StoredOK ==
  ASSUME NEW mem \in [0..BufferSize -> Nat], NEW at \in Nat, NEW n \in Nat,
         NEW first \in Nat
  PROVE  /\ Stored(mem, at, n, first) \in [0..BufferSize -> Nat]
         /\ \A i \in 0..BufferSize :
              Stored(mem, at, n, first)[i] =
                IF i \in at..(at + n - 1) THEN first + (i - at) ELSE mem[i]
  BY Sizes DEF Stored

\* a sequence with the first k elements of another behind it
LEMMA TakeOK ==
  ASSUME NEW s \in Seq(Nat), NEW bs \in Seq(Nat), NEW k \in 0..Len(bs)
  PROVE  LET t == s \o SubSeq(bs, 1, k)
         IN  /\ t \in Seq(Nat)
             /\ Len(t) = Len(s) + k
             /\ \A i \in 1..Len(s) : t[i] = s[i]
             /\ \A i \in 1..k : t[Len(s) + i] = bs[i]
<1>1. /\ SubSeq(bs, 1, k) \in Seq(Nat)
      /\ Len(SubSeq(bs, 1, k)) = k
      /\ \A i \in 1..k : SubSeq(bs, 1, k)[i] = bs[i]
  OBVIOUS
<1> DEFINE u == SubSeq(bs, 1, k)
<1> HIDE DEF u
<1>2. /\ s \o u \in Seq(Nat) /\ Len(s \o u) = Len(s) + Len(u)
      /\ \A i \in 1..Len(s) + Len(u) :
           (s \o u)[i] = IF i <= Len(s) THEN s[i] ELSE u[i - Len(s)]
  BY <1>1, ConcatProperties DEF u
<1>3. Len(s) \in Nat
  OBVIOUS
<1>4. \A i \in 1..k : (s \o u)[Len(s) + i] = u[Len(s) + i - Len(s)]
  BY <1>1, <1>2, <1>3 DEF u
<1>5. \A i \in 1..k : Len(s) + i - Len(s) = i
  BY <1>3
<1> QED
  BY <1>1, <1>2, <1>3, <1>4, <1>5 DEF u

-----------------------------------------------------------------------------
\* what an orderly buffer depends on
Stream(q) == <<q.mem, q.bstart, q.bend, q.sent, q.faults, q.gone>>

LEMMA StreamParts ==
  ASSUME NEW p, NEW q, Stream(p) = Stream(q)
  PROVE  /\ p.mem = q.mem /\ p.bstart = q.bstart /\ p.bend = q.bend
         /\ p.sent = q.sent /\ p.faults = q.faults /\ p.gone = q.gone
         /\ Passed(p) = Passed(q) /\ (Flawless(p) <=> Flawless(q))
         /\ (SentOK(p) <=> SentOK(q)) /\ (Follows(p) <=> Follows(q))
  BY DEF Stream, Passed, Flawless, SentOK, Follows

LEMMA SoundKept ==
  ASSUME NEW q, NEW p \in Connection, Sound(q), Stream(p) = Stream(q),
         p.hline <= p.hend, p.hend <= BufferSize + 1
  PROVE  Sound(p)
  BY StreamParts DEF Sound, Typed

LEMMA WholeKept ==
  ASSUME NEW q, NEW p, Whole(q), Stream(p) = Stream(q), p.made = q.made
  PROVE  Whole(p)
  BY StreamParts DEF Whole

\* What the buffer's operations leave alone.
Rest(q) == <<q.hline, q.hend, q.cgi, q.kind, q.head, q.parts, q.multi, q.prog, q.cut, q.base>>

LEMMA RestParts ==
  ASSUME NEW p, NEW q, Rest(p) = Rest(q)
  PROVE  /\ p.hline = q.hline /\ p.hend = q.hend /\ p.cgi = q.cgi /\ p.kind = q.kind
         /\ p.head = q.head /\ p.parts = q.parts /\ p.multi = q.multi
         /\ p.prog = q.prog /\ p.cut = q.cut /\ p.base = q.base
  BY DEF Rest

\* A run with n more bytes stored behind it.
LEMMA LongerRun ==
  ASSUME NEW mem \in [0..BufferSize -> Nat], NEW from \in Nat, NEW to \in Nat,
         NEW n \in Nat, NEW b \in Nat, from <= to, to + n <= BufferSize + 1,
         NEW first \in Nat, first = b + 1 + (to - from), NEW end, end = to + n,
         Run(mem, from, to, b)
  PROVE  Run(Stored(mem, to, n, first), from, end, b)
<1> SUFFICES ASSUME NEW i \in from..(to + n - 1)
             PROVE  Stored(mem, to, n, first)[i] = b + 1 + (i - from)
  BY DEF Run
<1>1. i \in 0..BufferSize
  BY Sizes
<1>2. Stored(mem, to, n, first)[i] = IF i \in to..(to + n - 1) THEN first + (i - to) ELSE mem[i]
  BY <1>1 DEF Stored
<1>3. CASE i < to
  BY <1>2, <1>3 DEF Run
<1>4. CASE i >= to
  BY <1>2, <1>4
<1> QED
  BY <1>3, <1>4

\* A run elsewhere is not touched.
LEMMA OtherRun ==
  ASSUME NEW mem \in [0..BufferSize -> Nat], NEW from \in Nat, NEW to \in Nat,
         NEW at \in Nat, NEW n \in Nat, NEW first \in Nat, NEW b \in Nat,
         to <= BufferSize + 1, (at..(at + n - 1)) \cap (from..(to - 1)) = {},
         Run(mem, from, to, b)
  PROVE  Run(Stored(mem, at, n, first), from, to, b)
<1> SUFFICES ASSUME NEW i \in from..(to - 1)
             PROVE  Stored(mem, at, n, first)[i] = b + 1 + (i - from)
  BY DEF Run
<1>1. i \in 0..BufferSize
  BY Sizes
<1>2. Stored(mem, at, n, first)[i] = IF i \in at..(at + n - 1) THEN first + (i - at) ELSE mem[i]
  BY <1>1 DEF Stored
<1>3. i \notin at..(at + n - 1)
  OBVIOUS
<1> QED
  BY <1>2, <1>3 DEF Run

\* A NUL stored outside a run leaves it alone.
LEMMA TerminatedOK ==
  ASSUME NEW mem \in [0..BufferSize -> Nat], NEW at \in Nat
  PROVE  /\ Terminated(mem, at) \in [0..BufferSize -> Nat]
         /\ \A from \in Nat, to \in Nat, b \in Nat :
              to <= BufferSize + 1 /\ at \notin from..(to - 1) /\ Run(mem, from, to, b)
                => Run(Terminated(mem, at), from, to, b)
<1>1. Terminated(mem, at) \in [0..BufferSize -> Nat]
  BY DEF Terminated
<1>2. ASSUME NEW from \in Nat, NEW to \in Nat, NEW b \in Nat, to <= BufferSize + 1,
             at \notin from..(to - 1), Run(mem, from, to, b), NEW i \in from..(to - 1)
      PROVE  Terminated(mem, at)[i] = b + 1 + (i - from)
  <2>1. i \in 0..BufferSize /\ i # at
    BY <1>2, Sizes
  <2> QED
    BY <1>2, <2>1 DEF Terminated, Run
<1> QED
  BY <1>1, <1>2 DEF Run

\* Bytes that continue the answer, put behind the buffer.
LEMMA AppendOK ==
  ASSUME NEW q, Sound(q), Whole(q), NEW n \in Nat, q.bend + n <= BufferSize,
         NEW p \in Connection, Rest(p) = Rest(q),
         NEW first \in Nat, first = q.made + 1, p.mem = Stored(q.mem, q.bend, n, first),
         p.bend = q.bend + n, p.made = q.made + n,
         p.bstart = q.bstart, p.sent = q.sent, p.faults = q.faults, p.gone = q.gone
  PROVE  Sound(p) /\ Whole(p)
<1>1. q \in Connection /\ q.bstart <= q.bend
  BY DEF Sound, Typed
<1>2. /\ q.mem \in [0..BufferSize -> Nat] /\ q.bend \in Nat /\ q.bstart \in Nat
      /\ q.made \in Nat /\ Len(q.sent) \in Nat
  BY <1>1, Components
<1>3. Typed(p)
  BY <1>2, RestParts DEF Sound, Typed, SentOK
<1>4. ASSUME Flawless(p) PROVE Follows(p) /\ p.made = Passed(p)
  <2>1. Flawless(q) /\ Follows(q) /\ q.made = Passed(q)
    BY <1>4 DEF Flawless, Sound, Whole
  <2>2. first = Len(q.sent) + 1 + (q.bend - q.bstart)
    BY <1>2, <2>1 DEF Passed
  <2>3. q.bend + n <= BufferSize + 1
    BY <1>2, Sizes
  <2>4. Run(Stored(q.mem, q.bend, n, first), q.bstart, p.bend, Len(q.sent))
    BY <1>1, <1>2, <2>1, <2>2, <2>3, LongerRun DEF Follows
  <2>6. Follows(p)
    BY <2>4 DEF Follows
  <2>7. p.made = Passed(p)
    BY <1>2, <2>1 DEF Passed
  <2> QED
    BY <2>6, <2>7
<1>5. p.bstart <= p.bend
  BY <1>1, <1>2
<1> QED
  BY <1>3, <1>4, <1>5 DEF Sound, Whole

LEMMA WriteOK ==
  ASSUME NEW q, Sound(q), Whole(q), NEW n \in Nat
  PROVE  /\ Sound(req_write(q, n)) /\ Whole(req_write(q, n))
         /\ Rest(req_write(q, n)) = Rest(q)
         /\ req_write(q, n).status \in {q.status, "DEAD"}
         /\ req_write(q, n).bstart = q.bstart
         /\ req_write(q, n).sent = q.sent
         /\ Flawless(req_write(q, n)) <=> Flawless(q)
<1>1. q \in Connection
  BY DEF Sound, Typed
<1>2. /\ q.mem \in [0..BufferSize -> Nat] /\ q.bend \in Nat /\ q.made \in Nat
      /\ q.hline <= q.hend /\ q.hend <= BufferSize + 1 /\ q.made + 1 \in Nat
      /\ q.bend + n \in Nat /\ q.made + n \in Nat
  BY <1>1, Components DEF Sound, Typed
<1>3. CASE ~BeforeTimedOut(q)
  BY <1>3 DEF req_write
<1>4. CASE BeforeTimedOut(q) /\ q.bend + n > BufferSize
  <2> DEFINE p == [q EXCEPT !.status = "DEAD"]
  <2>1. req_write(q, n) = p
    BY <1>4 DEF req_write
  <2>2. /\ p \in Connection /\ Stream(p) = Stream(q) /\ Rest(p) = Rest(q)
        /\ p.status = "DEAD" /\ p.made = q.made /\ p.bstart = q.bstart /\ p.sent = q.sent
    BY <1>1 DEF Connection, Status, Stream, Rest
  <2> HIDE DEF p
  <2>3. Sound(p) /\ Whole(p) /\ (Flawless(p) <=> Flawless(q))
    BY <1>2, <2>2, SoundKept, WholeKept, RestParts, StreamParts
  <2> QED
    BY <2>1, <2>2, <2>3
<1>5. CASE BeforeTimedOut(q) /\ ~(q.bend + n > BufferSize)
  <2> DEFINE first == q.made + 1
             m == Stored(q.mem, q.bend, n, first)
             p == [q EXCEPT !.mem = m, !.bend = @ + n, !.made = @ + n]
  <2>1. req_write(q, n) = p
    BY <1>5 DEF req_write
  <2>0. first \in Nat /\ first = q.made + 1
    BY <1>2
  <2> HIDE DEF first
  <2>2. m \in [0..BufferSize -> Nat]
    BY <1>2, <2>0, StoredOK
  <2> HIDE DEF m
  <2>3. /\ p \in Connection /\ Rest(p) = Rest(q) /\ p.mem = m
        /\ p.bend = q.bend + n /\ p.made = q.made + n /\ p.status = q.status
        /\ p.bstart = q.bstart /\ p.sent = q.sent /\ p.faults = q.faults /\ p.gone = q.gone
    BY <1>1, <1>2, <2>2 DEF Connection, Rest
  <2> HIDE DEF p
  <2>4. Sound(p) /\ Whole(p)
    <3>1. q.bend + n <= BufferSize
      BY <1>2, <1>5, Sizes
    <3> QED
      BY <2>0, <2>3, <3>1, AppendOK DEF m
  <2> QED
    BY <2>1, <2>3, <2>4 DEF Flawless
<1> QED
  BY <1>3, <1>4, <1>5

-----------------------------------------------------------------------------
\* Taking bytes off the head of a run, and a run of none.
LEMMA ShorterRun ==
  ASSUME NEW mem, NEW from \in Nat, NEW to \in Nat, NEW k \in Nat, NEW b \in Nat,
         Run(mem, from, to, b), NEW start, start = from + k, NEW c, c = b + k
  PROVE  Run(mem, start, to, c)
<1> SUFFICES ASSUME NEW i \in start..(to - 1)
             PROVE  mem[i] = c + 1 + (i - start)
  BY DEF Run
<1>1. i \in from..(to - 1)
  OBVIOUS
<1> QED
  BY <1>1 DEF Run

LEMMA NoRun ==
  ASSUME NEW mem, NEW at \in Nat, NEW b PROVE Run(mem, at, at, b)
<1>1. at..(at - 1) = {}
  OBVIOUS
<1> QED
  BY <1>1 DEF Run

\* The bytes of a run as write() is given them.
LEMMA BytesOK ==
  ASSUME NEW mem \in [0..BufferSize -> Nat], NEW from \in Nat, NEW to \in Nat,
         from <= to, to <= BufferSize + 1
  PROVE  /\ Bytes(mem, from, to) \in Seq(Nat)
         /\ Len(Bytes(mem, from, to)) = to - from
         /\ \A b \in Nat : Run(mem, from, to, b) =>
              \A i \in 1..(to - from) : Bytes(mem, from, to)[i] = b + i
<1>1. \A i \in 1..(to - from) : from + i - 1 \in 0..BufferSize
  BY Sizes
<1>2. Bytes(mem, from, to) \in Seq(Nat) /\ Len(Bytes(mem, from, to)) = to - from
  BY <1>1 DEF Bytes
<1>3. ASSUME NEW b \in Nat, Run(mem, from, to, b), NEW i \in 1..(to - from)
      PROVE  Bytes(mem, from, to)[i] = b + i
  <2>1. Bytes(mem, from, to)[i] = mem[from + i - 1]
    BY DEF Bytes
  <2>2. PICK j \in from..(to - 1) : j = from + i - 1
    OBVIOUS
  <2>3. mem[j] = b + 1 + (j - from)
    BY <1>3 DEF Run
  <2> QED
    BY <2>1, <2>2, <2>3
<1> QED
  BY <1>2, <1>3

LEMMA TakenOK ==
  ASSUME NEW q \in Connection, NEW bs \in Seq(Nat)
  PROVE  /\ Taken(q, bs) \in 0..Len(bs) /\ Taken(q, bs) \in 0..q.room
         /\ Taken(q, bs) = 0 => q.room = 0 \/ Len(bs) = 0
<1>1. q.room \in Nat /\ Len(bs) \in Nat
  BY Components, Sizes
<1> QED
  BY <1>1, MinOfTwo DEF Taken

\* What the socket took.
LEMMA WrittenOK ==
  ASSUME NEW q \in Connection, NEW bs \in Seq(Nat)
  PROVE  LET w == Written(q, bs)
         IN  /\ w \in Connection /\ Rest(w) = Rest(q)
             /\ w.mem = q.mem /\ w.bstart = q.bstart /\ w.bend = q.bend
             /\ w.status = q.status /\ w.made = q.made /\ w.ka = q.ka
             /\ w.faults = q.faults /\ w.gone = q.gone
             /\ Len(w.sent) = Len(q.sent) + Taken(q, bs)
             /\ (\A i \in 1..Len(bs) : bs[i] = Len(q.sent) + i)
                  /\ (\A i \in 1..Len(q.sent) : q.sent[i] = i)
                => \A i \in 1..Len(w.sent) : w.sent[i] = i
<1> DEFINE k == Taken(q, bs)
           t == q.sent \o SubSeq(bs, 1, k)
           r == q.room - k
           w == [q EXCEPT !.sent = t, !.room = r]
<1>1. Written(q, bs) = w
  BY DEF Written
<1>2. k \in 0..Len(bs) /\ k \in 0..q.room
  BY TakenOK
<1>3. q.sent \in Seq(Nat) /\ Len(q.sent) \in Nat /\ q.room \in 0..SockSize
  BY Components
<1> HIDE DEF k
<1>4. r \in 0..SockSize
  BY <1>2, <1>3, Sizes
<1>5. /\ t \in Seq(Nat) /\ Len(t) = Len(q.sent) + k
      /\ \A i \in 1..Len(q.sent) : t[i] = q.sent[i]
      /\ \A i \in 1..k : t[Len(q.sent) + i] = bs[i]
  BY <1>2, <1>3, TakeOK
<1> HIDE DEF t, r
<1>6. /\ w \in Connection /\ Rest(w) = Rest(q)
      /\ w.mem = q.mem /\ w.bstart = q.bstart /\ w.bend = q.bend
      /\ w.status = q.status /\ w.made = q.made /\ w.ka = q.ka
      /\ w.faults = q.faults /\ w.gone = q.gone /\ w.sent = t
  BY <1>4, <1>5 DEF Connection, Rest
<1>7. ASSUME \A i \in 1..Len(bs) : bs[i] = Len(q.sent) + i,
             \A i \in 1..Len(q.sent) : q.sent[i] = i,
             NEW i \in 1..Len(t)
      PROVE  t[i] = i
  <2>1. CASE i <= Len(q.sent)
    <3>1. Len(t) \in Nat
      BY <1>5
    <3>2. i \in 1..Len(q.sent)
      BY <1>3, <2>1, <3>1
    <3> QED
      BY <1>5, <1>7, <3>2
  <2>2. CASE i > Len(q.sent)
    <3>1. PICK j \in 1..k : i = Len(q.sent) + j
      <4>1. i - Len(q.sent) \in 1..k /\ i = Len(q.sent) + (i - Len(q.sent))
        BY <1>2, <1>3, <1>5, <2>2
      <4> QED
        BY <4>1
    <3>2. t[i] = bs[j] /\ j \in 1..Len(bs)
      BY <1>2, <1>5, <3>1
    <3> QED
      BY <1>7, <3>1, <3>2
  <2>3. i \in Nat /\ Len(q.sent) \in Nat
    <3>1. Len(t) \in Nat
      BY <1>5
    <3> QED
      BY <1>3, <3>1
  <2>4. i <= Len(q.sent) \/ i > Len(q.sent)
    BY <2>3
  <2> QED
    BY <2>1, <2>2, <2>4
<1> HIDE DEF w
<1> QED
  BY <1>1, <1>5, <1>6, <1>7 DEF k

-----------------------------------------------------------------------------
(***************************************************************************)
(* req_flush moves the boundary between what was sent and the buffer, and  *)
(* nothing else.                                                           *)
(***************************************************************************)
\* bytes of the buffer the socket took leave it
LEMMA AdvancedOK ==
  ASSUME NEW w \in Connection, NEW k \in Nat, w.bend <= BufferSize,
         w.bstart + k <= w.bend, w.hline <= w.hend, w.hend <= BufferSize + 1, SentOK(w),
         Flawless(w) => \E b \in Nat : Len(w.sent) = b + k /\ Run(w.mem, w.bstart, w.bend, b)
  PROVE  LET a == Advanced(w, k)
         IN  /\ Sound(a) /\ Rest(a) = Rest(w)
             /\ a.status = w.status /\ a.made = w.made /\ a.sent = w.sent /\ a.ka = w.ka
             /\ a.mem = w.mem /\ a.faults = w.faults /\ a.gone = w.gone
             /\ a.bend - a.bstart = w.bend - w.bstart - k
             /\ a.bend = 0 => a.bstart = 0
<1>1. w.bend \in Nat /\ w.bstart \in Nat /\ Len(w.sent) \in Nat
  BY Components
<1>2. CASE w.bstart + k = w.bend
  <2> DEFINE a == [w EXCEPT !.bstart = 0, !.bend = 0]
  <2>1. Advanced(w, k) = a
    BY <1>2 DEF Advanced
  <2>2. /\ a \in Connection /\ Rest(a) = Rest(w)
        /\ a.status = w.status /\ a.made = w.made /\ a.sent = w.sent /\ a.ka = w.ka
        /\ a.mem = w.mem /\ a.faults = w.faults /\ a.gone = w.gone
        /\ a.bstart = 0 /\ a.bend = 0
    BY DEF Connection, Rest
  <2> HIDE DEF a
  <2>3. Sound(a)
    BY <2>2, Sizes, RestParts, NoRun DEF Sound, Typed, SentOK, Follows
  <2>4. w.bend - w.bstart - k = 0
    BY <1>1, <1>2
  <2> QED
    BY <2>1, <2>2, <2>3, <2>4
<1>3. CASE w.bstart + k # w.bend
  <2> DEFINE n == w.bstart + k
             a == [w EXCEPT !.bstart = n]
  <2>1. Advanced(w, k) = a
    BY <1>3 DEF Advanced
  <2>2. n \in Nat /\ n < w.bend
    BY <1>1, <1>3
  <2>3. n = w.bstart + k
    OBVIOUS
  <2> HIDE DEF n
  <2>4. /\ a \in Connection /\ Rest(a) = Rest(w)
        /\ a.status = w.status /\ a.made = w.made /\ a.sent = w.sent /\ a.ka = w.ka
        /\ a.mem = w.mem /\ a.faults = w.faults /\ a.gone = w.gone
        /\ a.bstart = n /\ a.bend = w.bend
    BY <2>2 DEF Connection, Rest
  <2> HIDE DEF a
  <2>5. ASSUME Flawless(a) PROVE Follows(a)
    <3>1. PICK b \in Nat : Len(w.sent) = b + k /\ Run(w.mem, w.bstart, w.bend, b)
      BY <2>4, <2>5 DEF Flawless
    <3>2. Run(w.mem, n, w.bend, Len(w.sent))
      BY <1>1, <2>3, <3>1, ShorterRun
    <3> QED
      BY <2>4, <3>2 DEF Follows
  <2>6. Sound(a)
    BY <1>1, <2>2, <2>4, <2>5, RestParts DEF Sound, Typed, SentOK
  <2>7. a.bend - a.bstart = w.bend - w.bstart - k /\ a.bend # 0
    BY <1>1, <2>2, <2>3, <2>4
  <2> QED
    BY <2>1, <2>4, <2>6, <2>7
<1> QED
  BY <1>2, <1>3

LEMMA FlushOK ==
  ASSUME NEW q, Sound(q), NEW o \in req_flush(q)
  PROVE  /\ Sound(o.q) /\ Rest(o.q) = Rest(q) /\ o.q.made = q.made
         /\ o.q.faults = q.faults /\ o.q.gone = q.gone /\ o.q.ka = q.ka /\ o.q.mem = q.mem
         /\ Flawless(o.q) => Passed(o.q) = Passed(q)
         /\ o.rv \in Int /\ o.rv >= -2
         /\ o.rv = -2 => ~BeforeTimedOut(o.q)
         /\ o.rv # -2 => o.q.status = q.status
         /\ o.rv = -1 => o.q = q
         /\ o.rv = 0 => o.q.bend = 0 /\ o.q.bstart = 0
         /\ o.q.status \in {q.status, "DEAD"}
<1>1. q \in Connection /\ q.bstart <= q.bend /\ q.bend <= BufferSize /\ SentOK(q)
      /\ q.hline <= q.hend /\ q.hend <= BufferSize + 1
  BY DEF Sound, Typed
<1>2. /\ q.mem \in [0..BufferSize -> Nat] /\ q.bend \in Nat /\ q.bstart \in Nat
      /\ Len(q.sent) \in Nat /\ q.room \in Nat
  BY <1>1, Components, Sizes
<1>3. CASE ~BeforeTimedOut(q)
  BY <1>3 DEF req_flush, Outcome
<1>4. CASE BeforeTimedOut(q) /\ q.bend = q.bstart
  <2> DEFINE a == Advanced(q, 0)
  <2>1. o = Outcome(0, a)
    BY <1>4 DEF req_flush
  <2>2. ASSUME Flawless(q) PROVE \E b \in Nat : Len(q.sent) = b + 0 /\ Run(q.mem, q.bstart, q.bend, b)
    BY <1>2, <2>2 DEF Sound, Follows
  <2>3. q.bstart + 0 <= q.bend
    BY <1>1, <1>2
  <2>4. /\ Sound(a) /\ Rest(a) = Rest(q)
        /\ a.status = q.status /\ a.made = q.made /\ a.sent = q.sent /\ a.ka = q.ka
        /\ a.faults = q.faults /\ a.gone = q.gone /\ a.mem = q.mem
        /\ a.bend - a.bstart = q.bend - q.bstart - 0
    BY <1>1, <2>2, <2>3, AdvancedOK
  <2>5. a.bend = 0 /\ a.bstart = 0
    BY <1>1, <1>2, <1>4 DEF Advanced, Connection
  <2> HIDE DEF a
  <2>6. Passed(a) = Passed(q)
    BY <1>2, <1>4, <2>4, <2>5 DEF Passed
  <2> QED
    BY <2>1, <2>4, <2>5, <2>6 DEF Outcome
<1>5. CASE BeforeTimedOut(q) /\ q.bend # q.bstart /\ q.gone
  <2> DEFINE a == [q EXCEPT !.status = "DEAD", !.bstart = 0, !.bend = 0]
  <2>1. o = Outcome(-2, a)
    BY <1>5 DEF req_flush
  <2>2. /\ a \in Connection /\ Rest(a) = Rest(q) /\ a.sent = q.sent
        /\ a.status = "DEAD" /\ a.made = q.made /\ a.ka = q.ka
        /\ a.faults = q.faults /\ a.gone = q.gone /\ a.mem = q.mem /\ a.bstart = 0 /\ a.bend = 0
    BY <1>1 DEF Connection, Rest, Status
  <2> HIDE DEF a
  <2>3. Sound(a) /\ ~Flawless(a)
    BY <1>1, <1>5, <2>2, Sizes, RestParts DEF Sound, Typed, SentOK, Flawless
  <2> QED
    BY <2>1, <2>2, <2>3 DEF Outcome, BeforeTimedOut
<1>6. CASE BeforeTimedOut(q) /\ q.bend # q.bstart /\ ~q.gone /\ q.room = 0
  BY <1>6 DEF req_flush, Blocked, Outcome
<1>7. CASE BeforeTimedOut(q) /\ q.bend # q.bstart /\ ~q.gone /\ q.room # 0
  <2> DEFINE bs == Bytes(q.mem, q.bstart, q.bend)
             k  == Taken(q, bs)
             w  == Written(q, bs)
             a  == Advanced(w, k)
  <2>1. o = Outcome(a.bend, a)
    BY <1>7 DEF req_flush
  <2>2. /\ bs \in Seq(Nat) /\ Len(bs) = q.bend - q.bstart
        /\ Run(q.mem, q.bstart, q.bend, Len(q.sent)) =>
             \A i \in 1..(q.bend - q.bstart) : bs[i] = Len(q.sent) + i
    <3>1. q.bend <= BufferSize + 1
      BY <1>1, <1>2, Sizes
    <3> QED
      BY <1>1, <1>2, <3>1, BytesOK
  <2> HIDE DEF bs
  <2>3. k \in 0..Len(bs) /\ k # 0
    <3>1. k \in 0..Len(bs) /\ (k = 0 => q.room = 0 \/ Len(bs) = 0)
      BY <1>1, <2>2, TakenOK
    <3> QED
      BY <1>2, <1>7, <2>2, <3>1
  <2>4. /\ w \in Connection /\ Rest(w) = Rest(q)
        /\ w.mem = q.mem /\ w.bstart = q.bstart /\ w.bend = q.bend
        /\ w.status = q.status /\ w.made = q.made /\ w.ka = q.ka
        /\ w.faults = q.faults /\ w.gone = q.gone
        /\ Len(w.sent) = Len(q.sent) + k
        /\ (\A i \in 1..Len(bs) : bs[i] = Len(q.sent) + i)
             /\ (\A i \in 1..Len(q.sent) : q.sent[i] = i)
           => \A i \in 1..Len(w.sent) : w.sent[i] = i
    BY <1>1, <2>2, WrittenOK
  <2> HIDE DEF w, k
  <2>5. SentOK(w)
    <3>1. q.faults = {} => Run(q.mem, q.bstart, q.bend, Len(q.sent))
      BY <1>7 DEF Sound, Flawless, Follows
    <3> QED
      BY <1>1, <2>2, <2>4, <3>1 DEF SentOK
  <2>6. ASSUME Flawless(w)
        PROVE  \E b \in Nat : Len(w.sent) = b + k /\ Run(w.mem, w.bstart, w.bend, b)
    <3>1. Follows(q)
      BY <2>4, <2>6 DEF Sound, Flawless
    <3> QED
      BY <1>2, <2>4, <3>1 DEF Follows
  <2>7. k \in Nat /\ w.bstart + k <= w.bend /\ w.hline <= w.hend /\ w.hend <= BufferSize + 1
    BY <1>1, <1>2, <2>2, <2>3, <2>4, RestParts
  <2>8. /\ Sound(a) /\ Rest(a) = Rest(w)
        /\ a.status = w.status /\ a.made = w.made /\ a.sent = w.sent /\ a.ka = w.ka
        /\ a.faults = w.faults /\ a.gone = w.gone /\ a.mem = w.mem
        /\ a.bend - a.bstart = w.bend - w.bstart - k
        /\ a.bend = 0 => a.bstart = 0
    BY <1>1, <2>4, <2>5, <2>6, <2>7, AdvancedOK
  <2> HIDE DEF a
  <2>9. Passed(a) = Passed(q)
    BY <1>2, <2>4, <2>7, <2>8 DEF Passed
  <2>10. a.bend \in Nat
    BY <2>8, Components DEF Sound, Typed
  <2> QED
    BY <2>1, <2>4, <2>8, <2>9, <2>10 DEF Outcome
<1> QED
  BY <1>3, <1>4, <1>5, <1>6, <1>7

\* A change of status, or of anything the stream does not consist of.
LEMMA StatusOK ==
  ASSUME NEW q, Sound(q), Whole(q), NEW s \in Status
  PROVE  LET p == [q EXCEPT !.status = s]
         IN  /\ Sound(p) /\ Whole(p) /\ Rest(p) = Rest(q) /\ Stream(p) = Stream(q)
             /\ p.status = s /\ p.made = q.made
<1> DEFINE p == [q EXCEPT !.status = s]
<1>1. q \in Connection /\ q.hline <= q.hend /\ q.hend <= BufferSize + 1
  BY DEF Sound, Typed
<1>2. /\ p \in Connection /\ Stream(p) = Stream(q) /\ Rest(p) = Rest(q)
      /\ p.status = s /\ p.made = q.made
  BY <1>1 DEF Connection, Stream, Rest
<1> HIDE DEF p
<1>3. Sound(p) /\ Whole(p)
  BY <1>1, <1>2, SoundKept, WholeKept, RestParts
<1> QED
  BY <1>2, <1>3 DEF p

\* One more fault noted.
LEMMA FaultOK ==
  ASSUME NEW q, Sound(q), Whole(q), NEW f \in SUBSET Faults, f = {} => q.faults = {}
  PROVE  LET p == [q EXCEPT !.faults = f]
         IN  Sound(p) /\ Whole(p) /\ p.status = q.status
<1> DEFINE p == [q EXCEPT !.faults = f]
<1>1. /\ q \in Connection /\ q.bend <= BufferSize /\ q.bstart <= q.bend /\ SentOK(q)
      /\ q.hline <= q.hend /\ q.hend <= BufferSize + 1
  BY DEF Sound, Typed
<1>2. /\ p \in Connection /\ p.mem = q.mem /\ p.bstart = q.bstart /\ p.bend = q.bend
      /\ p.hline = q.hline /\ p.hend = q.hend /\ p.made = q.made /\ p.sent = q.sent
      /\ p.gone = q.gone /\ p.status = q.status /\ p.faults = f
  BY <1>1 DEF Connection
<1> HIDE DEF p
<1>3. Flawless(p) => Flawless(q)
  BY <1>2 DEF Flawless
<1>4. Sound(p)
  BY <1>1, <1>2, <1>3 DEF Sound, Typed, SentOK, Follows
<1>5. Whole(p)
  BY <1>2, <1>3 DEF Whole, Passed
<1> QED
  BY <1>2, <1>4, <1>5 DEF p

\* A flush whose result nobody looks at.
LEMMA FlushedOK ==
  ASSUME NEW q, Sound(q), Whole(q), NEW p \in Flushed(q)
  PROVE  /\ Sound(p) /\ Whole(p) /\ Rest(p) = Rest(q)
         /\ p.status \in {q.status, "DEAD"}
<1>1. PICK o \in req_flush(q) : p = o.q
  BY DEF Flushed
<1>2. /\ Sound(p) /\ Rest(p) = Rest(q) /\ p.made = q.made
      /\ p.faults = q.faults /\ p.gone = q.gone
      /\ Flawless(p) => Passed(p) = Passed(q)
      /\ p.status \in {q.status, "DEAD"}
  BY <1>1, FlushOK
<1> QED
  BY <1>2 DEF Whole, Flawless

\* An error page in place of an answer of which nothing was passed on.
LEMMA SendOK ==
  ASSUME NEW q, Sound(q), Flawless(q) => q.base = Passed(q), NEW p \in send_r(q)
  PROVE  /\ Sound(p) /\ Whole(p) /\ Rest(p) = Rest(q)
         /\ p.status \in {q.status, "DEAD"}
<1> DEFINE e == [q EXCEPT !.ka = FALSE, !.made = q.base]
           w == req_write(e, HeaderSize)
<1>1. q \in Connection /\ q.hline <= q.hend /\ q.hend <= BufferSize + 1
  BY DEF Sound, Typed
<1>2. /\ e \in Connection /\ Stream(e) = Stream(q) /\ Rest(e) = Rest(q)
      /\ e.status = q.status /\ e.made = q.base
  BY <1>1 DEF Connection, Stream, Rest
<1>3. p \in Flushed(w)
  BY DEF send_r
<1> HIDE DEF e
<1>4. Sound(e) /\ Whole(e)
  BY <1>1, <1>2, SoundKept, RestParts, StreamParts DEF Whole
<1>5. Sound(w) /\ Whole(w) /\ Rest(w) = Rest(e) /\ w.status \in {e.status, "DEAD"}
  BY <1>4, Sizes, WriteOK
<1> HIDE DEF w
<1> QED
  BY <1>2, <1>3, <1>5, FlushedOK

\* Outcomes of a handler, as process_requests goes on from them.
OutcomeOK(o) ==
  /\ o.rv \in Int /\ o.rv >= -1
  /\ o.rv = 0 => Final(o.q)
  /\ o.rv # 0 => Going(o.q)

LEMMA CompleteOK ==
  ASSUME NEW q, Sound(q), Whole(q) PROVE OutcomeOK(Complete(q))
<1>1. Complete(q).rv = 0 /\ Complete(q).q = q
  BY DEF Complete, Outcome
<1> QED
  BY <1>1 DEF OutcomeOK, Final, Sound

LEMMA MoreOK ==
  ASSUME NEW q, Going(q) PROVE OutcomeOK(MoreToDo(q)) /\ OutcomeOK(Blocked(q))
<1>1. MoreToDo(q).rv = 1 /\ MoreToDo(q).q = q /\ Blocked(q).rv = -1 /\ Blocked(q).q = q
  BY DEF MoreToDo, Blocked, Outcome
<1> QED
  BY <1>1 DEF OutcomeOK

LEMMA DiedOK ==
  ASSUME NEW q, Typed(q) PROVE OutcomeOK(Died(q))
<1> DEFINE d == [q EXCEPT !.status = "DEAD"]
<1>1. Died(q).rv = 0 /\ Died(q).q = d
  BY DEF Died, Complete, Outcome
<1>2. /\ d \in Connection /\ d.status = "DEAD" /\ d.bend = q.bend /\ d.hline = q.hline
      /\ d.hend = q.hend /\ d.sent = q.sent /\ d.faults = q.faults
  BY DEF Typed, Connection, Status
<1> HIDE DEF d
<1>3. Final(d)
  BY <1>2 DEF Final, Typed, SentOK, BeforeTimedOut
<1> QED
  BY <1>1, <1>3 DEF OutcomeOK

\* A request outside the pipe stages whose buffer is in order goes on.
LEMMA GoesOn ==
  ASSUME NEW q, Sound(q), Whole(q),
         q.status \in {"DONE", "DEAD"} \/ (q.status \in {"WRITE", "IOSHUFFLE"} /\ q.parts # <<>>)
  PROVE  Going(q)
  BY DEF Going, Sound, InPipe


-----------------------------------------------------------------------------
\* The end of a range: another part, the trailer, or the end of the answer.
LEMMA ResponseOK ==
  ASSUME NEW q, Sound(q), Whole(q), q.parts # <<>>,
         q.status \in {"WRITE", "IOSHUFFLE", "DEAD"}, NEW o \in complete_response(q)
  PROVE  OutcomeOK(o)
<1> DEFINE t      == Tail(q.parts)
           popped == [q EXCEPT !.parts = t]
           w      == req_write(popped, PartSize)
           f      == IF BeforeTimedOut(w) THEN w.faults ELSE w.faults \cup {"lost"}
           noted  == [w EXCEPT !.faults = f]
           done   == [noted EXCEPT !.status = "DONE"]
           trail  == Trailed(popped)
<1>1. q \in Connection /\ q.hline <= q.hend /\ q.hend <= BufferSize + 1
  BY DEF Sound, Typed
<1>2. \/ o = Complete([popped EXCEPT !.status = "DONE"])
      \/ popped.parts # <<>> /\ o = MoreToDo(w)
      \/ \E p \in Flushed(trail) : o = MoreToDo(p)
  BY DEF complete_response
<1>3. t \in Seq(Nat)
  BY <1>1, Components, HeadTailProperties
<1> HIDE DEF t
<1>4. /\ popped \in Connection /\ Stream(popped) = Stream(q) /\ popped.made = q.made
      /\ popped.status = q.status /\ popped.hline = q.hline /\ popped.hend = q.hend
  BY <1>1, <1>3 DEF Connection, Stream
<1> HIDE DEF popped
<1>5. Sound(popped) /\ Whole(popped)
  BY <1>1, <1>4, SoundKept, WholeKept
<1>6. /\ Sound(w) /\ Whole(w) /\ w.status \in {popped.status, "DEAD"}
      /\ w.parts = popped.parts
  BY <1>5, Sizes, WriteOK, RestParts
<1>12. trail = [w EXCEPT !.status = "DONE", !.faults = f]
  BY DEF Trailed
<1> HIDE DEF w, trail
<1>7. "DONE" \in Status
  BY DEF Status
<1>8. Sound(trail) /\ Whole(trail) /\ trail.status = "DONE"
  <2>1. w \in Connection /\ w.faults \in SUBSET Faults
    BY <1>6, Components DEF Sound, Typed
  <2>2. f \in SUBSET Faults /\ (f = {} => w.faults = {})
    BY <2>1 DEF Faults
  <2> HIDE DEF f
  <2>3. Sound(noted) /\ Whole(noted)
    BY <1>6, <2>2, FaultOK
  <2>4. done = trail
    BY <1>12, <2>1, <2>2 DEF Connection
  <2> HIDE DEF noted
  <2>5. Sound(done) /\ Whole(done) /\ done.status = "DONE"
    BY <1>7, <2>3, StatusOK
  <2> QED
    BY <2>4, <2>5
<1>9. CASE o = Complete([popped EXCEPT !.status = "DONE"])
  <2>1. Sound([popped EXCEPT !.status = "DONE"]) /\ Whole([popped EXCEPT !.status = "DONE"])
    BY <1>5, <1>7, StatusOK
  <2> QED
    BY <1>9, <2>1, CompleteOK
<1>10. CASE popped.parts # <<>> /\ o = MoreToDo(w)
  <2>1. Going(w)
    BY <1>4, <1>6, <1>10, GoesOn
  <2> QED
    BY <1>10, <2>1, MoreOK
<1>11. ASSUME NEW p \in Flushed(trail), o = MoreToDo(p) PROVE OutcomeOK(o)
  <2>1. Sound(p) /\ Whole(p) /\ p.status \in {"DONE", "DEAD"}
    BY <1>8, FlushedOK
  <2>2. Going(p)
    BY <2>1, GoesOn
  <2> QED
    BY <1>11, <2>2, MoreOK
<1> QED
  BY <1>2, <1>9, <1>10, <1>11

\* A handler's own write: in order when the buffer is empty, a fault else.
LEMMA DirectOK ==
  ASSUME NEW q, Sound(q), ~q.gone, NEW bs \in Seq(Nat),
         Flawless(q) /\ q.bend = 0 => \A i \in 1..Len(bs) : bs[i] = Len(q.sent) + i
  PROVE  LET d == Direct(q, bs)
         IN  /\ d \in Connection /\ Rest(d) = Rest(q) /\ SentOK(d)
             /\ d.mem = q.mem /\ d.bstart = q.bstart /\ d.bend = q.bend /\ d.gone = q.gone
             /\ d.status = q.status /\ d.made = q.made
             /\ d.faults = {} => q.faults = {} /\ q.bend = 0 /\ q.bstart = 0
             /\ Len(d.sent) = Len(q.sent) + Taken(q, bs)
<1> DEFINE w == Written(q, bs)
           f == IF q.bend = 0 THEN w.faults ELSE w.faults \cup {"overtaken"}
           d == [w EXCEPT !.faults = f]
<1>1. Direct(q, bs) = d
  BY DEF Direct
<1>2. q \in Connection /\ SentOK(q) /\ q.bstart <= q.bend
  BY DEF Sound, Typed
<1>3. /\ w \in Connection /\ Rest(w) = Rest(q)
      /\ w.mem = q.mem /\ w.bstart = q.bstart /\ w.bend = q.bend
      /\ w.status = q.status /\ w.made = q.made
      /\ w.faults = q.faults /\ w.gone = q.gone
      /\ Len(w.sent) = Len(q.sent) + Taken(q, bs)
      /\ (\A i \in 1..Len(bs) : bs[i] = Len(q.sent) + i)
           /\ (\A i \in 1..Len(q.sent) : q.sent[i] = i)
         => \A i \in 1..Len(w.sent) : w.sent[i] = i
  BY <1>2, WrittenOK
<1> HIDE DEF w
<1>4. f \in SUBSET Faults /\ (f = {} => q.bend = 0 /\ q.faults = {})
  BY <1>3, Components DEF Faults
<1> HIDE DEF f
<1>5. /\ d \in Connection /\ Rest(d) = Rest(w) /\ d.sent = w.sent /\ d.faults = f
      /\ d.mem = w.mem /\ d.bstart = w.bstart /\ d.bend = w.bend /\ d.gone = w.gone
      /\ d.status = w.status /\ d.made = w.made
  BY <1>3, <1>4 DEF Connection, Rest
<1> HIDE DEF d
<1>6. SentOK(d)
  BY <1>2, <1>3, <1>4, <1>5 DEF SentOK, Flawless
<1>7. q.bend = 0 => q.bstart = 0
  BY <1>2, Components
<1> QED
  BY <1>1, <1>3, <1>4, <1>5, <1>6, <1>7

\* A write from the file.
LEMMA ChunkOK ==
  ASSUME NEW q, Sound(q), Whole(q), q.status \in {"WRITE", "IOSHUFFLE"}, q.parts # <<>>,
         NEW o \in SendChunk(q)
  PROVE  OutcomeOK(o)
<1> DEFINE h  == Head(q.parts)
           bs == Fresh(q, h)
           k  == Taken(q, bs)
           d  == Direct(q, bs)
           w  == [d EXCEPT !.made = @ + k, !.parts[1] = @ - k]
<1>1. /\ q \in Connection /\ q.bend \in Nat /\ q.bstart \in Nat /\ q.made \in Nat
      /\ q.bstart <= q.bend /\ q.parts \in Seq(Nat) /\ Len(q.sent) \in Nat
      /\ q.hline <= q.hend /\ q.hend <= BufferSize + 1 /\ q.bend <= BufferSize
  BY Components DEF Sound, Typed
<1>2. \/ o = Died(q) \/ o = Blocked(q)
      \/ ~q.gone /\ (o \in complete_response(w) \/ o = MoreToDo(w))
  BY DEF SendChunk
<1>3. CASE o = Died(q)
  BY <1>3, DiedOK DEF Sound
<1>4. CASE o = Blocked(q)
  BY <1>4, GoesOn, MoreOK
<1>5. CASE ~q.gone /\ (o \in complete_response(w) \/ o = MoreToDo(w))
  <2>1. h \in Nat /\ h = q.parts[1] /\ 1 \in 1..Len(q.parts)
    BY <1>1
  <2> HIDE DEF h
  <2>2. bs \in Seq(Nat) /\ Len(bs) = h /\ \A i \in 1..h : bs[i] = q.made + i
    BY <1>1, <2>1 DEF Fresh
  <2> HIDE DEF bs
  <2>3. k \in 0..h
    BY <1>1, <2>2, TakenOK
  <2>4. Flawless(q) /\ q.bend = 0 => q.made = Len(q.sent)
    BY <1>1 DEF Whole, Passed
  <2>5. /\ d \in Connection /\ Rest(d) = Rest(q) /\ SentOK(d)
        /\ d.mem = q.mem /\ d.bstart = q.bstart /\ d.bend = q.bend /\ d.gone = q.gone
        /\ d.status = q.status /\ d.made = q.made
        /\ d.faults = {} => q.faults = {} /\ q.bend = 0 /\ q.bstart = 0
        /\ Len(d.sent) = Len(q.sent) + k
    BY <1>5, <2>2, <2>4, DirectOK
  <2> HIDE DEF d, k
  <2> DEFINE ps == [q.parts EXCEPT ![1] = h - k]
             n  == q.made + k
  <2>6. ps \in Seq(Nat) /\ ps # <<>>
    BY <1>1, <2>1, <2>3, ExceptSeq
  <2>7. w = [d EXCEPT !.made = n, !.parts = ps]
    <3>1. d.parts = q.parts /\ d.made = q.made
      BY <2>5, RestParts
    <3>2. w = [d EXCEPT !.made = d.made + k, !.parts = [d.parts EXCEPT ![1] = d.parts[1] - k]]
      BY <2>5 DEF Connection
    <3> QED
      BY <2>1, <3>1, <3>2, Zenon
  <2>8. n \in Nat /\ n = q.made + k
    BY <1>1, <2>1, <2>3
  <2> HIDE DEF ps, n
  <2>9. /\ w \in Connection /\ Stream(w) = Stream(d) /\ w.made = n /\ w.parts = ps
        /\ w.status = d.status /\ w.hline = d.hline /\ w.hend = d.hend
    BY <2>5, <2>6, <2>7, <2>8 DEF Connection, Stream
  <2> HIDE DEF w
  <2>10. Sound(w)
    <3>1. Flawless(d) => Follows(d)
      BY <2>5, NoRun DEF Flawless, Follows
    <3> QED
      BY <1>1, <2>5, <2>9, <3>1, StreamParts, RestParts DEF Sound, Typed
  <2>11. Whole(w)
    <3>1. ASSUME Flawless(w) PROVE w.made = Passed(w)
      <4>1. Flawless(q) /\ q.bend = 0 /\ q.bstart = 0
        BY <1>5, <2>5, <2>9, <3>1, StreamParts DEF Flawless
      <4>2. Passed(w) = Len(q.sent) + k + (q.bend - q.bstart)
        BY <2>5, <2>9, StreamParts DEF Passed
      <4> QED
        BY <1>1, <2>1, <2>3, <2>4, <2>8, <2>9, <4>1, <4>2
    <3> QED
      BY <3>1 DEF Whole
  <2>12. Going(w) /\ w.parts # <<>> /\ w.status \in {"WRITE", "IOSHUFFLE", "DEAD"}
    BY <2>5, <2>6, <2>9, <2>10, <2>11, GoesOn
  <2> QED
    BY <1>5, <2>10, <2>11, <2>12, MoreOK, ResponseOK
<1> QED
  BY <1>2, <1>3, <1>4, <1>5


LEMMA FileOK ==
  ASSUME NEW q, Going(q), q.status \in {"WRITE", "IOSHUFFLE"},
         NEW o \in process_get(q) \cup io_shuffle_sendfile(q)
  PROVE  OutcomeOK(o)
<1>1. Sound(q) /\ Whole(q) /\ q.parts # <<>> /\ Typed(q)
  BY DEF Going, InPipe, BeforeTimedOut
<1>2. o \in complete_response(q) \/ o = Died(q) \/ o = Blocked(q) \/ o \in SendChunk(q)
  BY DEF process_get, io_shuffle_sendfile
<1> QED
  BY <1>1, <1>2, ResponseOK, DiedOK, MoreOK, ChunkOK

-----------------------------------------------------------------------------
\* A program's output that is passed on, once its header is done with.
LEMMA PassesOn ==
  ASSUME NEW q, Passing(q), q.cgi # "PARSE" PROVE Going(q)
  BY DEF Going, Passing, Sound, InPipe

\* With nothing left of it everything was passed on.
LEMMA PipeEmpty ==
  ASSUME NEW q, Passing(q), q.hline = q.hend PROVE Whole(q)
<1>1. q \in Connection
  BY DEF Passing, Sound, Typed
<1>2. q.bend \in Nat /\ q.bstart \in Nat /\ Len(q.sent) \in Nat /\ q.hend \in Nat
  BY <1>1, Components
<1> QED
  BY <1>2 DEF Passing, Continues, Whole, Ahead, Passed

\* and everything was passed on when the window is empty
LEMMA EmptyPasses ==
  ASSUME NEW q, Sound(q), Whole(q), InPipe(q), q.hline = q.hend PROVE Passing(q)
<1>1. q \in Connection
  BY DEF Sound, Typed
<1>2. q.bend \in Nat /\ q.bstart \in Nat /\ Len(q.sent) \in Nat /\ q.hend \in Nat
  BY <1>1, Components
<1> QED
  BY <1>2, NoRun DEF Passing, Continues, Whole, Ahead, Passed

LEMMA DrainedOK ==
  ASSUME NEW q, Passing(q), q.hline = q.hend
  PROVE  Passing(PipeDrained(q)) /\ PipeDrained(q).cgi = q.cgi
<1> DEFINE p == PipeDrained(q)
<1>1. q \in Connection /\ Sound(q)
  BY DEF Passing, Sound, Typed
<1>2. /\ p \in Connection /\ Stream(p) = Stream(q) /\ p.made = q.made /\ p.cgi = q.cgi
      /\ p.status = "PIPE_READ" /\ p.hline = 0 /\ p.hend = 0
  BY <1>1 DEF PipeDrained, Connection, Status, Stream
<1> HIDE DEF p
<1>3. Sound(p) /\ Whole(p)
  BY <1>1, <1>2, Sizes, SoundKept, WholeKept, PipeEmpty
<1> QED
  BY <1>2, <1>3, EmptyPasses DEF InPipe, p

\* The pipe's window as write_from_pipe writes it.
LEMMA WindowBytes ==
  ASSUME NEW q, q.mem \in [0..BufferSize -> Nat], q.hline \in Nat, q.hend \in Nat,
         Len(q.sent) \in Nat, q.hline <= q.hend, q.hend <= BufferSize + 1
  PROVE  /\ Bytes(q.mem, q.hline, q.hend) \in Seq(Nat)
         /\ Len(Bytes(q.mem, q.hline, q.hend)) = q.hend - q.hline
         /\ Run(q.mem, q.hline, q.hend, Len(q.sent)) =>
              \A i \in 1..(q.hend - q.hline) :
                Bytes(q.mem, q.hline, q.hend)[i] = Len(q.sent) + i
<1>1. /\ Bytes(q.mem, q.hline, q.hend) \in Seq(Nat)
      /\ Len(Bytes(q.mem, q.hline, q.hend)) = q.hend - q.hline
  BY BytesOK
<1>2. \A b \in Nat : Run(q.mem, q.hline, q.hend, b) =>
        \A i \in 1..(q.hend - q.hline) : Bytes(q.mem, q.hline, q.hend)[i] = b + i
  BY BytesOK
<1> QED
  BY <1>1, <1>2

LEMMA PipeWriteOK ==
  ASSUME NEW q, Passing(q), q.cgi # "PARSE", NEW o \in write_from_pipe(q)
  PROVE  OutcomeOK(o)
<1> DEFINE bs == Bytes(q.mem, q.hline, q.hend)
           k  == Taken(q, bs)
           d  == Direct(q, bs)
           w  == [d EXCEPT !.hline = @ + k]
<1>1. Sound(q) /\ Typed(q) /\ q \in Connection /\ q.hline <= q.hend /\ q.hend <= BufferSize + 1
      /\ q.bend <= BufferSize /\ InPipe(q) /\ q.bstart <= q.bend
  BY DEF Passing, Sound, Typed
<1>2. /\ q.mem \in [0..BufferSize -> Nat] /\ q.hline \in Nat /\ q.hend \in Nat
      /\ q.bend \in Nat /\ q.bstart \in Nat /\ Len(q.sent) \in Nat /\ q.made \in Nat
  BY <1>1, Components
<1>3. \/ q.hline = q.hend /\ (o = Complete(q) \/ o = MoreToDo(PipeDrained(q)))
      \/ o = Died(q) \/ o = Blocked(q)
      \/ ~q.gone /\ o = MoreToDo(IF w.hline = w.hend THEN PipeDrained(w) ELSE w)
  BY DEF write_from_pipe
<1>4. CASE q.hline = q.hend /\ (o = Complete(q) \/ o = MoreToDo(PipeDrained(q)))
  BY <1>1, <1>4, PipeEmpty, CompleteOK, DrainedOK, PassesOn, MoreOK
<1>5. CASE o = Died(q) \/ o = Blocked(q)
  BY <1>1, <1>5, DiedOK, PassesOn, MoreOK
<1>6. CASE ~q.gone /\ o = MoreToDo(IF w.hline = w.hend THEN PipeDrained(w) ELSE w)
  <2>1. /\ bs \in Seq(Nat) /\ Len(bs) = q.hend - q.hline
        /\ Run(q.mem, q.hline, q.hend, Len(q.sent)) =>
             \A i \in 1..(q.hend - q.hline) : bs[i] = Len(q.sent) + i
    BY <1>1, <1>2, WindowBytes
  <2> HIDE DEF bs
  <2>2. k \in Nat /\ k <= q.hend - q.hline
    <3>1. k \in 0..Len(bs)
      BY <1>1, <2>1, TakenOK
    <3> QED
      BY <1>2, <2>1, <3>1
  <2>3. Flawless(q) => Run(q.mem, q.hline, q.hend, Ahead(q, 0))
                       /\ q.made = Ahead(q, 0) + (q.hend - q.hline)
    BY DEF Passing, Continues
  <2>4. q.bend = 0 => Ahead(q, 0) = Len(q.sent)
    BY <1>1, <1>2 DEF Ahead, Passed
  <2>5. Flawless(q) /\ q.bend = 0 => \A i \in 1..Len(bs) : bs[i] = Len(q.sent) + i
    BY <1>2, <2>1, <2>3, <2>4
  <2>6. /\ d \in Connection /\ Rest(d) = Rest(q) /\ SentOK(d)
        /\ d.mem = q.mem /\ d.bstart = q.bstart /\ d.bend = q.bend /\ d.gone = q.gone
        /\ d.status = q.status /\ d.made = q.made
        /\ d.faults = {} => q.faults = {} /\ q.bend = 0 /\ q.bstart = 0
        /\ Len(d.sent) = Len(q.sent) + k
    BY <1>1, <1>6, <2>1, <2>5, DirectOK
  <2> HIDE DEF d, k
  <2> DEFINE n == q.hline + k
  <2>7. n \in Nat /\ n = q.hline + k /\ n <= q.hend
    BY <1>2, <2>2
  <2>8. w = [d EXCEPT !.hline = n]
    BY <2>6, RestParts
  <2> HIDE DEF n
  <2>9. /\ w \in Connection /\ Stream(w) = Stream(d) /\ w.made = d.made /\ w.cgi = d.cgi
        /\ w.status = d.status /\ w.hline = n /\ w.hend = d.hend
    BY <2>6, <2>7, <2>8 DEF Connection, Stream
  <2> HIDE DEF w
  <2>10. Sound(w)
    <3>1. Flawless(d) => Follows(d)
      BY <2>6, NoRun DEF Flawless, Follows
    <3> QED
      BY <1>1, <2>6, <2>7, <2>9, <3>1, StreamParts, RestParts DEF Sound, Typed
  <2>11. Continues(w, 0)
    <3>1. ASSUME Flawless(w)
          PROVE  /\ Run(w.mem, w.hline, w.hend, Ahead(w, 0))
                 /\ w.made = Ahead(w, 0) + (w.hend - w.hline)
      <4>1. Flawless(q) /\ q.bend = 0 /\ q.bstart = 0
        BY <1>6, <2>6, <2>9, <3>1, StreamParts DEF Flawless
      <4>2. Ahead(q, 0) = Len(q.sent)
        BY <2>4, <4>1
      <4>3. Ahead(w, 0) = Len(q.sent) + k
        BY <1>2, <2>2, <2>6, <2>9, <4>1, StreamParts DEF Ahead, Passed
      <4>4. Run(q.mem, n, q.hend, Ahead(w, 0))
        <5>1. Run(q.mem, q.hline, q.hend, Len(q.sent))
          BY <2>3, <4>1, <4>2
        <5> QED
          BY <1>2, <2>2, <2>7, <4>3, <5>1, ShorterRun
      <4>5. w.mem = q.mem /\ w.hline = n /\ w.hend = q.hend /\ w.made = q.made
        BY <2>6, <2>9, StreamParts, RestParts
      <4>6. q.made = Len(q.sent) + (q.hend - q.hline)
        BY <2>3, <4>1, <4>2
      <4>7. w.made = Ahead(w, 0) + (w.hend - w.hline)
        <5>1. w.hend - w.hline = q.hend - (q.hline + k)
          BY <2>7, <4>5
        <5>2. w.made = Len(q.sent) + (q.hend - q.hline)
          BY <4>5, <4>6
        <5> QED
          BY <1>2, <2>2, <4>3, <5>1, <5>2
      <4> QED
        BY <4>4, <4>5, <4>7
    <3> QED
      BY <3>1 DEF Continues
  <2>12. Passing(w) /\ w.cgi # "PARSE"
    BY <1>1, <2>6, <2>9, <2>10, <2>11, RestParts DEF Passing, InPipe
  <2> QED
    BY <1>6, <2>12, DrainedOK, PassesOn, MoreOK
<1> QED
  BY <1>3, <1>4, <1>5, <1>6


-----------------------------------------------------------------------------
\* The server's header at the head of the buffer, and the program's output,
\* which lay behind it from offset at on, moved up to it.
Moved(st, at, h, n) ==
  [i \in DOMAIN st |-> IF i \in h..(h + n - 1) THEN st[at + (i - h)] ELSE st[i]]

LEMMA MovedOK ==
  ASSUME NEW mem \in [0..BufferSize -> Nat], NEW h \in Nat, NEW at \in Nat, NEW n \in Nat,
         NEW base \in Nat, NEW first \in Nat, first = base + 1, NEW c \in Nat, c = base + h,
         NEW to \in Nat, at + n <= to, h <= at, at + n <= BufferSize + 1, h + n <= BufferSize,
         NEW end \in Nat, end = h + n
  PROVE  /\ Moved(Stored(mem, 0, h, first), at, h, n) \in [0..BufferSize -> Nat]
         /\ Run(mem, at, to, c) => Run(Moved(Stored(mem, 0, h, first), at, h, n), 0, end, base)
<1> DEFINE st == Stored(mem, 0, h, first)
           mv == Moved(st, at, h, n)
<1>1. /\ st \in [0..BufferSize -> Nat]
      /\ \A i \in 0..BufferSize :
           st[i] = IF i \in 0..(0 + h - 1) THEN first + (i - 0) ELSE mem[i]
  BY Sizes DEF Stored
<1> HIDE DEF st
<1>2. DOMAIN st = 0..BufferSize
  BY <1>1
<1>3. \A i \in h..(h + n - 1) : at + (i - h) \in 0..BufferSize
  BY Sizes
<1>4. mv \in [0..BufferSize -> Nat]
  BY <1>1, <1>2, <1>3 DEF Moved
<1>5. \A i \in 0..BufferSize :
        mv[i] = IF i \in h..(h + n - 1) THEN st[at + (i - h)] ELSE st[i]
  BY <1>2 DEF Moved
<1> HIDE DEF mv
<1>6. ASSUME Run(mem, at, to, c), NEW i \in 0..(end - 1)
      PROVE  mv[i] = base + 1 + (i - 0)
  <2>1. i \in 0..BufferSize
    BY <1>6, Sizes
  <2>2. CASE i < h
    <3>1. mv[i] = st[i]
      BY <1>5, <2>1, <2>2
    <3> QED
      BY <1>1, <2>1, <2>2, <3>1
  <2>3. CASE i >= h
    <3>1. i \in h..(h + n - 1)
      BY <1>6, <2>3
    <3>2. PICK j \in 0..BufferSize : j = at + (i - h)
      BY <1>3, <3>1
    <3>3. mv[i] = st[j]
      BY <1>5, <2>1, <3>1, <3>2
    <3>4. st[j] = mem[j]
      <4>1. j \notin 0..(0 + h - 1)
        BY <3>1, <3>2
      <4> QED
        BY <1>1, <4>1
    <3>5. mem[j] = c + 1 + (j - at)
      <4>1. j \in at..(to - 1)
        BY <3>1, <3>2
      <4> QED
        BY <1>6, <4>1 DEF Run
    <3> QED
      BY <3>1, <3>2, <3>3, <3>4, <3>5
  <2> QED
    BY <1>6, <2>2, <2>3
<1>7. Run(mem, at, to, c) => Run(mv, 0, end, base)
  BY <1>6 DEF Run
<1> QED
  BY <1>4, <1>7 DEF mv, st

LEMMA MergedOK ==
  ASSUME NEW q, Parsing(q), q.kind = "cgi", NEW n \in Nat, n <= q.hend - q.hline,
         HeaderSize + n <= BufferSize
  PROVE  LET m == Merged(q, n)
         IN  /\ Sound(m) /\ Whole(m) /\ m.hline = m.hend /\ m.status = q.status
             /\ m.cgi = q.cgi /\ m.head = q.head
<1>1. /\ q \in Connection /\ q.bstart = 0 /\ q.bend = 0 /\ q.hline = Half /\ SentOK(q)
      /\ q.hline <= q.hend /\ q.hend <= BufferSize + 1
      /\ Flawless(q) => Len(q.sent) = q.base
  BY DEF Parsing, Sound, Typed
<1>2. /\ q.mem \in [0..BufferSize -> Nat] /\ q.base \in Nat /\ q.hend \in Nat
      /\ q.made \in Nat /\ Len(q.sent) \in Nat
  BY <1>1, Components
<1> DEFINE first == q.base + 1
           st == Stored(q.mem, 0, HeaderSize, first)
           e  == HeaderSize + n
           mv == Moved(st, Half, HeaderSize, n)
           mm == q.base + HeaderSize + n
           m  == [q EXCEPT !.mem = mv, !.bend = e, !.hline = e, !.hend = e, !.made = mm]
           c  == q.base + HeaderSize
<1>3. e \in Nat /\ e = HeaderSize + n /\ e <= BufferSize /\ e <= BufferSize + 1
      /\ mm \in Nat /\ mm = q.base + e
      /\ first \in Nat /\ first = q.base + 1 /\ c \in Nat /\ c = q.base + HeaderSize
  BY <1>2, Sizes
<1>4. Half + n <= q.hend /\ Half + n <= BufferSize + 1
  BY <1>1, <1>2, Sizes
<1>5. Merged(q, n) = m
  <2> DEFINE ok == [q EXCEPT !.mem = st, !.bend = HeaderSize]
  <2>1. SendOk(q) = ok
    <3>1. 0 + HeaderSize = HeaderSize
      BY Sizes
    <3> QED
      BY <1>1, <3>1 DEF SendOk, Connection
  <2>2. ok.mem = st /\ ok.bend = HeaderSize /\ DOMAIN ok.mem = DOMAIN st
    BY <1>1 DEF Connection
  <2> HIDE DEF st, mv
  <2>3. Merged(q, n) = [ok EXCEPT !.mem = mv, !.bend = HeaderSize + n,
                          !.hline = HeaderSize + n, !.hend = HeaderSize + n,
                          !.made = q.base + HeaderSize + n]
    BY <1>1, <2>1, <2>2 DEF Merged, Moved, mv
  <2> QED
    BY <1>1, <2>3 DEF Connection
<1> HIDE DEF first, c, e
<1>6. /\ mv \in [0..BufferSize -> Nat]
      /\ Run(q.mem, Half, q.hend, c) => Run(mv, 0, e, q.base)
  BY <1>2, <1>3, <1>4, Sizes, MovedOK
<1> HIDE DEF mv, mm
<1>7. /\ m \in Connection /\ m.mem = mv /\ m.bstart = 0 /\ m.bend = e /\ m.hline = e
      /\ m.hend = e /\ m.made = mm /\ m.status = q.status /\ m.cgi = q.cgi
      /\ m.head = q.head /\ m.sent = q.sent /\ m.faults = q.faults /\ m.gone = q.gone
  BY <1>1, <1>3, <1>6 DEF Connection
<1> HIDE DEF m
<1>8. ASSUME Flawless(m) PROVE Follows(m) /\ m.made = Passed(m)
  <2>1. Flawless(q) /\ Len(q.sent) = q.base
    BY <1>1, <1>7, <1>8 DEF Flawless
  <2>2. Ahead(q, HeaderSize) = c
    BY <1>1, <1>2, <1>3, <2>1, Sizes DEF Ahead, Passed
  <2>3. Run(q.mem, Half, q.hend, c)
    BY <1>1, <2>1, <2>2 DEF Parsing, Continues, HeaderRoom
  <2>4. Follows(m)
    BY <1>6, <1>7, <2>1, <2>3 DEF Follows
  <2>5. m.made = Passed(m)
    BY <1>2, <1>3, <1>7, <2>1 DEF Passed
  <2> QED
    BY <2>4, <2>5
<1>9. Sound(m) /\ Whole(m)
  <2>1. SentOK(m)
    BY <1>1, <1>7 DEF SentOK
  <2> QED
    BY <1>3, <1>7, <1>8, <2>1 DEF Sound, Typed, Whole
<1> QED
  BY <1>5, <1>7, <1>9

\* What is in the pipe stays as it is when only status, cgi or the program
\* change.
LEMMA PipeKept ==
  ASSUME NEW q, NEW p \in Connection, Stream(p) = Stream(q), p.made = q.made,
         p.kind = q.kind, p.base = q.base, p.hline = q.hline, p.hend = q.hend, InPipe(p)
  PROVE  (Parsing(q) => Parsing(p)) /\ (Passing(q) => Passing(p))
<1>1. Sound(q) => Sound(p)
  <2>1. Sound(q) => q.hline <= q.hend /\ q.hend <= BufferSize + 1
    BY DEF Sound, Typed
  <2> QED
    BY <2>1, SoundKept
<1>2. /\ p.mem = q.mem /\ p.bstart = q.bstart /\ p.bend = q.bend
      /\ p.sent = q.sent /\ Passed(p) = Passed(q) /\ (Flawless(p) <=> Flawless(q))
  BY StreamParts
<1>3. \A gap : Continues(q, gap) => Continues(p, gap)
  BY <1>2 DEF Continues, Ahead
<1> QED
  BY <1>1, <1>2, <1>3 DEF Parsing, Passing, HeaderRoom

LEMMA CgiOK ==
  ASSUME NEW q, Parsing(q), NEW c \in {"PARSE", "BUFFER", "DONE"}
  PROVE  LET p == [q EXCEPT !.cgi = c]
         IN  /\ Parsing(p) /\ p.cgi = c /\ p.kind = q.kind /\ p.hline = q.hline
             /\ p.hend = q.hend /\ p.status = q.status
<1> DEFINE p == [q EXCEPT !.cgi = c]
<1>1. q \in Connection /\ InPipe(q)
  BY DEF Parsing, Sound, Typed
<1>2. /\ p \in Connection /\ Stream(p) = Stream(q) /\ p.made = q.made /\ p.cgi = c
      /\ p.kind = q.kind /\ p.base = q.base /\ p.hline = q.hline /\ p.hend = q.hend
      /\ p.status = q.status
  BY <1>1 DEF Connection, Stream
<1> HIDE DEF p
<1> QED
  BY <1>1, <1>2, PipeKept DEF p, InPipe

\* An error page instead of a program's output.
LEMMA InsteadOK ==
  ASSUME NEW q, Parsing(q), NEW p \in send_r(q)
  PROVE  Sound(p) /\ Whole(p)
<1>1. Sound(q) /\ q \in Connection /\ q.bstart = 0 /\ q.bend = 0
      /\ (Flawless(q) => Len(q.sent) = q.base)
  BY DEF Parsing, Sound, Typed
<1>2. Len(q.sent) \in Nat
  BY <1>1, Components
<1>3. Flawless(q) => q.base = Passed(q)
  BY <1>1, <1>2 DEF Passed
<1> QED
  BY <1>1, <1>3, SendOK

LEMMA MergeOK ==
  ASSUME NEW q, Parsing(q), q.kind = "cgi", q.cgi # "PARSE", NEW n \in Nat,
         n <= q.hend - q.hline, NEW o \in MergeOutput(q, n)
  PROVE  OutcomeOK(o)
<1> DEFINE e == [q EXCEPT !.bstart = 0, !.bend = 0]
           m == Merged(q, n)
<1>1. Sound(q) /\ InPipe(q) /\ q \in Connection /\ q.bstart = 0 /\ q.bend = 0
  BY DEF Parsing, Sound, Typed
<1>2. e = q
  BY <1>1 DEF Connection
<1>3. \/ \E p \in send_r(q) : o = Complete(p)
      \/ /\ ~(q.bend + HeaderSize + n > BufferSize)
         /\ \E p \in Flushed(m) : o = Outcome(IF q.head THEN 0 ELSE 1, p)
  <2>1. \/ \E p \in send_r(e) : o = Complete(p)
        \/ /\ ~(q.bend + HeaderSize + n > BufferSize)
           /\ \E p \in Flushed(m) : o = Outcome(IF q.head THEN 0 ELSE 1, p)
    BY DEF MergeOutput
  <2> QED
    BY <1>2, <2>1
<1>4. ASSUME NEW p \in send_r(q), o = Complete(p) PROVE OutcomeOK(o)
  BY <1>4, InsteadOK, CompleteOK
<1>5. ASSUME ~(q.bend + HeaderSize + n > BufferSize), NEW p \in Flushed(m),
             o = Outcome(IF q.head THEN 0 ELSE 1, p)
      PROVE  OutcomeOK(o)
  <2>1. HeaderSize + n <= BufferSize
    BY <1>1, <1>5, Sizes
  <2>2. Sound(m) /\ Whole(m) /\ m.hline = m.hend /\ m.status = q.status /\ m.cgi = q.cgi
    BY <2>1, MergedOK
  <2> HIDE DEF m
  <2>3. Sound(p) /\ Whole(p) /\ Rest(p) = Rest(m) /\ p.status \in {q.status, "DEAD"}
    BY <2>2, FlushedOK
  <2>4. p.hline = p.hend /\ p.cgi # "PARSE"
    BY <2>2, <2>3, RestParts
  <2>5. Going(p)
    <3>1. CASE p.status = "DEAD"
      BY <2>3, <3>1, GoesOn
    <3>2. CASE p.status = q.status
      <4>1. InPipe(p)
        BY <1>1, <3>2 DEF InPipe
      <4> QED
        BY <2>3, <2>4, <4>1, EmptyPasses, PassesOn
    <3> QED
      BY <2>3, <3>1, <3>2
  <2>6. o = Complete(p) \/ o = MoreToDo(p)
    BY <1>5 DEF Complete, MoreToDo
  <2> QED
    BY <2>3, <2>5, <2>6, CompleteOK, MoreOK
<1> QED
  BY <1>3, <1>4, <1>5

LEMMA HeaderOK ==
  ASSUME NEW q0, Parsing(q0), NEW found \in BOOLEAN, NEW o \in process_cgi_header(q0, found)
  PROVE  OutcomeOK(o)
<1> DEFINE q == IF q0.cgi = "DONE" THEN q0 ELSE [q0 EXCEPT !.cgi = "BUFFER"]
           n == q.hend - q.hline
           r == [q EXCEPT !.cgi = "DONE"]
<1>1. Parsing(q) /\ q.cgi # "PARSE"
  <2>1. CASE q0.cgi = "DONE"
    BY <2>1
  <2>2. CASE q0.cgi # "DONE"
    BY <2>2, CgiOK
  <2> QED
    BY <2>1, <2>2
<1>2. \/ \E p \in send_r(q) : o = Complete(p)
      \/ q.kind = "raw" /\ o = MoreToDo(q)
      \/ \E p \in send_r(q) : o = MoreToDo([p EXCEPT !.status = "DONE"])
      \/ q.kind # "raw" /\ (\E k \in 0..n : o \in MergeOutput(r, k))
      \/ q.kind # "raw" /\ o \in MergeOutput(q, n)
  BY DEF process_cgi_header
<1> HIDE DEF q
<1>3. q \in Connection /\ q.kind \in {"cgi", "raw"} /\ q.hline <= q.hend /\ Sound(q) /\ InPipe(q)
  BY <1>1 DEF Parsing, Sound, Typed
<1>4. n \in Nat /\ q.hline \in Nat /\ q.hend \in Nat
  BY <1>3, Components
<1>5. Parsing(r) /\ r.kind = q.kind /\ r.cgi = "DONE" /\ r.hend - r.hline = n
  BY <1>1, CgiOK
<1> HIDE DEF r, n
<1>6. ASSUME NEW p \in send_r(q), o = Complete(p) PROVE OutcomeOK(o)
  BY <1>1, <1>6, InsteadOK, CompleteOK
<1>7. CASE q.kind = "raw" /\ o = MoreToDo(q)
  <2>1. HeaderRoom(q) = 0
    BY <1>7 DEF HeaderRoom
  <2>2. Passing(q)
    BY <1>1, <1>3, <2>1 DEF Parsing, Passing
  <2> QED
    BY <1>1, <1>7, <2>2, PassesOn, MoreOK
<1>8. ASSUME NEW p \in send_r(q), o = MoreToDo([p EXCEPT !.status = "DONE"])
      PROVE  OutcomeOK(o)
  <2> DEFINE d == [p EXCEPT !.status = "DONE"]
  <2>1. Sound(p) /\ Whole(p) /\ "DONE" \in Status
    BY <1>1, InsteadOK DEF Status
  <2>2. Sound(d) /\ Whole(d) /\ d.status = "DONE"
    BY <2>1, StatusOK
  <2> HIDE DEF d
  <2>3. Going(d)
    BY <2>2, GoesOn
  <2> QED
    BY <1>8, <2>3, MoreOK DEF d
<1>9. ASSUME q.kind # "raw", NEW k \in 0..n, o \in MergeOutput(r, k) PROVE OutcomeOK(o)
  <2>1. k \in Nat /\ k <= r.hend - r.hline
    BY <1>4, <1>5
  <2> QED
    BY <1>3, <1>5, <1>9, <2>1, MergeOK
<1>10. CASE q.kind # "raw" /\ o \in MergeOutput(q, n)
  <2>1. n <= q.hend - q.hline
    BY <1>4 DEF n
  <2> QED
    BY <1>1, <1>3, <1>4, <1>10, <2>1, MergeOK
<1> QED
  BY <1>2, <1>6, <1>7, <1>8, <1>9, <1>10

-----------------------------------------------------------------------------
\* read_from_pipe adds output behind the window; when that runs into bytes a
\* flush has left, it is recorded as a fault.
LEMMA CollectedOK ==
  ASSUME NEW q, Sound(q), NEW n \in Nat, n <= q.prog, q.hend + n <= BufferSize + 1,
         NEW gap \in Nat, Continues(q, gap)
  PROVE  LET p == Collected(q, n)
         IN  /\ Sound(p) /\ Continues(p, gap)
             /\ p.status = q.status /\ p.cgi = q.cgi /\ p.kind = q.kind /\ p.base = q.base
             /\ p.bstart = q.bstart /\ p.bend = q.bend /\ p.hline = q.hline
             /\ p.sent = q.sent /\ (Flawless(p) => Flawless(q))
<1> DEFINE first == q.made + 1
           end   == q.hend + n
           total  == q.made + n
           rest  == q.prog - n
           stored   == Stored(q.mem, q.hend, n, first)
           mem   == Terminated(stored, end)
           over  == (q.hend..(q.hend + n)) \cap (q.bstart..(q.bend - 1))
           f     == IF over = {} THEN q.faults ELSE q.faults \cup {"overtaken"}
           p     == [q EXCEPT !.mem = mem, !.hend = end, !.made = total, !.prog = rest,
                              !.faults = f]
<1>1. Collected(q, n) = p
  BY DEF Collected
<1>2. /\ q \in Connection /\ q.bstart <= q.bend /\ q.bend <= BufferSize /\ SentOK(q)
      /\ q.hline <= q.hend /\ q.hend <= BufferSize + 1
  BY DEF Sound, Typed
<1>3. /\ q.mem \in [0..BufferSize -> Nat] /\ q.bend \in Nat /\ q.bstart \in Nat
      /\ Len(q.sent) \in Nat /\ q.hline \in Nat /\ q.hend \in Nat /\ q.made \in Nat
      /\ q.prog \in Nat /\ q.faults \in SUBSET Faults
  BY <1>2, Components
<1>13. /\ q.bend \in Nat /\ q.bstart \in Nat /\ q.hline \in Nat /\ q.hend \in Nat
       /\ q.made \in Nat /\ q.prog \in Nat /\ Len(q.sent) \in Nat
  BY <1>3
<1>14. q.hline <= q.hend /\ q.hend <= BufferSize + 1
  BY <1>2
<1>4. /\ first \in Nat /\ first = q.made + 1 /\ end \in Nat /\ end = q.hend + n
      /\ total \in Nat /\ total = q.made + n
  BY <1>13
<1>15. rest \in Nat
  BY <1>13
<1>16. end <= BufferSize + 1 /\ q.hline <= end
  BY <1>13, <1>14, Sizes
<1> HIDE DEF first, end, total, rest
<1>17. stored \in [0..BufferSize -> Nat]
  BY <1>3, <1>4, StoredOK
<1>5. mem \in [0..BufferSize -> Nat]
  BY <1>4, <1>17, TerminatedOK
<1>6. f \in SUBSET Faults /\ (f = {} => q.faults = {} /\ over = {})
  BY <1>3 DEF Faults
<1> HIDE DEF stored, mem, f, over
<1>7. /\ p \in Connection /\ p.mem = mem /\ p.hend = end /\ p.made = total /\ p.faults = f
      /\ p.status = q.status /\ p.cgi = q.cgi /\ p.kind = q.kind /\ p.base = q.base
      /\ p.bstart = q.bstart /\ p.bend = q.bend /\ p.hline = q.hline
      /\ p.sent = q.sent /\ p.gone = q.gone
  BY <1>2, <1>4, <1>5, <1>6, <1>15 DEF Connection
<1> HIDE DEF p
<1>8. Flawless(p) => Flawless(q) /\ over = {}
  BY <1>6, <1>7 DEF Flawless
<1>9. ASSUME Flawless(p) PROVE Follows(p)
  <2>1. Run(q.mem, q.bstart, q.bend, Len(q.sent))
    BY <1>8, <1>9 DEF Sound, Follows
  <2>5. (q.hend..(q.hend + n)) \cap (q.bstart..(q.bend - 1)) = {}
    BY <1>8, <1>9 DEF over
  <2>2. /\ (q.hend..(q.hend + n - 1)) \cap (q.bstart..(q.bend - 1)) = {}
        /\ end \notin q.bstart..(q.bend - 1)
    <3>1. end \in q.hend..(q.hend + n)
      BY <1>4, <1>13
    <3>2. q.hend..(q.hend + n - 1) \subseteq q.hend..(q.hend + n)
      BY <1>13
    <3> QED
      BY <2>5, <3>1, <3>2
  <2>3. q.bend <= BufferSize + 1
    BY <1>2, <1>3, Sizes
  <2>4. Run(stored, q.bstart, q.bend, Len(q.sent))
    BY <1>3, <1>4, <2>1, <2>2, <2>3, OtherRun DEF stored
  <2>6. Run(mem, q.bstart, q.bend, Len(q.sent))
    BY <1>3, <1>4, <1>17, <2>2, <2>3, <2>4, TerminatedOK DEF mem
  <2> QED
    BY <1>7, <2>6 DEF Follows
<1>10. Sound(p)
  <2>1. SentOK(p)
    BY <1>2, <1>6, <1>7 DEF SentOK
  <2> QED
    BY <1>2, <1>7, <1>9, <1>16, <2>1 DEF Sound, Typed
<1>11. ASSUME Flawless(p)
       PROVE  /\ Run(p.mem, p.hline, p.hend, Ahead(p, gap))
              /\ p.made = Ahead(p, gap) + (p.hend - p.hline)
  <2> DEFINE b == Ahead(q, gap)
  <2>1. b \in Nat
    BY <1>2, <1>3 DEF Ahead, Passed
  <2>2. Run(q.mem, q.hline, q.hend, b) /\ q.made = b + (q.hend - q.hline)
    BY <1>8, <1>11 DEF Continues
  <2>3. Ahead(p, gap) = b
    BY <1>7 DEF Ahead, Passed
  <2> HIDE DEF b
  <2>7. q.made = b + (q.hend - q.hline)
    BY <2>2
  <2>8. q.made \in Nat /\ q.hend \in Nat /\ q.hline \in Nat
    BY <1>3
  <2>9. first = q.made + 1
    BY <1>4
  <2>10. total = q.made + n /\ end = q.hend + n
    BY <1>4
  <2>4. first = b + 1 + (q.hend - q.hline)
    BY <2>1, <2>7, <2>8, <2>9
  <2>5. Run(stored, q.hline, end, b)
    BY <1>2, <1>3, <1>4, <2>1, <2>2, <2>4, LongerRun DEF stored
  <2>6. total = b + (end - q.hline)
    BY <2>1, <2>7, <2>8, <2>10
  <2>11. end \notin q.hline..(end - 1)
    BY <1>4
  <2>12. Run(mem, q.hline, end, b)
    BY <1>4, <1>13, <1>16, <1>17, <2>1, <2>5, <2>11, TerminatedOK DEF mem
  <2> QED
    BY <1>7, <2>3, <2>6, <2>12
<1>12. Continues(p, gap)
  BY <1>11 DEF Continues
<1> QED
  BY <1>1, <1>7, <1>8, <1>10, <1>12

LEMMA PipeDataOK ==
  ASSUME NEW q, Going(q), q.status = "PIPE_READ", NEW n \in Nat, n <= q.prog,
         q.hend + n <= BufferSize + 1, NEW o \in PipeData(Collected(q, n))
  PROVE  OutcomeOK(o)
<1> DEFINE p == Collected(q, n)
           r == [p EXCEPT !.cgi = "DONE"]
<1>1. BeforeTimedOut(q) /\ InPipe(q)
  BY DEF BeforeTimedOut, InPipe
<1>2. CASE q.cgi # "PARSE"
  <2>1. Passing(q) /\ Sound(q) /\ Continues(q, 0) /\ 0 \in Nat
    BY <1>1, <1>2 DEF Going, Passing
  <2>2. Sound(p) /\ Continues(p, 0) /\ p.status = q.status /\ p.cgi = q.cgi
    BY <2>1, CollectedOK
  <2>3. o \in write_from_pipe(p)
    BY <1>2, <2>2 DEF PipeData
  <2> HIDE DEF p
  <2>4. Passing(p)
    BY <1>1, <2>2 DEF Passing, InPipe
  <2> QED
    BY <1>2, <2>2, <2>3, <2>4, PipeWriteOK
<1>3. CASE q.cgi = "PARSE"
  <2>1. Parsing(q)
    BY <1>1, <1>3 DEF Going
  <2>2. Sound(q) /\ Continues(q, HeaderRoom(q)) /\ HeaderRoom(q) \in Nat
    BY <2>1, Sizes DEF Parsing, HeaderRoom
  <2>3. /\ Sound(p) /\ Continues(p, HeaderRoom(q))
        /\ p.status = q.status /\ p.cgi = q.cgi /\ p.kind = q.kind /\ p.base = q.base
        /\ p.bstart = q.bstart /\ p.bend = q.bend /\ p.hline = q.hline
        /\ p.sent = q.sent /\ (Flawless(p) => Flawless(q))
    BY <2>2, CollectedOK
  <2>4. o = MoreToDo(p) \/ o \in process_cgi_header(r, TRUE)
    BY <1>3, <2>3 DEF PipeData
  <2> HIDE DEF p
  <2>5. Parsing(p)
    BY <2>1, <2>3 DEF Parsing, HeaderRoom, InPipe
  <2>6. Going(p)
    BY <1>3, <2>3, <2>5 DEF Going, Sound, InPipe
  <2>7. Parsing(r)
    BY <2>5, CgiOK
  <2> HIDE DEF r
  <2> QED
    BY <2>4, <2>6, <2>7, MoreOK, HeaderOK
<1> QED
  BY <1>2, <1>3

LEMMA PipeReadOK ==
  ASSUME NEW q, Going(q), q.status = "PIPE_READ", NEW o \in read_from_pipe(q)
  PROVE  OutcomeOK(o)
<1> DEFINE b == [q EXCEPT !.cgi = "BUFFER"]
           w == [q EXCEPT !.status = "PIPE_WRITE"]
           z == Collected(q, 0)
           e == [z EXCEPT !.status = "PIPE_WRITE", !.cgi = "DONE"]
<1>1. BeforeTimedOut(q) /\ InPipe(q) /\ Typed(q) /\ q \in Connection
  BY DEF BeforeTimedOut, InPipe, Going, Typed
<1>2. \/ o = Blocked(q) \/ o = Died(q)
      \/ q.cgi = "PARSE" /\ o \in process_cgi_header(b, FALSE)
      \/ q.cgi # "PARSE" /\ o = MoreToDo(w)
      \/ q.cgi = "PARSE" /\ o \in process_cgi_header(e, FALSE)
      \/ q.cgi # "PARSE" /\ o = MoreToDo(e)
      \/ \E n \in 1..Min({q.prog, PipeRoom(q)}) : o \in PipeData(Collected(q, n))
  <2>1. z.cgi = q.cgi
    BY <1>1 DEF Collected, Connection
  <2> HIDE DEF z
  <2> QED
    BY <2>1 DEF read_from_pipe, BufferFull, PipeEof, z
<1>3. CASE o = Blocked(q) \/ o = Died(q)
  BY <1>1, <1>3, MoreOK, DiedOK
<1>4. CASE q.cgi = "PARSE" /\ o \in process_cgi_header(b, FALSE)
  <2>1. Parsing(q)
    BY <1>1, <1>4 DEF Going
  <2>2. Parsing(b)
    BY <2>1, CgiOK
  <2> HIDE DEF b
  <2> QED
    BY <1>4, <2>2, HeaderOK
<1>10. 0 \in Nat /\ 0 <= q.prog /\ q.hend + 0 <= BufferSize + 1
  BY <1>1, Components DEF Typed
<1>11. ASSUME q.cgi = "PARSE" PROVE Parsing(z) /\ z \in Connection
  <2>1. /\ Parsing(q) /\ Sound(q) /\ Continues(q, HeaderRoom(q)) /\ HeaderRoom(q) \in Nat
    BY <1>1, <1>11, Sizes DEF Going, Parsing, HeaderRoom
  <2>2. /\ Sound(z) /\ Continues(z, HeaderRoom(q))
        /\ z.status = q.status /\ z.kind = q.kind /\ z.base = q.base
        /\ z.bstart = q.bstart /\ z.bend = q.bend /\ z.hline = q.hline
        /\ z.sent = q.sent /\ (Flawless(z) => Flawless(q))
    BY <1>10, <2>1, CollectedOK
  <2> HIDE DEF z
  <2> QED
    BY <2>1, <2>2 DEF Parsing, HeaderRoom, InPipe, Sound, Typed
<1>12. ASSUME q.cgi # "PARSE" PROVE Passing(z) /\ z \in Connection
  <2>1. Passing(q) /\ Sound(q) /\ Continues(q, 0)
    BY <1>1, <1>12 DEF Going, Passing
  <2>2. Sound(z) /\ Continues(z, 0) /\ z.status = q.status
    BY <1>10, <2>1, CollectedOK
  <2> HIDE DEF z
  <2> QED
    BY <1>1, <2>2 DEF Passing, InPipe, Sound, Typed
<1> HIDE DEF z
<1>5. /\ e \in Connection /\ Stream(e) = Stream(z) /\ e.made = z.made /\ e.cgi = "DONE"
      /\ e.kind = z.kind /\ e.base = z.base /\ e.hline = z.hline /\ e.hend = z.hend
      /\ InPipe(e)
  BY <1>11, <1>12 DEF Connection, Status, Stream, InPipe
<1>6. /\ w \in Connection /\ Stream(w) = Stream(q) /\ w.made = q.made /\ w.cgi = q.cgi
      /\ w.kind = q.kind /\ w.base = q.base /\ w.hline = q.hline /\ w.hend = q.hend
      /\ InPipe(w)
  BY <1>1 DEF Connection, Status, Stream, InPipe
<1> HIDE DEF e, w
<1>7. CASE q.cgi = "PARSE" /\ o \in process_cgi_header(e, FALSE)
  <2>1. Parsing(z)
    BY <1>7, <1>11
  <2>2. Parsing(e)
    BY <1>5, <2>1, PipeKept
  <2> QED
    BY <1>7, <2>2, HeaderOK
<1>8. CASE q.cgi # "PARSE" /\ (o = MoreToDo(e) \/ o = MoreToDo(w))
  <2>1. Passing(q)
    BY <1>1, <1>8 DEF Going
  <2>2. Passing(e) /\ Passing(w) /\ e.cgi # "PARSE" /\ w.cgi # "PARSE"
    BY <1>5, <1>6, <1>8, <1>12, <2>1, PipeKept
  <2> QED
    BY <1>8, <2>2, PassesOn, MoreOK
<1>9. ASSUME NEW n \in 1..Min({q.prog, PipeRoom(q)}), o \in PipeData(Collected(q, n))
      PROVE  OutcomeOK(o)
  <2>1. q.prog \in Nat /\ PipeRoom(q) \in Nat
    BY <1>1, Components, Sizes DEF Typed, PipeRoom
  <2>2. n \in Nat /\ n <= q.prog /\ n <= PipeRoom(q)
    BY <2>1, MinOfTwo
  <2>3. q.hend \in Nat
    BY <1>1, Components
  <2>4. q.hend + n <= BufferSize + 1
    BY <2>2, <2>3, Sizes DEF PipeRoom
  <2> QED
    BY <1>9, <2>2, <2>4, PipeDataOK
<1> QED
  BY <1>2, <1>3, <1>4, <1>7, <1>8, <1>9

-----------------------------------------------------------------------------
(***************************************************************************)
(* The start of an answer: everything produced before it was sent, and the *)
(* buffer is empty.                                                        *)
(***************************************************************************)
Starting(q) ==
  /\ Sound(q) /\ Whole(q)
  /\ q.bstart = 0 /\ q.bend = 0
  /\ q.base = q.made
  /\ q.kind \in {"mapped", "file"} => q.parts # <<>>

LEMMA StartOK ==
  ASSUME NEW q, Starting(q)
  PROVE  /\ q \in Connection /\ Len(q.sent) \in Nat /\ q.base \in Nat
         /\ q.hline <= q.hend /\ q.hend <= BufferSize + 1
         /\ Flawless(q) => q.base = Passed(q) /\ q.base = Len(q.sent)
<1>1. q \in Connection /\ q.hline <= q.hend /\ q.hend <= BufferSize + 1
  BY DEF Starting, Sound, Typed
<1>2. Len(q.sent) \in Nat /\ q.base \in Nat
  BY <1>1, Components
<1> QED
  BY <1>1, <1>2 DEF Starting, Whole, Passed

\* init_get fills the buffer from the mapping.
LEMMA FillOK ==
  ASSUME NEW q, Sound(q), Whole(q), q.bstart = 0, Flawless(q) => q.base = Len(q.sent),
         q.status \in {"WRITE", "IOSHUFFLE", "DEAD"}, q.parts # <<>>, NEW o \in FillBuffer(q)
  PROVE  OutcomeOK(o)
<1> DEFINE h     == Head(q.parts)
           space == BufferSize - q.bend
           n     == Min({space, h})
           first == q.made + 1
           end   == q.bend + n
           total == q.made + n
           st    == Stored(q.mem, q.bend, n, first)
           ps    == [q.parts EXCEPT ![1] = h - n]
           a     == [q EXCEPT !.mem = st, !.bend = end, !.made = total]
           full  == [q EXCEPT !.mem = Stored(@, q.bend, n, q.made + 1), !.bend = @ + n,
                              !.made = @ + n, !.parts[1] = @ - n]
           e     == [q EXCEPT !.bend = 0]
<1>1. /\ q \in Connection /\ q.hline <= q.hend /\ q.hend <= BufferSize + 1
      /\ q.bend <= BufferSize /\ SentOK(q)
  BY DEF Sound, Typed
<1>2. /\ q.mem \in [0..BufferSize -> Nat] /\ q.bend \in Nat /\ q.made \in Nat
      /\ q.parts \in Seq(Nat) /\ Len(q.sent) \in Nat
  BY <1>1, Components
<1>3. \/ o = MoreToDo(q)
      \/ \E p \in send_r(e) : o = Complete(p)
      \/ o \in complete_response(full)
      \/ o = MoreToDo(full)
  BY DEF FillBuffer, reset_output_buffer
<1>4. CASE o = MoreToDo(q)
  BY <1>4, GoesOn, MoreOK
<1>5. ASSUME NEW p \in send_r(e), o = Complete(p) PROVE OutcomeOK(o)
  <2>1. /\ e \in Connection /\ e.bstart = 0 /\ e.bend = 0 /\ e.sent = q.sent
        /\ e.faults = q.faults /\ e.gone = q.gone /\ e.hline = q.hline /\ e.hend = q.hend
        /\ e.base = q.base
    BY <1>1 DEF Connection
  <2> HIDE DEF e
  <2>2. Sound(e)
    BY <1>1, <2>1, Sizes, NoRun DEF Sound, Typed, SentOK, Follows
  <2>3. Flawless(e) => e.base = Passed(e)
    BY <1>2, <2>1 DEF Flawless, Passed
  <2> QED
    BY <1>5, <2>2, <2>3, SendOK, CompleteOK
<1>6. h \in Nat /\ h = q.parts[1] /\ 1 \in 1..Len(q.parts)
  BY <1>2
<1> HIDE DEF h
<1>7. space \in Nat /\ q.bend + space = BufferSize
  BY <1>1, <1>2, Sizes
<1>8. n \in Nat /\ n <= h /\ n <= space
  BY <1>6, <1>7, MinOfTwo
<1> HIDE DEF n
<1>9. q.bend + n <= BufferSize
  BY <1>2, <1>7, <1>8, Sizes
<1>10. first \in Nat /\ first = q.made + 1 /\ end \in Nat /\ total \in Nat
  BY <1>2, <1>8
<1>11. ps \in Seq(Nat) /\ ps # <<>>
  BY <1>2, <1>6, <1>8, ExceptSeq
<1>12. st \in [0..BufferSize -> Nat]
  BY <1>2, <1>8, <1>10, StoredOK
<1>13. end = q.bend + n /\ total = q.made + n /\ st = Stored(q.mem, q.bend, n, first)
  OBVIOUS
<1>14. full = [a EXCEPT !.parts = ps]
  <2>1. full = [q EXCEPT !.mem = st, !.bend = end, !.made = total,
                         !.parts = [q.parts EXCEPT ![1] = q.parts[1] - n]]
    BY <1>1 DEF Connection
  <2>2. full = [q EXCEPT !.mem = st, !.bend = end, !.made = total, !.parts = ps]
    BY <1>6, <2>1
  <2> HIDE DEF st, ps, end, total
  <2> QED
    BY <1>1, <2>2 DEF Connection
<1> HIDE DEF full, st, ps, end, total, first
<1>15. /\ a \in Connection /\ Rest(a) = Rest(q) /\ a.mem = st /\ a.bend = end
       /\ a.made = total /\ a.bstart = q.bstart /\ a.sent = q.sent /\ a.faults = q.faults
       /\ a.gone = q.gone /\ a.status = q.status
  BY <1>1, <1>10, <1>12 DEF Connection, Rest
<1> HIDE DEF a
<1>16. Sound(a) /\ Whole(a)
  BY <1>8, <1>9, <1>10, <1>13, <1>15, AppendOK
<1>17. /\ full \in Connection /\ Stream(full) = Stream(a) /\ full.made = a.made
       /\ full.hline = a.hline /\ full.hend = a.hend /\ full.parts = ps
       /\ full.status = a.status
  BY <1>11, <1>14, <1>15 DEF Connection, Stream
<1>18. Sound(full) /\ Whole(full)
  BY <1>1, <1>15, <1>16, <1>17, SoundKept, WholeKept, RestParts
<1>19. Going(full) /\ full.parts # <<>> /\ full.status \in {"WRITE", "IOSHUFFLE", "DEAD"}
  BY <1>11, <1>15, <1>17, <1>18, GoesOn
<1> QED
  BY <1>3, <1>4, <1>5, <1>18, <1>19, MoreOK, ResponseOK

LEMMA InitGetOK ==
  ASSUME NEW q, Starting(q), q.kind \in {"mapped", "file"}, NEW o \in init_get(q)
  PROVE  OutcomeOK(o)
<1> DEFINE s == IF q.kind = "file" THEN "IOSHUFFLE" ELSE "WRITE"
           t == [q EXCEPT !.status = s]
           n == HeaderSize + (IF q.multi THEN PartSize ELSE 0)
           a == req_write(t, n)
<1>1. Sound(q) /\ Whole(q) /\ s \in {"WRITE", "IOSHUFFLE"} /\ s \in Status /\ n \in Nat
      /\ q.parts # <<>> /\ q.bstart = 0
  BY Sizes DEF Starting, Status
<1>2. t.multi = q.multi
  BY StartOK DEF Connection
<1>3. Answering(q, s) = a
  BY DEF Answering
<1>4. o \in complete_response(a) \/ o = MoreToDo(a) \/ o \in FillBuffer(a)
  BY <1>3 DEF init_get
<1> HIDE DEF s, n
<1>5. /\ Sound(t) /\ Whole(t) /\ Rest(t) = Rest(q) /\ Stream(t) = Stream(q) /\ t.status = s
  BY <1>1, StatusOK
<1> HIDE DEF t
<1>6. /\ Sound(a) /\ Whole(a) /\ Rest(a) = Rest(t) /\ a.status \in {s, "DEAD"}
      /\ a.bstart = t.bstart /\ a.sent = t.sent /\ (Flawless(a) <=> Flawless(t))
  BY <1>1, <1>5, WriteOK
<1> HIDE DEF a
<1>7. /\ a.parts # <<>> /\ a.bstart = 0 /\ a.status \in {"WRITE", "IOSHUFFLE", "DEAD"}
      /\ Flawless(a) => a.base = Len(a.sent)
  BY <1>1, <1>5, <1>6, RestParts, StreamParts, StartOK
<1> QED
  BY <1>4, <1>6, <1>7, ResponseOK, GoesOn, MoreOK, FillOK

LEMMA InitCgiOK ==
  ASSUME NEW q, Starting(q), q.kind \in {"cgi", "raw"}, NEW o \in init_cgi(q)
  PROVE  OutcomeOK(o)
<1> DEFINE made == q.made + HeaderRoom(q)
           p == [q EXCEPT !.ka = FALSE, !.status = "PIPE_READ", !.cgi = "PARSE",
                          !.hline = Half, !.hend = Half, !.made = made]
<1>1. o = MoreToDo(p)
  BY DEF init_cgi, HeaderRoom
<1>2. /\ q \in Connection /\ Sound(q) /\ Len(q.sent) \in Nat /\ q.base \in Nat
      /\ q.bstart = 0 /\ q.bend = 0 /\ q.made = q.base
      /\ (Flawless(q) => q.base = Len(q.sent))
  BY StartOK DEF Starting
<1>3. HeaderRoom(q) \in Nat
  BY Sizes DEF HeaderRoom
<1>4. made \in Nat /\ made = q.base + HeaderRoom(q) /\ Half \in Nat
  BY <1>2, <1>3, Sizes
<1> HIDE DEF made
<1>5. /\ p \in Connection /\ Stream(p) = Stream(q) /\ p.made = made /\ p.cgi = "PARSE"
      /\ p.status = "PIPE_READ" /\ p.hline = Half /\ p.hend = Half /\ p.kind = q.kind
      /\ p.base = q.base
  BY <1>2, <1>4 DEF Connection, Status, Stream
<1> HIDE DEF p
<1>6. Sound(p)
  <2>1. p.hline <= p.hend /\ p.hend <= BufferSize + 1
    BY <1>5, Sizes
  <2> QED
    BY <1>2, <1>5, <2>1, SoundKept
<1>7. HeaderRoom(p) = HeaderRoom(q)
  BY <1>5 DEF HeaderRoom
<1>8. Continues(p, HeaderRoom(p))
  <2>1. ASSUME Flawless(p)
        PROVE  /\ Run(p.mem, p.hline, p.hend, Ahead(p, HeaderRoom(p)))
               /\ p.made = Ahead(p, HeaderRoom(p)) + (p.hend - p.hline)
    <3>1. Flawless(q) /\ q.base = Len(q.sent)
      BY <1>2, <1>5, <2>1, StreamParts
    <3>2. p.bstart = 0 /\ p.bend = 0 /\ p.sent = q.sent
      BY <1>2, <1>5, StreamParts
    <3>3. Ahead(p, HeaderRoom(p)) = q.base + HeaderRoom(q)
      BY <1>2, <1>3, <1>7, <3>1, <3>2 DEF Ahead, Passed
    <3>4. p.hend - p.hline = 0
      BY <1>4, <1>5
    <3>5. q.base + HeaderRoom(q) + 0 = q.base + HeaderRoom(q)
      BY <1>2, <1>3
    <3> QED
      BY <1>4, <1>5, <3>3, <3>4, <3>5, NoRun
  <2> QED
    BY <2>1 DEF Continues
<1>9. Parsing(p)
  BY <1>2, <1>5, <1>6, <1>8, StreamParts DEF Parsing, InPipe
<1>10. Going(p)
  BY <1>5, <1>6, <1>9 DEF Going, Sound, InPipe
<1> QED
  BY <1>1, <1>10, MoreOK

LEMMA GetDirOK ==
  ASSUME NEW q, Starting(q), NEW o \in get_dir(q)
  PROVE  OutcomeOK(o)
<1> DEFINE t == [q EXCEPT !.ka = FALSE, !.status = "WRITE"]
           w == req_write(t, HeaderSize)
           d(p) == [p EXCEPT !.status = "PIPE_READ", !.cgi = "BUFFER", !.hline = 0, !.hend = 0]
<1>1. \E p \in Flushed(w) : o = Complete(p) \/ o = MoreToDo(d(p))
  BY DEF get_dir
<1>2. /\ q \in Connection /\ Sound(q) /\ Whole(q)
      /\ q.hline <= q.hend /\ q.hend <= BufferSize + 1
  BY StartOK DEF Starting
<1>3. /\ t \in Connection /\ Stream(t) = Stream(q) /\ t.made = q.made
      /\ t.hline = q.hline /\ t.hend = q.hend
  BY <1>2 DEF Connection, Status, Stream
<1> HIDE DEF t
<1>4. Sound(t) /\ Whole(t)
  BY <1>2, <1>3, SoundKept, WholeKept
<1>5. Sound(w) /\ Whole(w)
  BY <1>4, Sizes, WriteOK
<1> HIDE DEF w
<1>6. PICK p \in Flushed(w) : o = Complete(p) \/ o = MoreToDo(d(p))
  BY <1>1
<1>7. Sound(p) /\ Whole(p)
  BY <1>5, FlushedOK
<1>8. p \in Connection
  BY <1>7 DEF Sound, Typed
<1> DEFINE r == d(p)
<1>9. /\ r \in Connection /\ Stream(r) = Stream(p) /\ r.made = p.made /\ r.cgi = "BUFFER"
      /\ r.status = "PIPE_READ" /\ r.hline = 0 /\ r.hend = 0
  BY <1>8 DEF Connection, Status, Stream
<1> HIDE DEF r
<1>10. Sound(r) /\ Whole(r)
  BY <1>7, <1>9, Sizes, SoundKept, WholeKept
<1>11. Going(r)
  BY <1>9, <1>10, EmptyPasses, PassesOn DEF InPipe
<1> QED
  BY <1>6, <1>7, <1>11, CompleteOK, MoreOK DEF r

LEMMA AnswerOK ==
  ASSUME NEW q, Starting(q), NEW o \in Answer(q)
  PROVE  OutcomeOK(o)
<1>1. q.kind \in AllKinds
  BY StartOK, Components
<1>2. CASE q.kind = "page"
  <2>1. PICK p \in send_r(q) : o = Complete(p)
    BY <1>2 DEF Answer
  <2>2. Sound(p) /\ Whole(p)
    BY StartOK, SendOK DEF Starting
  <2> QED
    BY <2>1, <2>2, CompleteOK
<1>3. CASE q.kind \in {"mapped", "file"}
  BY <1>3, InitGetOK DEF Answer
<1>4. CASE q.kind = "dir"
  BY <1>4, GetDirOK DEF Answer
<1>5. CASE q.kind \in {"cgi", "raw"}
  BY <1>5, InitCgiOK DEF Answer
<1> QED
  BY <1>1, <1>2, <1>3, <1>4, <1>5 DEF AllKinds

-----------------------------------------------------------------------------
\* The switch of process_requests.
LEMMA HandleOK ==
  ASSUME NEW q, Going(q), NEW o \in Handle(q)
  PROVE  OutcomeOK(o)
<1>1. q \in Connection /\ Typed(q) /\ q.status # "READ_HEADER"
  BY DEF Going, Typed
<1>2. q.status \in Status
  BY <1>1, Components
<1>3. CASE q.status \in {"WRITE", "IOSHUFFLE"}
  BY <1>3, FileOK DEF Handle
<1>4. CASE q.status = "PIPE_READ"
  BY <1>4, PipeReadOK DEF Handle
<1>5. CASE q.status = "PIPE_WRITE"
  <2>1. Passing(q) /\ q.cgi # "PARSE"
    BY <1>5 DEF Going, InPipe, BeforeTimedOut
  <2> QED
    BY <1>5, <2>1, PipeWriteOK DEF Handle
<1>6. CASE q.status = "DONE"
  <2>1. Sound(q) /\ Whole(q)
    BY <1>6 DEF Going, InPipe, BeforeTimedOut
  <2>2. PICK f \in req_flush(q) :
          o = IF f.rv = -2 THEN Died(f.q) ELSE IF f.rv > 0 THEN MoreToDo(f.q) ELSE f
    BY <1>6 DEF Handle
  <2>3. /\ Sound(f.q) /\ f.rv \in Int /\ f.rv >= -2 /\ (f.rv # -2 => f.q.status = "DONE")
        /\ f.q.faults = q.faults /\ f.q.gone = q.gone /\ f.q.made = q.made
        /\ (Flawless(f.q) => Passed(f.q) = Passed(q))
    BY <1>6, <2>1, FlushOK
  <2>4. Whole(f.q) /\ Typed(f.q)
    BY <2>1, <2>3 DEF Whole, Flawless, Sound
  <2>5. CASE f.rv = -2
    BY <2>2, <2>4, <2>5, DiedOK
  <2>6. CASE f.rv # -2
    <3>1. Going(f.q) /\ Final(f.q)
      BY <2>3, <2>4, <2>6, GoesOn DEF Final
    <3>2. CASE f.rv > 0
      BY <2>2, <2>6, <3>1, <3>2, MoreOK
    <3>3. CASE ~(f.rv > 0)
      <4>1. o = f /\ f.rv >= -1
        BY <2>2, <2>3, <2>6, <3>3
      <4> QED
        BY <2>3, <3>1, <4>1 DEF OutcomeOK
    <3> QED
      BY <3>2, <3>3
  <2> QED
    BY <2>5, <2>6
<1>7. CASE q.status \in {"TIMED_OUT", "DEAD"}
  <2> DEFINE p == [q EXCEPT !.bend = 0, !.ka = FALSE]
  <2>1. o = Complete(p)
    BY <1>7 DEF Handle
  <2>2. /\ p \in Connection /\ p.status = q.status /\ p.bend = 0 /\ p.hline = q.hline
        /\ p.hend = q.hend /\ p.sent = q.sent /\ p.faults = q.faults
    BY <1>1 DEF Connection
  <2> HIDE DEF p
  <2>3. Final(p)
    BY <1>1, <1>7, <2>2, Sizes DEF Final, Typed, SentOK, BeforeTimedOut
  <2> QED
    BY <2>1, <2>3 DEF OutcomeOK, Complete, Outcome
<1> QED
  BY <1>1, <1>2, <1>3, <1>4, <1>5, <1>6, <1>7 DEF Status

\* A request that goes on, and has neither timed out nor died, has an orderly
\* buffer.
LEMMA GoingSound ==
  ASSUME NEW q, Going(q), BeforeTimedOut(q) PROVE Sound(q)
  BY DEF Going, Parsing, Passing

\* The flush at the head of a visit.
LEMMA GoingFlushed ==
  ASSUME NEW q, Going(q), BeforeTimedOut(q), q.bend # 0, NEW o \in req_flush(q), o.rv # -2
  PROVE  Going(o.q)
<1>1. Sound(q)
  BY GoingSound
<1>2. /\ Sound(o.q) /\ Rest(o.q) = Rest(q) /\ o.q.made = q.made /\ o.q.mem = q.mem
      /\ o.q.faults = q.faults /\ o.q.gone = q.gone
      /\ (Flawless(o.q) => Passed(o.q) = Passed(q)) /\ o.q.status = q.status
  BY <1>1, FlushOK
<1> DEFINE p == o.q
<1> HIDE DEF p
<1>3. /\ Sound(p) /\ Rest(p) = Rest(q) /\ p.made = q.made /\ p.mem = q.mem
      /\ p.faults = q.faults /\ p.gone = q.gone
      /\ (Flawless(p) => Passed(p) = Passed(q)) /\ p.status = q.status
  BY <1>2 DEF p
<1>4. ASSUME InPipe(q) PROVE Going(p)
  <2>1. Passing(q) /\ q.cgi # "PARSE"
    BY <1>4 DEF Going, Parsing
  <2>2. Continues(p, 0)
    BY <1>3, <2>1, RestParts DEF Passing, Continues, Flawless, Ahead
  <2>3. Passing(p) /\ p.cgi # "PARSE"
    BY <1>3, <1>4, <2>1, <2>2, RestParts DEF Passing, InPipe
  <2> QED
    BY <2>3, PassesOn
<1>5. ASSUME ~InPipe(q) PROVE Going(p)
  <2>1. Whole(p)
    BY <1>3, <1>5 DEF Going, Whole, Flawless
  <2> QED
    BY <1>3, <1>5, <2>1, RestParts DEF Going, InPipe, Sound
<1> QED
  BY <1>4, <1>5 DEF p

\* What the client, the file and the socket change between two steps.
LEMMA Unchanged ==
  ASSUME NEW q, NEW p \in Connection, Stream(p) = Stream(q), p.made = q.made,
         p.status = q.status, p.cgi = q.cgi, p.kind = q.kind, p.base = q.base,
         p.hline = q.hline, p.hend = q.hend, p.parts = q.parts
  PROVE  (Waiting(q) => Waiting(p)) /\ (Going(q) => Going(p)) /\ (Final(q) => Final(p))
<1>1. (Sound(q) => Sound(p)) /\ (Typed(q) => Typed(p)) /\ (Whole(q) => Whole(p))
  BY StreamParts DEF Sound, Typed, Whole
<1>2. InPipe(q) => (Parsing(q) => Parsing(p)) /\ (Passing(q) => Passing(p))
  <2>1. InPipe(q) => InPipe(p)
    BY DEF InPipe
  <2> QED
    BY <2>1, PipeKept
<1>3. Waiting(q) => Waiting(p)
  BY <1>1, StreamParts DEF Waiting
<1>4. Final(q) => Final(p)
  BY <1>1 DEF Final, BeforeTimedOut
<1>5. Going(q) => Going(p)
  BY <1>1, <1>2 DEF Going, BeforeTimedOut, InPipe
<1> QED
  BY <1>3, <1>4, <1>5

LEMMA ResetOK ==
  ASSUME NEW q \in Connection
  PROVE  LET p == [q EXCEPT !.gone = TRUE]
         IN  (Waiting(q) => Waiting(p)) /\ (Going(q) => Going(p)) /\ (Final(q) => Final(p))
<1> DEFINE p == [q EXCEPT !.gone = TRUE]
<1>1. /\ p \in Connection /\ p.mem = q.mem /\ p.bstart = q.bstart /\ p.bend = q.bend
      /\ p.sent = q.sent /\ p.faults = q.faults /\ p.gone /\ p.made = q.made
      /\ p.status = q.status /\ p.cgi = q.cgi /\ p.kind = q.kind /\ p.base = q.base
      /\ p.hline = q.hline /\ p.hend = q.hend /\ p.parts = q.parts
  BY DEF Connection
<1> HIDE DEF p
<1>2. ~Flawless(p)
  BY <1>1 DEF Flawless
<1>3. (Typed(q) => Typed(p)) /\ (Sound(q) => Sound(p)) /\ Whole(p) /\ \A g : Continues(p, g)
  BY <1>1, <1>2 DEF Typed, SentOK, Sound, Whole, Continues
<1>4. (Parsing(q) => Parsing(p)) /\ (Passing(q) => Passing(p))
  BY <1>1, <1>2, <1>3 DEF Parsing, Passing, InPipe
<1>5. Waiting(q) => Waiting(p)
  BY <1>1, <1>3 DEF Waiting
<1>6. Final(q) => Final(p)
  BY <1>1, <1>3 DEF Final, BeforeTimedOut
<1>7. Going(q) => Going(p)
  BY <1>1, <1>3, <1>4 DEF Going, BeforeTimedOut, InPipe
<1> QED
  BY <1>5, <1>6, <1>7 DEF p

-----------------------------------------------------------------------------
\* The list an outcome puts the request on.
LEMMA DispatchOK ==
  ASSUME Inv, NEW o, OutcomeOK(o), Dispatch(o), asked' \in 0..MaxAnswers
  PROVE  Inv'
<1>1. o.rv \in Int /\ o.rv >= -1 /\ conn' = o.q
  BY DEF OutcomeOK, Dispatch
<1>2. age' \in 0..(RequestTimeout + 1)
  BY Sizes DEF Inv, Dispatch
<1>3. CASE o.rv = -1
  <2>1. pc' = "blocked" /\ Going(conn')
    BY <1>1, <1>3 DEF Dispatch, OutcomeOK
  <2> QED
    BY <1>2, <2>1 DEF Inv, Locations, Working
<1>4. CASE o.rv = 0
  <2>1. pc' = "free" /\ Final(conn')
    BY <1>1, <1>4 DEF Dispatch, OutcomeOK
  <2> QED
    BY <1>2, <2>1 DEF Inv, Locations, Working
<1>5. CASE o.rv > 0
  <2>1. pc' = "flush" /\ Going(conn')
    BY <1>1, <1>5 DEF Dispatch, OutcomeOK
  <2> QED
    BY <1>2, <2>1 DEF Inv, Locations, Working
<1> QED
  BY <1>1, <1>3, <1>4, <1>5

LEMMA InvInit == Init => Inv

<1> SUFFICES ASSUME Init PROVE Inv
  OBVIOUS
<1>1. PICK k \in Kinds :
        conn = [status |-> "READ_HEADER", mem |-> [i \in 0..BufferSize |-> 0],
                bstart |-> 0, bend |-> 0, hline |-> 0, hend |-> 0, cgi |-> "PARSE",
                kind |-> k, head |-> FALSE, ka |-> FALSE, parts |-> <<>>,
                multi |-> FALSE, prog |-> 0, cut |-> FALSE, base |-> 0, made |-> 0,
                room |-> SockSize, gone |-> FALSE, sent |-> <<>>, faults |-> {}]
  BY DEF Init
<1>2. k \in AllKinds /\ <<>> \in Seq(Nat) /\ Len(<<>>) = 0 /\ SockSize \in 0..SockSize
  BY KindsAssumption, Sizes
<1>3. /\ conn \in Connection /\ conn.status = "READ_HEADER" /\ conn.bstart = 0 /\ conn.bend = 0
      /\ conn.hline = 0 /\ conn.hend = 0 /\ conn.made = 0 /\ conn.sent = <<>>
  BY <1>1, <1>2 DEF Connection, Status
<1>4. Sound(conn) /\ Whole(conn)
  BY <1>2, <1>3, Sizes, NoRun DEF Sound, Typed, SentOK, Follows, Whole, Passed
<1>5. Waiting(conn)
  BY <1>3, <1>4 DEF Waiting
<1> QED
  BY <1>5, Sizes DEF Init, Inv, Locations, Working

\* read_header starts an answer.
LEMMA NewRequestOK == Inv /\ NewRequest => Inv'
<1> SUFFICES ASSUME Inv, NewRequest PROVE Inv'
  OBVIOUS
<1>1. Waiting(conn) /\ conn \in Connection
  BY DEF Inv, NewRequest, Waiting, Sound, Typed
<1>2. PICK w \in Wants, h \in BOOLEAN, a \in BOOLEAN :
        \E o \in Answer([conn EXCEPT !.kind = w.kind, !.head = h, !.ka = a,
                                     !.parts = w.parts, !.multi = w.multi,
                                     !.prog = w.prog, !.cut = w.cut, !.base = conn.made]) :
          Dispatch(o)
  BY DEF NewRequest
<1>3. /\ w.kind \in AllKinds /\ w.parts \in Seq(Nat) /\ w.prog \in Nat /\ w.cut \in BOOLEAN
      /\ w.multi \in BOOLEAN
      /\ w.kind \in {"mapped", "file"} => w.parts # <<>>
  <2>1. CASE w \in [kind : Kinds \cap {"mapped", "file"}, parts : PartLists,
                    multi : BOOLEAN, prog : {0}, cut : BOOLEAN]
    <3>1. w.parts \in Seq(Nat \ {0}) /\ w.parts # <<>> /\ w.kind \in Kinds
          /\ w.prog = 0 /\ w.cut \in BOOLEAN /\ w.multi \in BOOLEAN
      BY <2>1, SizesAssumption
    <3>2. w.parts \in Seq(Nat)
      BY <3>1
    <3> QED
      BY <3>1, <3>2, KindsAssumption
  <2>2. CASE w \in [kind : Kinds \cap {"dir", "cgi", "raw"}, parts : {<<>>},
                    multi : {FALSE}, prog : Programs, cut : {FALSE}]
    <3>1. /\ w.parts = <<>> /\ w.kind \in Kinds /\ w.kind \notin {"mapped", "file"}
          /\ w.prog \in Programs /\ w.cut = FALSE /\ w.multi = FALSE
      BY <2>2
    <3>2. <<>> \in Seq(Nat)
      OBVIOUS
    <3> QED
      BY <3>1, <3>2, SizesAssumption, KindsAssumption
  <2>3. CASE w \in [kind : Kinds \cap {"page"}, parts : {<<>>}, multi : {FALSE},
                    prog : {0}, cut : {FALSE}]
    <3>1. /\ w.parts = <<>> /\ w.kind \in Kinds /\ w.kind \notin {"mapped", "file"}
          /\ w.prog = 0 /\ w.cut = FALSE /\ w.multi = FALSE
      BY <2>3
    <3>5. w.prog \in Nat
      BY <3>1
    <3>3. w.cut \in BOOLEAN /\ w.multi \in BOOLEAN
      BY <3>1, Zenon
    <3>2. <<>> \in Seq(Nat)
      OBVIOUS
    <3>4. w.kind \in AllKinds
      BY <3>1, KindsAssumption
    <3> QED
      BY <3>1, <3>2, <3>3, <3>4, <3>5, Zenon
  <2> QED
    BY <2>1, <2>2, <2>3 DEF Wants
<1>9. PICK m \in BOOLEAN : m = w.multi
  BY <1>3
<1>10. PICK wc \in BOOLEAN : wc = w.cut
  BY <1>3
<1> DEFINE wk == w.kind
           wp == w.parts
           wg == w.prog
           b  == conn.made
           q == [conn EXCEPT !.kind = wk, !.head = h, !.ka = a, !.parts = wp,
                             !.multi = m, !.prog = wg, !.cut = wc, !.base = b]
<1>4. PICK o \in Answer(q) : Dispatch(o)
  BY <1>2, <1>9, <1>10
<1>5. /\ b \in Nat /\ b = conn.made /\ wk \in AllKinds /\ wp \in Seq(Nat)
      /\ wg \in Nat /\ (wk \in {"mapped", "file"} => wp # <<>>)
  BY <1>1, <1>3, Components
<1> HIDE DEF wk, wp, wg, b
<1>6. /\ q \in Connection /\ Stream(q) = Stream(conn) /\ q.made = conn.made
      /\ q.base = b /\ q.kind = wk /\ q.parts = wp
      /\ q.hline = conn.hline /\ q.hend = conn.hend
  <2>1. q \in Connection
    <3> DEFINE t == [conn EXCEPT !.kind = wk, !.parts = wp, !.prog = wg, !.base = b]
               u == [t EXCEPT !.head = h, !.ka = a]
               v == [u EXCEPT !.multi = m, !.cut = wc]
    <3>1. t \in Connection
      BY <1>1, <1>5 DEF Connection
    <3>2. u \in Connection
      BY <3>1 DEF Connection
    <3>3. v \in Connection
      BY <3>2 DEF Connection
    <3>4. q = v
      BY <1>1 DEF Connection
    <3> QED
      BY <3>3, <3>4
  <2>2. /\ q.mem = conn.mem /\ q.bstart = conn.bstart /\ q.bend = conn.bend
        /\ q.sent = conn.sent /\ q.faults = conn.faults /\ q.gone = conn.gone
    BY <1>1 DEF Connection
  <2>3. q.made = conn.made /\ q.hline = conn.hline /\ q.hend = conn.hend
    BY <1>1 DEF Connection
  <2>4. q.base = b /\ q.kind = wk /\ q.parts = wp
    BY <1>1 DEF Connection
  <2> HIDE DEF q
  <2> QED
    BY <2>1, <2>2, <2>3, <2>4 DEF Stream
<1> HIDE DEF q
<1>7. Starting(q)
  <2>1. /\ Sound(conn) /\ Whole(conn) /\ conn.bstart = 0 /\ conn.bend = 0
        /\ conn.hline <= conn.hend /\ conn.hend <= BufferSize + 1
    BY <1>1 DEF Waiting, Sound, Typed
  <2> QED
    BY <1>5, <1>6, <2>1, SoundKept, WholeKept, StreamParts DEF Starting
<1>8. asked' \in 0..MaxAnswers
  BY Sizes DEF Inv, NewRequest
<1> QED
  BY <1>4, <1>7, <1>8, AnswerOK, DispatchOK

LEMMA FlushStepOK == Inv /\ Flush => Inv'
<1> SUFFICES ASSUME Inv, Flush PROVE Inv'
  OBVIOUS
<1>1. Going(conn) /\ asked' = asked /\ asked \in 0..MaxAnswers
      /\ age \in 0..(RequestTimeout + 1)
  BY DEF Inv, Flush
<1>2. CASE conn.bend # 0 /\ BeforeTimedOut(conn)
  <2>1. PICK o \in req_flush(conn) :
          IF o.rv = -2 THEN Dispatch(Died(o.q))
          ELSE IF o.rv = -1 THEN Dispatch(o)
          ELSE conn' = o.q /\ pc' = "handle" /\ UNCHANGED age
    BY <1>2 DEF Flush
  <2>2. Sound(conn)
    BY <1>1, <1>2, GoingSound
  <2>3. Typed(o.q)
    BY <2>2, FlushOK DEF Sound
  <2>4. CASE o.rv = -2
    BY <1>1, <2>1, <2>3, <2>4, DiedOK, DispatchOK
  <2>5. CASE o.rv = -1
    <3>1. Going(o.q)
      BY <1>1, <1>2, <2>5, GoingFlushed
    <3>2. OutcomeOK(o)
      BY <2>5, <3>1 DEF OutcomeOK
    <3> QED
      BY <1>1, <2>1, <2>5, <3>2, DispatchOK
  <2>6. CASE o.rv # -2 /\ o.rv # -1
    <3>1. Going(conn') /\ pc' = "handle" /\ age' = age
      BY <1>1, <1>2, <2>1, <2>6, GoingFlushed
    <3> QED
      BY <1>1, <3>1 DEF Inv, Locations, Working
  <2> QED
    BY <2>4, <2>5, <2>6
<1>3. CASE ~(conn.bend # 0 /\ BeforeTimedOut(conn))
  <2>1. pc' = "handle" /\ conn' = conn /\ age' = age
    BY <1>3 DEF Flush
  <2> QED
    BY <1>1, <2>1 DEF Inv, Locations, Working
<1> QED
  BY <1>2, <1>3

LEMMA HandleStepOK == Inv /\ HandleRequest => Inv'
<1> SUFFICES ASSUME Inv, HandleRequest PROVE Inv'
  OBVIOUS
<1>1. Going(conn) /\ asked' \in 0..MaxAnswers
  BY DEF Inv, HandleRequest
<1>2. PICK o \in Handle(conn) : Dispatch(o)
  BY DEF HandleRequest
<1> QED
  BY <1>1, <1>2, HandleOK, DispatchOK

\* free_request: the last flush.
LEMMA FinalFlushOK ==
  ASSUME NEW q, Final(q), NEW o \in FinalFlush(q)
  PROVE  /\ Final(o.q) /\ o.rv \in Int
         /\ o.rv > 0 => Going(o.q)
         /\ o.rv # -1 /\ ~(o.rv > 0) /\ BeforeTimedOut(o.q) => o.q.bend = 0 /\ o.q.bstart = 0
<1>1. Typed(q) /\ q \in Connection
  BY DEF Final, Typed
<1>2. CASE q.bend # 0 /\ BeforeTimedOut(q)
  <2> DEFINE d == [q EXCEPT !.status = "DONE"]
  <2>1. Sound(q) /\ Whole(q) /\ "DONE" \in Status
    BY <1>2 DEF Final, Status
  <2>2. Sound(d) /\ Whole(d) /\ d.status = "DONE"
    BY <2>1, StatusOK
  <2>3. o \in req_flush(d)
    BY <1>2 DEF FinalFlush
  <2> HIDE DEF d
  <2>4. /\ Sound(o.q) /\ o.q.made = d.made /\ o.q.faults = d.faults /\ o.q.gone = d.gone
        /\ (Flawless(o.q) => Passed(o.q) = Passed(d))
        /\ o.rv \in Int /\ o.rv >= -2
        /\ (o.rv = -2 => ~BeforeTimedOut(o.q)) /\ (o.rv # -2 => o.q.status = "DONE")
        /\ (o.rv = 0 => o.q.bend = 0 /\ o.q.bstart = 0)
    BY <2>2, <2>3, FlushOK
  <2>5. Whole(o.q) /\ Typed(o.q)
    BY <2>2, <2>4 DEF Whole, Flawless, Sound
  <2>6. o.rv > 0 => Going(o.q)
    BY <2>4, <2>5, GoesOn
  <2>7. o.rv # -1 /\ ~(o.rv > 0) => o.rv = 0 \/ o.rv = -2
    BY <2>4
  <2> QED
    BY <2>4, <2>5, <2>6, <2>7 DEF Final
<1>3. CASE ~(q.bend # 0 /\ BeforeTimedOut(q))
  <2>1. o.rv = 0 /\ o.q = q
    BY <1>3 DEF FinalFlush, Outcome
  <2>2. BeforeTimedOut(q) => q.bend = 0 /\ q.bstart = 0
    BY <1>1, <1>3, Components DEF Final, Sound
  <2> QED
    BY <2>1, <2>2
<1> QED
  BY <1>2, <1>3

LEMMA KeptAliveOK ==
  ASSUME NEW q, Sound(q), Whole(q), Flawless(q) => q.bend = 0 /\ q.bstart = 0
  PROVE  Waiting(KeptAlive(q))
<1> DEFINE p == KeptAlive(q)
<1>1. q \in Connection /\ SentOK(q)
  BY DEF Sound, Typed
<1>2. /\ p \in Connection /\ p.status = "READ_HEADER" /\ p.bstart = 0 /\ p.bend = 0
      /\ p.hline = 0 /\ p.hend = 0 /\ p.made = q.made /\ p.sent = q.sent
      /\ p.faults = q.faults /\ p.gone = q.gone
  <2>1. <<>> \in Seq(Nat)
    OBVIOUS
  <2> QED
    BY <1>1, <2>1 DEF KeptAlive, Connection, Status
<1> HIDE DEF p
<1>3. Sound(p)
  BY <1>1, <1>2, Sizes, NoRun DEF Sound, Typed, SentOK, Follows
<1>4. Whole(p)
  BY <1>2 DEF Whole, Passed, Flawless
<1> QED
  BY <1>2, <1>3, <1>4 DEF Waiting, p

LEMMA FreeRequestOK == Inv /\ FreeRequest => Inv'
<1> SUFFICES ASSUME Inv, FreeRequest PROVE Inv'
  OBVIOUS
<1>1. Final(conn) /\ asked' = asked /\ asked \in 0..MaxAnswers /\ age' = 0
  BY DEF Inv, FreeRequest
<1>2. PICK o \in FinalFlush(conn) :
        LET q == IF o.rv = -1 THEN [o.q EXCEPT !.faults = @ \cup {"lost"}] ELSE o.q
        IN  IF o.rv > 0 THEN conn' = q /\ pc' = "flush"
            ELSE IF BeforeTimedOut(q) /\ q.ka THEN conn' = KeptAlive(q) /\ pc' = "idle"
            ELSE conn' = q /\ pc' = "closed"
  BY DEF FreeRequest
<1> DEFINE p == o.q
           f == p.faults \cup {"lost"}
           l == [p EXCEPT !.faults = f]
           q == IF o.rv = -1 THEN l ELSE p
<1>3. /\ Final(p) /\ o.rv \in Int /\ (o.rv > 0 => Going(p))
      /\ (o.rv # -1 /\ ~(o.rv > 0) /\ BeforeTimedOut(p) => p.bend = 0 /\ p.bstart = 0)
  BY <1>1, FinalFlushOK
<1>4. IF o.rv > 0 THEN conn' = q /\ pc' = "flush"
      ELSE IF BeforeTimedOut(q) /\ q.ka THEN conn' = KeptAlive(q) /\ pc' = "idle"
      ELSE conn' = q /\ pc' = "closed"
  BY <1>2
<1> HIDE DEF p
<1>5. Typed(p) /\ p \in Connection
  BY <1>3 DEF Final, Typed
<1>6. f \in SUBSET Faults /\ f # {}
  BY <1>5, Components DEF Faults
<1> HIDE DEF f
<1>7. /\ l \in Connection /\ l.faults = f /\ l.bend = p.bend /\ l.bstart = p.bstart
      /\ l.hline = p.hline /\ l.hend = p.hend /\ l.status = p.status
  BY <1>5, <1>6 DEF Connection
<1> HIDE DEF l
<1>8. Final(l) /\ ~Flawless(l)
  <2>1. ~Flawless(l) /\ SentOK(l)
    BY <1>6, <1>7 DEF Flawless, SentOK
  <2>2. Typed(l)
    BY <1>5, <1>7, <2>1 DEF Typed
  <2> QED
    BY <1>3, <1>7, <2>1, <2>2 DEF Final, BeforeTimedOut, Sound, Whole
<1>9. CASE o.rv > 0
  <2>1. conn' = p /\ pc' = "flush"
    BY <1>4, <1>9
  <2> QED
    BY <1>1, <1>3, <1>9, <2>1, Sizes DEF Inv, Locations, Working
<1>10. CASE ~(o.rv > 0)
  <2>1. Final(q) /\ (BeforeTimedOut(q) /\ Flawless(q) => q.bend = 0 /\ q.bstart = 0)
    BY <1>3, <1>8, <1>10
  <2> HIDE DEF q
  <2>2. CASE conn' = KeptAlive(q) /\ pc' = "idle" /\ BeforeTimedOut(q)
    <3>1. Sound(q) /\ Whole(q)
      BY <2>1, <2>2 DEF Final
    <3>2. Waiting(conn')
      BY <2>1, <2>2, <3>1, KeptAliveOK
    <3> QED
      BY <1>1, <2>2, <3>2, Sizes DEF Inv, Locations, Working
  <2>3. CASE conn' = q /\ pc' = "closed"
    BY <1>1, <2>1, <2>3, Sizes DEF Inv, Locations, Working
  <2> QED
    BY <1>4, <1>10, <2>2, <2>3
<1> QED
  BY <1>9, <1>10

LEMMA WakeOK == Inv /\ Wake => Inv'
<1> SUFFICES ASSUME Inv, Wake PROVE Inv'
  OBVIOUS
<1> DEFINE p == [conn EXCEPT !.status = "TIMED_OUT"]
<1>1. /\ Going(conn) /\ Typed(conn) /\ conn \in Connection /\ (conn' = p \/ conn' = conn)
      /\ pc' = "flush" /\ asked' = asked /\ age' = age
  BY DEF Inv, Wake, Going, Typed
<1>2. /\ p \in Connection /\ p.status = "TIMED_OUT" /\ p.bend = conn.bend
      /\ p.hline = conn.hline /\ p.hend = conn.hend /\ p.sent = conn.sent
      /\ p.faults = conn.faults
  BY <1>1 DEF Connection, Status
<1> HIDE DEF p
<1>3. Going(p)
  BY <1>1, <1>2 DEF Going, Typed, SentOK, BeforeTimedOut
<1>4. Going(conn')
  BY <1>1, <1>3
<1> QED
  BY <1>1, <1>4 DEF Inv, Locations, Working


\* The client and the file move on, whatever the server does.
LEMMA OutsideOK == Inv /\ (Drain \/ Reset \/ Truncate) => Inv'
<1> SUFFICES ASSUME Inv, Drain \/ Reset \/ Truncate PROVE Inv'
  OBVIOUS
<1>1. pc # "closed" /\ pc' = pc /\ asked' = asked /\ age' = age
  BY DEF Drain, Reset, Truncate
<1>2. conn \in Connection
  BY <1>1 DEF Inv, Locations, Working, Waiting, Going, Final, Sound, Typed
<1>3. /\ Waiting(conn) => Waiting(conn')
      /\ Going(conn) => Going(conn')
      /\ Final(conn) => Final(conn')
  <2>1. CASE Drain
    <3>1. PICK n \in (conn.room + 1)..SockSize : conn' = [conn EXCEPT !.room = n]
      BY <2>1 DEF Drain
    <3>2. n \in 0..SockSize
      BY <1>2, Components, Sizes
    <3>3. /\ conn' \in Connection /\ Stream(conn') = Stream(conn) /\ conn'.made = conn.made
          /\ conn'.status = conn.status /\ conn'.cgi = conn.cgi /\ conn'.kind = conn.kind
          /\ conn'.base = conn.base /\ conn'.hline = conn.hline /\ conn'.hend = conn.hend
          /\ conn'.parts = conn.parts
      BY <1>2, <3>1, <3>2 DEF Connection, Stream
    <3> QED
      BY <3>3, Unchanged
  <2>2. CASE Reset
    BY <1>2, <2>2, ResetOK DEF Reset
  <2>3. CASE Truncate
    <3>1. conn' = [conn EXCEPT !.cut = TRUE]
      BY <2>3 DEF Truncate
    <3>3. /\ conn' \in Connection /\ Stream(conn') = Stream(conn) /\ conn'.made = conn.made
          /\ conn'.status = conn.status /\ conn'.cgi = conn.cgi /\ conn'.kind = conn.kind
          /\ conn'.base = conn.base /\ conn'.hline = conn.hline /\ conn'.hend = conn.hend
          /\ conn'.parts = conn.parts
      BY <1>2, <3>1 DEF Connection, Stream
    <3> QED
      BY <3>3, Unchanged
  <2> QED
    BY <2>1, <2>2, <2>3
<1> QED
  BY <1>1, <1>3 DEF Inv

LEMMA TickOK == Inv /\ Tick => Inv'
<1> SUFFICES ASSUME Inv, Tick PROVE Inv'
  OBVIOUS
<1>1. age' \in 0..(RequestTimeout + 1)
  BY Sizes DEF Inv, Tick, Expired
<1>2. conn' = conn /\ pc' = pc /\ asked' = asked
  BY DEF Tick
<1> QED
  BY <1>1, <1>2 DEF Inv

LEMMA InvNext == Inv /\ [Next]_vars => Inv'
<1> SUFFICES ASSUME Inv, [Next]_vars PROVE Inv'
  OBVIOUS
<1>1. CASE NewRequest
  BY <1>1, NewRequestOK
<1>2. CASE Flush
  BY <1>2, FlushStepOK
<1>3. CASE HandleRequest
  BY <1>3, HandleStepOK
<1>4. CASE FreeRequest
  BY <1>4, FreeRequestOK
<1>5. CASE Wake
  BY <1>5, WakeOK
<1>6. CASE Drain \/ Reset \/ Truncate
  BY <1>6, OutsideOK
<1>7. CASE Tick
  BY <1>7, TickOK
<1>8. CASE Finished \/ UNCHANGED vars
  <2>1. conn' = conn /\ pc' = pc /\ asked' = asked /\ age' = age
    BY <1>8 DEF Finished, vars
  <2> QED
    BY <2>1 DEF Inv
<1> QED
  BY <1>1, <1>2, <1>3, <1>4, <1>5, <1>6, <1>7, <1>8 DEF Next, LoopStep

\* Of every state of the connection, also after a timeout or an error.
LEMMA InvTyped == Inv => Typed(conn)
  BY DEF Inv, Locations, Working, Waiting, Going, Final, Sound

LEMMA InvTypeOK == Inv => TypeOK
<1> SUFFICES ASSUME Inv PROVE TypeOK
  OBVIOUS
<1>1. Typed(conn)
  BY InvTyped
<1>2. BeforeTimedOut(conn) => Sound(conn)
  <2>1. CASE pc = "idle"
    BY <2>1 DEF Inv, Waiting
  <2>2. CASE pc \in {"flush", "handle", "blocked"}
    BY <2>2, GoingSound DEF Inv
  <2>3. CASE pc \in {"free", "closed"}
    BY <2>3 DEF Inv, Final
  <2> QED
    BY <2>1, <2>2, <2>3 DEF Inv, Locations, Working
<1> QED
  BY <1>1, <1>2 DEF TypeOK, Inv, Typed, Sound

LEMMA InvOrderKept == Inv => OrderKept
<1> SUFFICES ASSUME Inv, conn.faults = {}, NEW i \in DOMAIN conn.sent PROVE conn.sent[i] = i
  BY DEF OrderKept, InOrder
<1>1. Typed(conn)
  BY InvTyped
<1>2. conn.sent \in Seq(Nat)
  BY <1>1, Components DEF Typed
<1>3. i \in 1..Len(conn.sent)
  BY <1>2
<1> QED
  BY <1>1, <1>3 DEF Typed, SentOK

LEMMA InvAnswerWhole == Inv => AnswerWhole
<1> SUFFICES ASSUME Inv, pc \in {"idle", "closed"}, conn.faults = {}, BeforeTimedOut(conn),
                    ~conn.gone
             PROVE  Len(conn.sent) = conn.made
  BY DEF AnswerWhole
<1>1. Sound(conn) /\ Whole(conn) /\ Flawless(conn) /\ conn.bend = 0
  BY DEF Inv, Waiting, Final, Flawless
<1>2. conn \in Connection /\ conn.bstart <= conn.bend
  BY <1>1 DEF Sound, Typed
<1>3. conn.bstart \in Nat /\ conn.bend \in Nat /\ Len(conn.sent) \in Nat
  BY <1>2, Components
<1>4. conn.bstart = 0
  BY <1>1, <1>2, <1>3
<1> QED
  BY <1>1, <1>3, <1>4 DEF Whole, Passed

-----------------------------------------------------------------------------
\* The bytes of the answers lie where the inductive invariant says they do, in
\* every state process_requests, the handlers and free_request can reach.
THEOREM InvAlways == Spec => []Inv
<1>1. Init => Inv
  BY InvInit
<1>2. Inv /\ [Next]_vars => Inv'
  BY InvNext
<1> QED
  BY <1>1, <1>2, PTL DEF Spec

\* buffer_start never passes buffer_end and neither leaves the buffer; nor does
\* the window read_from_pipe and write_from_pipe move through it, nor a part
\* header or a moved-up CGI header push it out.
THEOREM TypeCorrect == Spec => []TypeOK
<1>1. Inv => TypeOK
  BY InvTypeOK
<1> QED
  BY <1>1, InvAlways, PTL

\* Whatever the socket takes at a time, a client is sent the bytes of its
\* answers in order, unless free_request dropped some or a handler's own write
\* passed bytes a partial req_flush had left.
THEOREM OrderAlwaysKept == Spec => []OrderKept
<1>1. Inv => OrderKept
  BY InvOrderKept
<1> QED
  BY <1>1, InvAlways, PTL

\* A connection that returns to reading headers, or was closed in an orderly
\* way, was sent everything that was produced for it: nothing stays behind in
\* the buffer or in the pipe's window.
THEOREM AnswersWhole == Spec => []AnswerWhole
<1>1. Inv => AnswerWhole
  BY InvAnswerWhole
<1> QED
  BY <1>1, InvAlways, PTL

=============================================================================
