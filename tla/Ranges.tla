------------------------------- MODULE Ranges -------------------------------
(***************************************************************************)
(* Byte ranges (range.c) from the Range header to the last byte sent:      *)
(* range_parse and its state table, ranges_fixup once the file size is     *)
(* known, the parts of the answer (send_r_partial_content, process_get or  *)
(* io_shuffle_sendfile, complete_response), and the pool the Range         *)
(* structures come from and go back to.                                    *)
(*                                                                         *)
(* One connection; a request may carry several Range headers.  Arithmetic  *)
(* is that of the build: int, unsigned int and unsigned long are the       *)
(* ranges 0..IntMax, 0..UIntMax and 0..ULongMax, and -1 assigned to an     *)
(* unsigned long is ULongMax.  On LP64 UIntMax < ULongMax.                 *)
(*                                                                         *)
(* PushedTooWide, SubmitAlone, ClampedLate, LeakedHead and SendsShort are  *)
(* Pushed, Submit, Clamped, PopHead and Finished with a fault in them;     *)
(* nothing uses them.                                                      *)
(***************************************************************************)
EXTENDS Integers, Sequences

CONSTANTS
  IntMax, UIntMax, ULongMax,   \* INT_MAX, (unsigned) -1, (unsigned long) -1
  Digits,                      \* the digits clients use
  FileSizes,                   \* the sizes of files, none of them empty
  MaxInput,                    \* bound: characters of all Range headers
  MaxHeaders                   \* bound: Range headers of a request

ASSUME WidthAssumption ==
  /\ IntMax \in Nat /\ UIntMax \in Nat /\ ULongMax \in Nat
  /\ IntMax < UIntMax /\ UIntMax <= ULongMax
ASSUME DigitsAssumption == Digits \subseteq 0..9
ASSUME SizesAssumption == FileSizes \subseteq 1..(ULongMax \div 2)
ASSUME BoundsAssumption == MaxInput \in Nat /\ MaxHeaders \in Nat

VARIABLES
  phase,      \* "headers", "parse", "fixup", "serve", "done", "refused"
  mode,       \* mode of range_parse
  start,      \* start of range_parse
  stop,       \* stop of range_parse
  ranges,     \* req->ranges
  rest,       \* the ranges ranges_fixup has yet to look at
  numranges,  \* req->numranges
  filesize,   \* req->filesize
  partial,    \* response_status is R_PARTIAL_CONTENT
  pool,       \* length of range_pool
  made,       \* Range structures allocated so far
  headers,    \* Range headers seen
  input,      \* history: their characters
  parts,      \* history: the range each part of the answer began with
  announced,  \* history: the numbers printed in its headers
  sent,       \* history: bytes of the present part sent
  full        \* history: bytes of each finished part sent

parser == <<mode, start, stop>>
request == <<ranges, rest, numranges, filesize, partial>>
storage == <<pool, made>>
answer  == <<parts, announced, sent, full>>
history == <<input, answer>>
vars == <<phase, parser, request, storage, headers, history>>

ULong  == 0..ULongMax
ByteRange == [start : ULong, stop : ULong]
Heading == [start : 0..UIntMax, stop : 0..UIntMax, size : 0..UIntMax, length : 0..UIntMax]
Modes  == {"initial", "startnum", "gap1", "gap2", "stopnum"}

\* a character is its code and, for a digit, its value
digit  == 1
white  == 2
comma  == 3
hyphen == 4
null   == 5
other  == 6
Null   == <<null, 0>>
Chars  == {<<digit, d>> : d \in Digits} \cup {<<k, 0>> : k \in {white, comma, hyphen, null, other}}

TypeOK ==
  /\ phase \in {"headers", "parse", "fixup", "serve", "done", "refused"}
  /\ mode \in Modes /\ start \in ULong /\ stop \in ULong
  /\ ranges \in Seq(ByteRange) /\ rest \in Seq(ByteRange)
  /\ numranges \in Nat
  /\ filesize \in FileSizes \cup {0}
  /\ partial \in BOOLEAN
  /\ pool \in Nat /\ made \in Nat
  /\ headers \in 0..MaxHeaders
  /\ input \in Seq(Chars)
  /\ parts \in Seq(ByteRange) /\ announced \in Seq(Heading)
  /\ sent \in Nat /\ full \in Seq(Nat)

Init ==
  /\ phase = "headers"
  /\ mode = "initial" /\ start = 0 /\ stop = 0
  /\ ranges = <<>> /\ rest = <<>> /\ numranges = 0
  /\ filesize = 0 /\ partial = FALSE
  /\ headers = 0
  /\ input = <<>> /\ parts = <<>> /\ announced = <<>> /\ sent = 0 /\ full = <<>>
  /\ pool = 0 /\ made = 0

-----------------------------------------------------------------------------
\* range_pool_pop and range_pool_push
Pop     == IF pool > 0 THEN pool' = pool - 1 /\ made' = made
           ELSE pool' = pool /\ made' = made + 1
Push(n) == pool' = pool + n /\ UNCHANGED made

(***************************************************************************)
(* process_option_line at a Range header.  A first range ending at INT_MAX *)
(* is taken for the mark of an earlier error and the header is ignored;    *)
(* a value that does not begin with "bytes=" is refused.                   *)
(***************************************************************************)
MarkedAborted == ranges # <<>> /\ Head(ranges).stop = IntMax

HeaderSeen == phase = "headers" /\ headers < MaxHeaders /\ headers' = headers + 1

IgnoreHeader ==
  /\ HeaderSeen
  /\ MarkedAborted
  /\ UNCHANGED <<phase, parser, request, storage, history>>

WrongUnit ==
  /\ HeaderSeen
  /\ ~MarkedAborted
  /\ phase' = "refused"
  /\ UNCHANGED <<parser, request, storage, history>>

BeginParse ==
  /\ HeaderSeen
  /\ ~MarkedAborted
  /\ phase' = "parse"
  /\ mode' = "initial" /\ start' = 0 /\ stop' = 0
  /\ UNCHANGED <<request, storage, history>>

(***************************************************************************)
(* The state table of range_parse: what to do with the number (PB and PE   *)
(* push a digit, DB and DE disable an end), what to do with the range (AR  *)
(* abort, SR submit) and the next state, by character code.                *)
(***************************************************************************)
AR    == <<"-", "AR", "initial">>
Go(m) == <<"-", "-", m>>
PB    == <<"PB", "-", "startnum">>
PE    == <<"PE", "-", "stopnum">>
SR    == <<"-", "SR", "initial">>
DE_SR == <<"DE", "SR", "initial">>

stable(m) ==
  \*                        digit  white          comma          hyphen               null           other
  CASE m = "initial"  -> << PB,    Go("initial"), Go("initial"), <<"DB", "-", "gap2">>, Go("initial"), AR >>
    [] m = "startnum" -> << PB,    Go("gap1"),    AR,            Go("gap2"),          AR,            AR >>
    [] m = "gap1"     -> << AR,    Go("gap1"),    AR,            Go("gap2"),          AR,            AR >>
    [] m = "gap2"     -> << PE,    Go("gap2"),    DE_SR,         AR,                  DE_SR,         AR >>
    [] m = "stopnum"  -> << PE,    SR,            SR,            AR,                  SR,            AR >>

PushedTooWide(n, c) == n * 10 + c[2]
Pushed(n, c) == (n * 10 + c[2]) % (ULongMax + 1)

NewStart(f, c) == CASE f[1] = "PB" -> Pushed(start, c) [] f[1] = "DB" -> ULongMax
                    [] OTHER -> start
NewStop(f, c)  == CASE f[1] = "PE" -> Pushed(stop, c) [] f[1] = "DE" -> ULongMax
                    [] OTHER -> stop

\* range_abort, then send_r_invalid_range: a Range with stop = -1 is left
Abort ==
  /\ phase' = "refused"
  /\ ranges' = <<[start |-> 0, stop |-> ULongMax]>>
  /\ IF pool + Len(ranges) > 0
     THEN pool' = pool + Len(ranges) - 1 /\ UNCHANGED made
     ELSE made' = made + 1 /\ UNCHANGED pool
  /\ UNCHANGED <<parser, rest, numranges, filesize, partial>>

\* range_add at the end of the list
SubmitAlone(a, b) ==
  /\ ranges' = <<[start |-> a, stop |-> b]>>
  /\ numranges' = numranges + 1
  /\ Pop

Submit(a, b) ==
  /\ ranges' = Append(ranges, [start |-> a, stop |-> b])
  /\ numranges' = numranges + 1
  /\ Pop

\* range_parse takes one character
ParseChar(c) ==
  LET f == stable(mode)[c[1]]
      a == NewStart(f, c)
      b == NewStop(f, c)
      neither == a = b /\ a = UIntMax
  IN
  /\ phase = "parse"
  /\ Len(input) < MaxInput \/ c = Null
  /\ input' = Append(input, c)
  /\ \/ (f[2] = "AR" \/ (f[2] = "SR" /\ neither)) /\ Abort
     \/ /\ f[2] = "SR" /\ ~neither
        /\ Submit(a, b)
        /\ start' = 0 /\ stop' = 0 /\ mode' = f[3]
        /\ phase' = IF c = Null THEN "headers" ELSE "parse"
        /\ UNCHANGED <<rest, filesize, partial>>
     \/ /\ f[2] = "-"
        /\ start' = a /\ stop' = b /\ mode' = f[3]
        /\ phase' = IF c = Null THEN "headers" ELSE "parse"
        /\ UNCHANGED <<request, storage>>
  /\ UNCHANGED <<headers, answer>>

-----------------------------------------------------------------------------
(***************************************************************************)
(* init_get knows the size of the file.  Without ranges a whole-file range *)
(* is made up and the answer is 200; otherwise it is 206.                  *)
(***************************************************************************)
WholeFile == [start |-> 0, stop |-> ULongMax]

InitGet ==
  /\ phase = "headers"
  /\ \E n \in FileSizes : filesize' = n
  /\ phase' = "fixup"
  /\ ranges' = <<>>
  /\ partial' = (ranges # <<>>)
  /\ IF ranges = <<>> THEN rest' = <<WholeFile>> /\ Pop
     ELSE rest' = ranges /\ UNCHANGED storage
  /\ UNCHANGED <<parser, numranges, headers, history>>

\* ranges_fixup: a missing or too large stop
ClampedLate(r) ==
  IF r.stop = UIntMax \/ r.stop > filesize THEN [r EXCEPT !.stop = filesize - 1] ELSE r

Clamped(r) ==
  IF r.stop = UIntMax \/ r.stop >= filesize THEN [r EXCEPT !.stop = filesize - 1] ELSE r

\* a missing start: the last stop bytes
Fixed(r) ==
  LET c == Clamped(r)
  IN  IF c.start = ULongMax
      THEN [start |-> (filesize - c.stop) % (ULongMax + 1), stop |-> filesize - 1]
      ELSE c

\* (long) r->start < 0 || r->start > r->stop
Invalid(r) == r.start > ULongMax \div 2 \/ r.start > r.stop

FixupStep ==
  /\ phase = "fixup"
  /\ rest # <<>>
  /\ LET r == Fixed(Head(rest))
     IN  IF Invalid(r) THEN Push(1) /\ UNCHANGED ranges
         ELSE ranges' = Append(ranges, r) /\ UNCHANGED storage
  /\ rest' = Tail(rest)
  /\ UNCHANGED <<phase, parser, numranges, filesize, partial, headers, history>>

FixupFails ==
  /\ phase = "fixup" /\ rest = <<>> /\ ranges = <<>>
  /\ phase' = "refused"
  /\ UNCHANGED <<parser, request, storage, headers, history>>

\* Numbers are printed as unsigned ints.
simple_itoa(n) == n % (UIntMax + 1)

(***************************************************************************)
(* The numbers in the headers of a part: Content-Range in a 206, and       *)
(* Content-Length, which a multipart answer leaves out, in a 206 or a 200  *)
(* (whose only range is the file).                                         *)
(***************************************************************************)
Printed(r) ==
  [start |-> simple_itoa(r.start), stop |-> simple_itoa(r.stop),
   size |-> simple_itoa(filesize), length |-> simple_itoa(r.stop - r.start + 1)]

Multipart == partial /\ numranges > 1

\* send_r_request_ok or send_r_partial_content: the first part is announced
FixupSucceeds ==
  /\ phase = "fixup" /\ rest = <<>> /\ ranges # <<>>
  /\ phase' = "serve"
  /\ parts' = <<Head(ranges)>>
  /\ announced' = <<Printed(Head(ranges))>>
  /\ UNCHANGED <<parser, request, storage, headers, input, sent, full>>

(***************************************************************************)
(* A write advances start by what was written; at the end of the range     *)
(* complete_response gives it back to the pool and announces the next part *)
(* of a multipart answer, or the answer is done.                           *)
(***************************************************************************)
SendsShort(r) == r.start >= r.stop
Finished(r)   == r.start >= r.stop + 1

LeakedHead == ranges' = Tail(ranges) /\ UNCHANGED storage
PopHead    == ranges' = Tail(ranges) /\ Push(1)

complete_response ==
  /\ PopHead
  /\ IF Multipart /\ Tail(ranges) # <<>>
     THEN /\ parts' = Append(parts, Head(Tail(ranges)))
          /\ announced' = Append(announced, Printed(Head(Tail(ranges))))
          /\ UNCHANGED phase
     ELSE phase' = "done" /\ UNCHANGED <<parts, announced>>

Write ==
  /\ phase = "serve"
  /\ \E n \in 1..(Head(ranges).stop - Head(ranges).start + 1) :
       LET r == [Head(ranges) EXCEPT !.start = @ + n]
       IN  IF Finished(r)
           THEN complete_response /\ full' = Append(full, sent + n) /\ sent' = 0
           ELSE /\ ranges' = <<r>> \o Tail(ranges)
                /\ sent' = sent + n
                /\ UNCHANGED <<phase, parts, announced, full, storage>>
  /\ UNCHANGED <<parser, rest, numranges, filesize, partial, headers, input>>

\* free_request, also of a request that is cut short: ranges_reset, and the
\* request starts afresh
Settled == phase \notin {"parse", "fixup"}

FreeRequest ==
  /\ Settled
  /\ headers > 0 \/ phase # "headers"
  /\ Push(Len(ranges))
  /\ phase' = "headers"
  /\ mode' = "initial" /\ start' = 0 /\ stop' = 0
  /\ ranges' = <<>> /\ rest' = <<>> /\ numranges' = 0
  /\ filesize' = 0 /\ partial' = FALSE
  /\ headers' = 0
  /\ input' = <<>> /\ parts' = <<>> /\ announced' = <<>> /\ sent' = 0 /\ full' = <<>>

\* sighup_run: range_pool_empty
EmptyPool ==
  /\ Settled
  /\ pool > 0
  /\ pool' = 0
  /\ made' = made - pool
  /\ UNCHANGED <<phase, parser, request, headers, history>>

Next ==
  \/ IgnoreHeader \/ WrongUnit \/ BeginParse
  \/ \E c \in Chars : ParseChar(c)
  \/ InitGet \/ FixupStep \/ FixupFails \/ FixupSucceeds
  \/ Write \/ FreeRequest \/ EmptyPool

Spec == Init /\ [][Next]_vars

-----------------------------------------------------------------------------
\* range.c, ranges_fixup: "r->stop and r->start are now both guaranteed <
\* req->filesize".  Whatever a client wrote, wrapped numbers included, the
\* bytes sent lie inside the file.
InsideFile ==
  phase = "serve" =>
    \A i \in 1..Len(ranges) :
      ranges[i].start <= ranges[i].stop /\ ranges[i].stop < filesize

\* Every Range structure is in the request's list or in the pool, through
\* aborted headers, dropped ranges, finished parts and broken connections.
NoRangeLost == made = pool + Len(ranges) + Len(rest)

\* Of a file whose size an unsigned int holds, each part carries exactly the
\* bytes its headers announced, in whatever pieces the socket took them.  (Of
\* a larger file simple_itoa prints other numbers than those of the range.)
PartsAreWhole ==
  filesize <= UIntMax =>
    /\ \A i \in 1..Len(full) :
         /\ announced[i].size = filesize
         /\ full[i] = announced[i].stop - announced[i].start + 1
         /\ ~Multipart => full[i] = announced[i].length
    /\ phase = "serve" =>
         /\ Len(announced) = Len(full) + 1
         /\ Head(ranges).stop = announced[Len(announced)].stop
         /\ Head(ranges).start = announced[Len(announced)].start + sent
    /\ phase = "done" => Len(announced) = Len(full) /\ ranges = <<>>
=============================================================================
