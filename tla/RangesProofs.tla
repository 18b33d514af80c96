---------------------------- MODULE RangesProofs ----------------------------
(***************************************************************************)
(* For all widths of the integer types, all file sizes and all headers:    *)
(* the ranges sent lie inside the file and no Range structure is lost.     *)
(* InsideFile speaks of the serving phase only; the invariant that carries *)
(* it also covers the ranges ranges_fixup has already looked at. The       *)
(* second half relates them to the text of the header: AskedInv says at    *)
(* every step which pieces of the text the parser, ranges_fixup and the    *)
(* parts already sent stand for.                                           *)
(***************************************************************************)
EXTENDS RangeSyntax, SequenceTheorems, FiniteSetTheorems, TLAPS

Inside(r) == r.start <= r.stop /\ r.stop < filesize

FixedInside ==
  phase \in {"fixup", "serve"} =>
    /\ filesize \in FileSizes
    /\ \A i \in 1..Len(ranges) : Inside(ranges[i])

ServesSomething == phase = "serve" => ranges # <<>>

OnlyFixupHasRest == phase # "fixup" => rest = <<>>

Inv == TypeOK /\ FixedInside /\ ServesSomething /\ OnlyFixupHasRest /\ NoRangeLost

-----------------------------------------------------------------------------
\* The entries of the state table.
LEMMA TableType ==
  ASSUME NEW m \in Modes, NEW c \in Chars
  PROVE  /\ stable(m)[c[1]][3] \in Modes
         /\ c[2] \in Nat
         /\ stable(m)[c[1]][2] \in {"-", "AR", "SR"}
<1>1. c[1] \in 1..6 /\ c[2] \in Nat
  BY DigitsAssumption DEF Chars, digit, white, comma, hyphen, null, other
<1>2. CASE m = "initial"
  BY <1>1, <1>2 DEF stable, AR, Go, PB, PE, SR, DE_SR, Modes
<1>3. CASE m = "startnum"
  BY <1>1, <1>3 DEF stable, AR, Go, PB, PE, SR, DE_SR, Modes
<1>4. CASE m = "gap1"
  BY <1>1, <1>4 DEF stable, AR, Go, PB, PE, SR, DE_SR, Modes
<1>5. CASE m = "gap2"
  BY <1>1, <1>5 DEF stable, AR, Go, PB, PE, SR, DE_SR, Modes
<1>6. CASE m = "stopnum"
  BY <1>1, <1>6 DEF stable, AR, Go, PB, PE, SR, DE_SR, Modes
<1> QED BY <1>1, <1>2, <1>3, <1>4, <1>5, <1>6 DEF Modes

\* A pushed digit stays within unsigned long: the product wraps.
LEMMA PushedType ==
  ASSUME NEW n \in ULong, NEW c, c[2] \in Nat
  PROVE  Pushed(n, c) \in ULong
<1>1. n * 10 + c[2] \in Nat /\ ULongMax + 1 \in Nat /\ ULongMax + 1 > 0
  BY WidthAssumption DEF ULong
<1>2. ASSUME NEW a \in Nat, NEW b \in Nat, b > 0 PROVE a % b \in 0..b - 1
  BY <1>2
<1>3. (n * 10 + c[2]) % (ULongMax + 1) \in 0..(ULongMax + 1) - 1
  BY <1>1, <1>2
<1>4. (ULongMax + 1) - 1 = ULongMax
  BY WidthAssumption
<1> QED BY <1>3, <1>4 DEF Pushed, ULong

\* ranges_fixup on one range, wrapped and disabled ends included: it comes
\* out inside the file unless it is dropped.
LEMMA FixedRange ==
  ASSUME NEW r \in ByteRange, filesize \in FileSizes
  PROVE  /\ Fixed(r) \in ByteRange
         /\ ~Invalid(Fixed(r)) => Inside(Fixed(r))
<1> DEFINE c == Clamped(r)
<1>1. /\ r.start \in 0..ULongMax /\ r.stop \in 0..ULongMax /\ ULongMax \in Nat
      /\ r = [start |-> r.start, stop |-> r.stop]
  BY WidthAssumption DEF ByteRange, ULong
<1>2. filesize \in Nat /\ 1 <= filesize /\ filesize <= ULongMax \div 2
  BY SizesAssumption, WidthAssumption
<1>3. ULongMax \div 2 <= ULongMax
  BY WidthAssumption
<1>4. /\ c \in ByteRange /\ c.start = r.start /\ c.stop < filesize
      /\ c.stop \in Nat /\ c = [start |-> c.start, stop |-> c.stop]
  BY <1>1, <1>2, <1>3 DEF Clamped, ByteRange, ULong
<1>5. filesize - c.stop \in 1..filesize
  BY <1>2, <1>4
<1>6. CASE c.start = ULongMax
  <2>1. (filesize - c.stop) % (ULongMax + 1) = filesize - c.stop
    <3>1. ASSUME NEW a \in Nat, NEW b \in Nat, a < b PROVE a % b = a
      BY <3>1
    <3>2. filesize - c.stop \in Nat /\ ULongMax + 1 \in Nat /\ filesize - c.stop < ULongMax + 1
      BY <1>1, <1>2, <1>3, <1>5
    <3> QED BY <3>1, <3>2
  <2>2. Fixed(r) = [start |-> filesize - c.stop, stop |-> filesize - 1]
    BY <1>6, <2>1 DEF Fixed
  <2>3. filesize - c.stop \in 0..ULongMax /\ filesize - 1 \in 0..ULongMax
    BY <1>1, <1>2, <1>3, <1>5
  <2>4. Fixed(r) \in ByteRange
    BY <2>2, <2>3 DEF ByteRange, ULong
  <2>5. Fixed(r).stop < filesize
    BY <2>2, <1>2
  <2> QED BY <2>2, <2>3, <2>4, <2>5 DEF Invalid, Inside
<1>7. CASE c.start # ULongMax
  <2>1. Fixed(r) = c
    BY <1>7 DEF Fixed
  <2> HIDE DEF c
  <2>2. c.start \in Nat /\ c.stop \in Nat
    BY <1>4, WidthAssumption DEF ByteRange, ULong
  <2>3. ~Invalid(c) => Inside(c)
    BY <1>4, <2>2 DEF Invalid, Inside
  <2> QED BY <1>4, <2>1, <2>3
<1> QED BY <1>6, <1>7

\* The numbers printed are unsigned ints; one that fits is printed as it is.
LEMMA Itoa ==
  ASSUME NEW n \in Nat
  PROVE  simple_itoa(n) \in 0..UIntMax /\ (n <= UIntMax => simple_itoa(n) = n)
<1>1. UIntMax \in Nat /\ UIntMax + 1 \in Nat /\ UIntMax + 1 > 0
  BY WidthAssumption
<1>2. ASSUME NEW a \in Nat, NEW b \in Nat, b > 0
      PROVE  a % b \in 0..b - 1 /\ (a < b => a % b = a)
  BY <1>2
<1>3. n % (UIntMax + 1) \in 0..(UIntMax + 1) - 1 /\ (n < UIntMax + 1 => n % (UIntMax + 1) = n)
  BY <1>1, <1>2
<1>4. (UIntMax + 1) - 1 = UIntMax /\ (n <= UIntMax => n < UIntMax + 1)
  BY <1>1
<1> QED BY <1>3, <1>4 DEF simple_itoa

LEMMA InsideNumbers ==
  ASSUME NEW r \in ByteRange, Inside(r), filesize \in FileSizes \cup {0}
  PROVE  /\ r.start \in Nat /\ r.stop \in Nat /\ filesize \in Nat
         /\ r.stop - r.start + 1 \in Nat /\ r.stop - r.start + 1 <= filesize
<1>1. r.start \in Nat /\ r.stop \in Nat /\ filesize \in Nat
  BY WidthAssumption, SizesAssumption DEF ByteRange, ULong
<1> QED BY <1>1 DEF Inside

LEMMA PrintedOK ==
  ASSUME NEW r \in ByteRange, Inside(r), filesize \in FileSizes \cup {0}
  PROVE  /\ Printed(r) \in Heading
         /\ filesize <= UIntMax =>
              /\ Printed(r).start = r.start /\ Printed(r).stop = r.stop
              /\ Printed(r).size = filesize /\ Printed(r).length = r.stop - r.start + 1
<1> DEFINE n == r.stop - r.start + 1
<1>1. r.start \in Nat /\ r.stop \in Nat /\ filesize \in Nat /\ n \in Nat /\ n <= filesize
  BY InsideNumbers
<1>2. /\ simple_itoa(r.start) \in 0..UIntMax /\ simple_itoa(r.stop) \in 0..UIntMax
      /\ simple_itoa(filesize) \in 0..UIntMax /\ simple_itoa(n) \in 0..UIntMax
  BY <1>1, Itoa
<1>3. ASSUME filesize <= UIntMax
      PROVE  /\ simple_itoa(r.start) = r.start /\ simple_itoa(r.stop) = r.stop
             /\ simple_itoa(filesize) = filesize /\ simple_itoa(n) = n
  <2>1. r.start <= UIntMax /\ r.stop <= UIntMax /\ n <= UIntMax
    BY <1>1, <1>3, WidthAssumption DEF Inside
  <2> QED BY <1>1, <1>3, <2>1, Itoa
<1> QED BY <1>2, <1>3 DEF Printed, Heading

-----------------------------------------------------------------------------
\* A request without ranges and an empty pool.
LEMMA InitInv == Init => Inv
<1> SUFFICES ASSUME Init PROVE Inv
  OBVIOUS
<1>1. 0 \in ULong /\ 0 \in 0..MaxHeaders /\ "initial" \in Modes
  BY WidthAssumption, BoundsAssumption DEF ULong, Modes
<1>2. <<>> \in Seq(ByteRange) /\ <<>> \in Seq(Nat) /\ <<>> \in Seq(Chars) /\ <<>> \in Seq(Heading)
  OBVIOUS
<1>3. TypeOK
  BY <1>1, <1>2 DEF Init, TypeOK
<1>4. NoRangeLost
  BY DEF Init, NoRangeLost
<1> QED BY <1>3, <1>4 DEF Init, Inv, FixedInside, ServesSomething, OnlyFixupHasRest

\* Appending keeps what holds of all elements.
LEMMA AppendInside ==
  ASSUME NEW s \in Seq(ByteRange), NEW r \in ByteRange, Inside(r),
         \A i \in 1..Len(s) : Inside(s[i])
  PROVE  \A i \in 1..Len(Append(s, r)) : Inside(Append(s, r)[i])
OBVIOUS

\* The actions that meet a Range header.
LEMMA HeaderInv ==
  ASSUME Inv, IgnoreHeader \/ WrongUnit \/ BeginParse
  PROVE  Inv'
<1> USE DEF HeaderSeen, parser, request, storage, history, answer
<1>1. phase = "headers" /\ headers' \in 0..MaxHeaders
  BY BoundsAssumption DEF IgnoreHeader, WrongUnit, BeginParse, Inv, TypeOK
<1>2. 0 \in ULong /\ "initial" \in Modes
  BY WidthAssumption DEF ULong, Modes
<1>3. TypeOK'
  BY <1>1, <1>2 DEF IgnoreHeader, WrongUnit, BeginParse, Inv, TypeOK
<1>4. phase' \notin {"fixup", "serve"} /\ UNCHANGED <<ranges, rest, pool, made>>
  BY <1>1 DEF IgnoreHeader, WrongUnit, BeginParse
<1> QED BY <1>1, <1>3, <1>4
        DEF Inv, FixedInside, ServesSomething, OnlyFixupHasRest, NoRangeLost

\* range_parse: the structure of every range submitted, and the one left by
\* range_abort, are accounted for.
LEMMA ParseInv ==
  ASSUME Inv, NEW c \in Chars, ParseChar(c)
  PROVE  Inv'
<1> USE DEF Inv, TypeOK
<1> DEFINE f == stable(mode)[c[1]]
           a == NewStart(f, c)
           b == NewStop(f, c)
           neither == a = b /\ a = UIntMax
<1>1. f[3] \in Modes /\ c[2] \in Nat
  BY TableType
<1>2. a \in ULong /\ b \in ULong
  <2>1. ULongMax \in ULong
    BY WidthAssumption DEF ULong
  <2> HIDE DEF f
  <2> QED BY <2>1, <1>1, PushedType DEF NewStart, NewStop
<1> HIDE DEF f, a, b
<1>3. /\ phase = "parse"
      /\ input' = Append(input, c)
      /\ UNCHANGED <<headers, parts, announced, sent, full>>
      /\ \/ Abort
         \/ /\ Submit(a, b) /\ start' = 0 /\ stop' = 0 /\ mode' = f[3]
            /\ phase' = IF c = Null THEN "headers" ELSE "parse"
            /\ UNCHANGED <<rest, filesize, partial>>
         \/ /\ start' = a /\ stop' = b /\ mode' = f[3]
            /\ phase' = IF c = Null THEN "headers" ELSE "parse"
            /\ UNCHANGED <<request, storage>>
  BY DEF ParseChar, answer, f, a, b, neither
<1>4. input' \in Seq(Chars)
  BY <1>3
<1>5. CASE Abort
  BY <1>3, <1>4, <1>5, WidthAssumption
     DEF Abort, FixedInside, ServesSomething, OnlyFixupHasRest, NoRangeLost, parser, ByteRange, ULong
<1>6. CASE /\ Submit(a, b) /\ start' = 0 /\ stop' = 0 /\ mode' = f[3]
           /\ phase' = IF c = Null THEN "headers" ELSE "parse"
           /\ UNCHANGED <<rest, filesize, partial>>
  <2>1. [start |-> a, stop |-> b] \in ByteRange
    BY <1>2 DEF ByteRange
  <2>2. ranges' \in Seq(ByteRange) /\ Len(ranges') = Len(ranges) + 1
    BY <1>6, <2>1 DEF Submit
  <2>3. pool' \in Nat /\ made' \in Nat /\ made' = made + pool' - pool + 1
    BY <1>6 DEF Submit, Pop
  <2>4. NoRangeLost'
    <3>1. Len(ranges) \in Nat /\ Len(rest) \in Nat /\ Len(ranges') \in Nat
      BY <2>2
    <3>2. made = pool + Len(ranges) + Len(rest) /\ rest' = rest
      BY <1>6 DEF NoRangeLost
    <3>3. made \in Nat /\ pool \in Nat
      OBVIOUS
    <3>4. made' = pool' + Len(ranges') + Len(rest')
      BY <2>2, <2>3, <3>1, <3>2, <3>3
    <3> QED BY <3>4 DEF NoRangeLost
  <2>5. 0 \in ULong /\ numranges' \in Nat
    BY <1>6, WidthAssumption DEF Submit, ULong
  <2> QED BY <1>1, <1>3, <1>4, <1>6, <2>2, <2>3, <2>4, <2>5 DEF FixedInside, ServesSomething, OnlyFixupHasRest
<1>7. CASE /\ start' = a /\ stop' = b /\ mode' = f[3]
           /\ phase' = IF c = Null THEN "headers" ELSE "parse"
           /\ UNCHANGED <<request, storage>>
  BY <1>1, <1>2, <1>3, <1>4, <1>7
     DEF FixedInside, ServesSomething, OnlyFixupHasRest, NoRangeLost, request, storage
<1> QED BY <1>3, <1>5, <1>6, <1>7

\* init_get and ranges_fixup: what is kept lies inside the file.
LEMMA FixupInv ==
  ASSUME Inv, InitGet \/ FixupStep \/ FixupFails \/ FixupSucceeds
  PROVE  Inv'
<1> USE DEF Inv, TypeOK, NoRangeLost
<1>1. CASE InitGet
  <2>1. WholeFile \in ByteRange
    BY WidthAssumption DEF WholeFile, ByteRange, ULong
  <2>2. rest = <<>> /\ phase' = "fixup" /\ ranges' = <<>> /\ filesize' \in FileSizes
    BY <1>1 DEF InitGet, OnlyFixupHasRest
  <2>3. /\ rest' \in Seq(ByteRange) /\ pool' \in Nat /\ made' \in Nat
        /\ made' = pool' + Len(rest')
    <3>1. CASE ranges = <<>>
      <4>1. rest' = <<WholeFile>> /\ Pop
        BY <1>1, <3>1 DEF InitGet
      <4>2. rest' \in Seq(ByteRange) /\ Len(rest') = 1
        BY <4>1, <2>1
      <4>3. made = pool
        BY <2>2, <3>1
      <4> QED BY <4>1, <4>2, <4>3 DEF Pop
    <3>2. CASE ranges # <<>>
      <4>1. rest' = ranges /\ pool' = pool /\ made' = made
        BY <1>1, <3>2 DEF InitGet, storage
      <4> QED BY <2>2, <4>1
    <3> QED BY <3>1, <3>2
  <2>4. NoRangeLost'
    BY <2>2, <2>3
  <2>5. partial' \in BOOLEAN
    BY <1>1 DEF InitGet
  <2>6. TypeOK'
    BY <1>1, <2>2, <2>3, <2>5 DEF InitGet, parser, history, answer
  <2> QED BY <2>2, <2>4, <2>6 DEF FixedInside, ServesSomething, OnlyFixupHasRest
<1>2. CASE FixupStep
  <2> DEFINE r == Fixed(Head(rest))
  <2>1. phase = "fixup" /\ rest # <<>> /\ filesize \in FileSizes
    BY <1>2 DEF FixupStep, FixedInside
  <2>2. Head(rest) \in ByteRange /\ Tail(rest) \in Seq(ByteRange) /\ Len(Tail(rest)) = Len(rest) - 1
    BY <2>1
  <2>3. r \in ByteRange /\ (~Invalid(r) => Inside(r))
    BY <2>1, <2>2, FixedRange
  <2>4. /\ rest' = Tail(rest)
        /\ UNCHANGED <<phase, parser, numranges, filesize, partial, headers, history>>
        /\ \/ Invalid(r) /\ pool' = pool + 1 /\ UNCHANGED <<made, ranges>>
           \/ ~Invalid(r) /\ ranges' = Append(ranges, r) /\ UNCHANGED storage
    BY <1>2 DEF FixupStep, Push, r
  <2>5. CASE Invalid(r) /\ pool' = pool + 1 /\ UNCHANGED <<made, ranges>>
    <3>1. TypeOK'
      BY <2>2, <2>4, <2>5 DEF parser, history, answer
    <3>2. NoRangeLost'
      <4>1. Len(rest) \in Nat /\ Len(ranges) \in Nat /\ Len(rest') = Len(rest) - 1
        BY <2>2, <2>4
      <4> QED BY <4>1, <2>4, <2>5
    <3>3. FixedInside' /\ ServesSomething' /\ OnlyFixupHasRest'
      BY <2>1, <2>4, <2>5 DEF FixedInside, ServesSomething, OnlyFixupHasRest, Inside
    <3> QED BY <3>1, <3>2, <3>3
  <2>6. CASE ~Invalid(r) /\ ranges' = Append(ranges, r) /\ UNCHANGED storage
    <3>1. ranges' \in Seq(ByteRange) /\ Len(ranges') = Len(ranges) + 1
      BY <2>3, <2>6
    <3>2. \A i \in 1..Len(ranges') : Inside(ranges'[i])
      BY <2>1, <2>3, <2>6, AppendInside DEF FixedInside
    <3>3. FixedInside'
      BY <2>1, <2>4, <3>2 DEF FixedInside, Inside
    <3> QED BY <2>1, <2>2, <2>4, <2>6, <3>1, <3>3 DEF parser, history, answer, storage, ServesSomething, OnlyFixupHasRest
  <2> QED BY <2>4, <2>5, <2>6
<1>3. CASE FixupFails
  BY <1>3 DEF FixupFails, parser, request, storage, history, answer, FixedInside, ServesSomething, OnlyFixupHasRest
<1>4. CASE FixupSucceeds
  <2>1. Head(ranges) \in ByteRange /\ Head(ranges) = ranges[1] /\ Len(ranges) >= 1
    BY <1>4 DEF FixupSucceeds
  <2>2. Inside(Head(ranges))
    BY <1>4, <2>1 DEF FixupSucceeds, FixedInside
  <2>3. Printed(Head(ranges)) \in Heading
    BY <2>1, <2>2, PrintedOK
  <2>4. announced' \in Seq(Heading) /\ parts' \in Seq(ByteRange)
    BY <1>4, <2>1, <2>3 DEF FixupSucceeds
  <2> QED BY <1>4, <2>4 DEF FixupSucceeds, parser, request, storage, FixedInside, ServesSomething, OnlyFixupHasRest, Inside
<1> QED BY <1>1, <1>2, <1>3, <1>4

\* Sending: start moves within its range, and the range leaves the list
\* when it has reached the end.
LEMMA WriteInv ==
  ASSUME Inv, Write
  PROVE  Inv'
<1> USE DEF Inv, TypeOK
<1>1. /\ phase = "serve" /\ ranges # <<>> /\ rest = <<>> /\ rest' = rest
      /\ filesize \in FileSizes /\ filesize' = filesize
  BY DEF Write, ServesSomething, FixedInside, OnlyFixupHasRest
<1> DEFINE h == Head(ranges)
<1>2. /\ h \in ByteRange /\ h = ranges[1] /\ Inside(h)
      /\ Tail(ranges) \in Seq(ByteRange) /\ Len(Tail(ranges)) = Len(ranges) - 1
      /\ Len(ranges) \in Nat \ {0}
      /\ \A i \in 1..Len(Tail(ranges)) : Tail(ranges)[i] = ranges[i + 1]
  BY <1>1 DEF FixedInside
<1>3. \A i \in 1..Len(Tail(ranges)) : Inside(Tail(ranges)[i])
  BY <1>1, <1>2 DEF FixedInside
<1> HIDE DEF h
<1>4. h.start \in Nat /\ h.stop \in Nat /\ h.stop <= ULongMax /\ ULongMax \in Nat
  BY <1>2, WidthAssumption DEF ByteRange, ULong
<1>5. PICK n \in 1..(h.stop - h.start + 1) :
        LET r == [h EXCEPT !.start = @ + n]
        IN  IF Finished(r)
            THEN complete_response /\ full' = Append(full, sent + n) /\ sent' = 0
            ELSE /\ ranges' = <<r>> \o Tail(ranges)
                 /\ sent' = sent + n
                 /\ UNCHANGED <<phase, parts, announced, full, storage>>
  BY DEF Write, h
<1> DEFINE r == [h EXCEPT !.start = @ + n]
<1>6. /\ r.start = h.start + n /\ r.stop = h.stop /\ n \in Nat
      /\ r = [start |-> h.start + n, stop |-> h.stop]
  <2>1. h = [start |-> h.start, stop |-> h.stop]
    BY <1>2 DEF ByteRange
  <2>2. r = [start |-> h.start + n, stop |-> h.stop]
    BY <2>1
  <2>3. n \in Nat
    BY <1>4
  <2> HIDE DEF r
  <2> QED BY <2>2, <2>3
<1>10. IF Finished(r)
       THEN complete_response /\ full' = Append(full, sent + n) /\ sent' = 0
       ELSE /\ ranges' = <<r>> \o Tail(ranges)
            /\ sent' = sent + n
            /\ UNCHANGED <<phase, parts, announced, full, storage>>
  BY <1>5
<1> HIDE DEF r
<1>7. UNCHANGED <<parser, rest, numranges, filesize, partial, headers, input>>
  BY DEF Write
<1>8. CASE Finished(r)
  <2>1. /\ ranges' = Tail(ranges) /\ pool' = pool + 1 /\ made' = made
        /\ full' = Append(full, sent + n) /\ sent' = 0
        /\ \/ /\ parts' = Append(parts, Head(Tail(ranges))) /\ phase' = phase
              /\ announced' = Append(announced, Printed(Head(Tail(ranges))))
              /\ Tail(ranges) # <<>>
           \/ phase' = "done" /\ parts' = parts /\ announced' = announced
    BY <1>10, <1>8 DEF complete_response, PopHead, Push
  <2>6. announced' \in Seq(Heading)
    <3>1. ASSUME Tail(ranges) # <<>>
          PROVE  Head(Tail(ranges)) \in ByteRange /\ Inside(Head(Tail(ranges)))
      <4>1. /\ Len(Tail(ranges)) >= 1 /\ Head(Tail(ranges)) = Tail(ranges)[1]
            /\ Head(Tail(ranges)) \in ByteRange
        BY <1>2, <3>1
      <4>2. Len(Tail(ranges)) \in Nat
        BY <1>2
      <4>3. 1 \in 1..Len(Tail(ranges))
        BY <4>1, <4>2
      <4>4. Inside(Tail(ranges)[1])
        BY <1>3, <4>3
      <4> QED BY <4>1, <4>4, Zenon
    <3>2. Tail(ranges) # <<>> => Printed(Head(Tail(ranges))) \in Heading
      BY <1>1, <3>1, PrintedOK
    <3>3. ASSUME NEW x \in Heading PROVE Append(announced, x) \in Seq(Heading)
      OBVIOUS
    <3>4. CASE announced' = Append(announced, Printed(Head(Tail(ranges)))) /\ Tail(ranges) # <<>>
      BY <3>2, <3>3, <3>4
    <3>5. CASE announced' = announced
      BY <3>5
    <3> QED BY <2>1, <3>4, <3>5
  <2>2. parts' \in Seq(ByteRange) /\ full' \in Seq(Nat)
    <3>1. Tail(ranges) # <<>> => Head(Tail(ranges)) \in ByteRange
      BY <1>2
    <3>2. sent + n \in Nat
      BY <1>6
    <3>3. full' \in Seq(Nat)
      BY <2>1, <3>2
    <3>4. parts' \in Seq(ByteRange)
      <4>1. ASSUME NEW x \in ByteRange PROVE Append(parts, x) \in Seq(ByteRange)
        OBVIOUS
      <4>2. CASE parts' = Append(parts, Head(Tail(ranges))) /\ Tail(ranges) # <<>>
        BY <3>1, <4>1, <4>2
      <4>3. CASE parts' = parts
        BY <4>3
      <4> QED BY <2>1, <4>2, <4>3
    <3> QED BY <3>3, <3>4
  <2>3. TypeOK'
    BY <1>1, <1>2, <1>7, <2>1, <2>2, <2>6 DEF parser
  <2>4. NoRangeLost'
    BY <1>1, <1>2, <2>1 DEF NoRangeLost
  <2>5. FixedInside'
    BY <1>1, <1>3, <2>1 DEF FixedInside, Inside
  <2> QED BY <1>1, <2>1, <2>3, <2>4, <2>5 DEF ServesSomething, OnlyFixupHasRest
<1>9. CASE ~Finished(r)
  <2>1. /\ ranges' = <<r>> \o Tail(ranges) /\ sent' = sent + n
        /\ UNCHANGED <<phase, parts, announced, full, storage>>
    BY <1>10, <1>9
  <2>2. r.start <= r.stop
    <3>1. ~(r.start >= r.stop + 1)
      BY <1>9 DEF Finished
    <3>2. r.start \in Nat /\ r.stop \in Nat
      BY <1>4, <1>6
    <3> QED BY <3>1, <3>2
  <2>3. r \in ByteRange
    <3>1. h.start + n \in ULong
      <4>1. h.start + n \in Nat /\ h.start + n <= h.stop
        BY <1>4, <1>6, <2>2
      <4> QED BY <4>1, <1>4 DEF ULong
    <3> QED BY <3>1, <1>2, <1>6 DEF ByteRange
  <2>4. Inside(r)
    BY <1>2, <1>6, <2>2 DEF Inside
  <2>5. /\ ranges' \in Seq(ByteRange) /\ Len(ranges') = Len(ranges) /\ ranges' # <<>>
        /\ \A i \in 1..Len(ranges') : ranges'[i] = IF i = 1 THEN r ELSE Tail(ranges)[i - 1]
    BY <1>2, <2>1, <2>3
  <2>6. \A i \in 1..Len(ranges') : Inside(ranges'[i])
    <3> SUFFICES ASSUME NEW i \in 1..Len(ranges') PROVE Inside(ranges'[i])
      OBVIOUS
    <3>1. CASE i = 1
      BY <2>4, <2>5, <3>1
    <3>2. CASE i # 1
      <4>1. i - 1 \in 1..Len(Tail(ranges))
        BY <1>2, <2>5, <3>2
      <4>2. ranges'[i] = Tail(ranges)[i - 1]
        BY <2>5, <3>2
      <4> QED BY <1>3, <4>1, <4>2
    <3> QED BY <3>1, <3>2
  <2>7. TypeOK'
    BY <1>6, <1>7, <2>1, <2>5 DEF parser, storage
  <2>8. FixedInside' /\ ServesSomething' /\ OnlyFixupHasRest' /\ NoRangeLost'
    BY <1>1, <2>1, <2>5, <2>6
       DEF FixedInside, ServesSomething, OnlyFixupHasRest, NoRangeLost, storage, Inside
  <2> QED BY <2>7, <2>8
<1> QED BY <1>8, <1>9

\* free_request gives everything back; range_pool_empty frees what is idle.
LEMMA ReleaseInv ==
  ASSUME Inv, FreeRequest \/ EmptyPool
  PROVE  Inv'
<1> USE DEF Inv, TypeOK
<1>1. rest = <<>> /\ phase # "fixup"
  BY DEF FreeRequest, EmptyPool, Settled, OnlyFixupHasRest
<1>2. made = pool + Len(ranges) /\ Len(ranges) \in Nat
  BY <1>1 DEF NoRangeLost
<1>3. CASE FreeRequest
  <2>1. pool' = pool + Len(ranges) /\ made' = made /\ ranges' = <<>> /\ rest' = <<>>
    BY <1>3 DEF FreeRequest, Push
  <2>2. 0 \in ULong /\ 0 \in 0..MaxHeaders /\ "initial" \in Modes
    BY WidthAssumption, BoundsAssumption DEF ULong, Modes
  <2>3. <<>> \in Seq(ByteRange) /\ <<>> \in Seq(Nat) /\ <<>> \in Seq(Chars) /\ <<>> \in Seq(Heading)
    OBVIOUS
  <2>4. TypeOK'
    BY <1>2, <1>3, <2>1, <2>2, <2>3 DEF FreeRequest
  <2>5. NoRangeLost'
    BY <1>2, <2>1 DEF NoRangeLost
  <2> QED BY <1>3, <2>4, <2>5 DEF FreeRequest, FixedInside, ServesSomething, OnlyFixupHasRest
<1>4. CASE EmptyPool
  <2>1. /\ pool' = 0 /\ made' = made - pool
        /\ UNCHANGED <<phase, parser, request, headers, history>>
    BY <1>4 DEF EmptyPool
  <2>2. TypeOK'
    BY <1>2, <2>1 DEF parser, request, history, answer
  <2>3. NoRangeLost'
    BY <1>1, <1>2, <2>1 DEF NoRangeLost, request
  <2> QED BY <2>1, <2>2, <2>3 DEF request, FixedInside, ServesSomething, OnlyFixupHasRest, Inside
<1> QED BY <1>3, <1>4

\* Every step keeps the invariant.
LEMMA StepInv == Inv /\ [Next]_vars => Inv'
<1> SUFFICES ASSUME Inv, [Next]_vars PROVE Inv'
  OBVIOUS
<1>1. CASE UNCHANGED vars
  BY <1>1 DEF vars, parser, request, storage, history, answer, Inv, TypeOK, FixedInside,
              ServesSomething, OnlyFixupHasRest, NoRangeLost, Inside
<1> QED BY <1>1, HeaderInv, ParseInv, FixupInv, WriteInv, ReleaseInv DEF Next

\* Types, ranges inside the file and accounted structures, together.
THEOREM RangesInvariant == Spec => []Inv
BY InitInv, StepInv, PTL DEF Spec

\* ranges_fixup and the sending of ranges: no byte outside the file is ever
\* asked of mmap or sendfile, whatever the header and the integer widths.
THEOREM NothingOutsideFile == Spec => []InsideFile
<1>1. Inv => InsideFile
  BY DEF Inv, FixedInside, InsideFile, Inside
<1> QED BY <1>1, RangesInvariant, PTL

\* The pool and the list of the request hold every Range structure made.
THEOREM EveryRangeAccounted == Spec => []NoRangeLost
<1>1. Inv => NoRangeLost
  BY DEF Inv
<1> QED BY <1>1, RangesInvariant, PTL

\* The types of the parser's and the answer's state.
THEOREM TypeCorrect == Spec => []TypeOK
<1>1. Inv => TypeOK
  BY DEF Inv
<1> QED BY <1>1, RangesInvariant, PTL

-----------------------------------------------------------------------------
(***************************************************************************)
(* Parts.  That the answer is over when the list is empty, and not before, *)
(* rests on numranges: complete_response asks numranges > 1, a count made  *)
(* while parsing, whether another part may follow.                         *)
(***************************************************************************)
NothingSentYet ==
  phase \notin {"serve", "done"} => parts = <<>> /\ sent = 0 /\ full = <<>>

ListCounted ==
  /\ phase \in {"headers", "parse"} => Len(ranges) <= numranges
  /\ phase \in {"fixup", "serve"} /\ partial => Len(ranges) + Len(rest) <= numranges
  /\ phase \in {"fixup", "serve"} /\ ~partial => Len(ranges) + Len(rest) <= 1

\* The parts sent so far and the one being sent, by their ranges.
PartsAligned ==
  /\ \A i \in 1..Len(full) : full[i] = parts[i].stop - parts[i].start + 1
  /\ phase = "serve" =>
       /\ Len(parts) = Len(full) + 1
       /\ Head(ranges).stop = parts[Len(parts)].stop
       /\ Head(ranges).start = parts[Len(parts)].start + sent
  /\ phase = "done" => Len(parts) = Len(full) /\ ranges = <<>>

PartsInv == NothingSentYet /\ ListCounted /\ PartsAligned

LEMMA NonEmpty ==
  ASSUME NEW S, NEW x \in Seq(S), x # <<>>
  PROVE  /\ Len(x) \in Nat /\ Len(x) >= 1 /\ Head(x) \in S
         /\ Tail(x) \in Seq(S) /\ Len(Tail(x)) = Len(x) - 1
OBVIOUS

LEMMA Member ==
  ASSUME NEW S, NEW x \in Seq(S), NEW i \in 1..Len(x)
  PROVE  x[i] \in S
OBVIOUS

LEMMA InitParts == Init => PartsInv
BY DEF Init, PartsInv, NothingSentYet, ListCounted, PartsAligned

LEMMA HeaderParts ==
  ASSUME Inv, PartsInv, IgnoreHeader \/ WrongUnit \/ BeginParse
  PROVE  PartsInv'
<1>1. /\ UNCHANGED <<request, history>> /\ phase = "headers"
      /\ phase' \in {"headers", "refused", "parse"}
  BY DEF IgnoreHeader, WrongUnit, BeginParse, HeaderSeen
<1> QED BY <1>1 DEF PartsInv, NothingSentYet, ListCounted, PartsAligned, request, history, answer

LEMMA ParseParts ==
  ASSUME Inv, PartsInv, NEW c \in Chars, ParseChar(c)
  PROVE  PartsInv'
<1> USE DEF Inv, TypeOK
<1>1. phase = "parse" /\ UNCHANGED <<parts, sent, full>>
  BY DEF ParseChar, answer
<1>2. /\ phase' \in {"refused", "headers", "parse"}
      /\ \/ phase' = "refused"
         \/ numranges' = numranges + 1 /\ \E x \in {ranges'[Len(ranges) + 1]} : ranges' = Append(ranges, x)
         \/ UNCHANGED <<ranges, numranges>>
  BY DEF ParseChar, Abort, Submit, request
<1>3. phase' # "refused" => Len(ranges') <= numranges'
  BY <1>1, <1>2 DEF PartsInv, ListCounted
<1> QED BY <1>1, <1>2, <1>3 DEF PartsInv, NothingSentYet, ListCounted, PartsAligned

LEMMA FixupParts ==
  ASSUME Inv, PartsInv, InitGet \/ FixupStep \/ FixupFails \/ FixupSucceeds
  PROVE  PartsInv'
<1> USE DEF Inv, TypeOK
<1>1. CASE InitGet
  <2>1. /\ phase = "headers" /\ phase' = "fixup" /\ ranges' = <<>>
        /\ partial' = (ranges # <<>>) /\ numranges' = numranges /\ UNCHANGED history
        /\ rest' = IF ranges = <<>> THEN <<WholeFile>> ELSE ranges
    BY <1>1 DEF InitGet
  <2>2. CASE ranges = <<>>
    <3>0. Len(rest') = 1 /\ Len(ranges') = 0  BY <2>1, <2>2
    <3>1. ~partial' /\ phase' \notin {"headers", "parse"}  BY <2>1, <2>2
    <3>2. Len(ranges') + Len(rest') <= 1  BY <3>0
    <3>3. ListCounted'  BY <3>1, <3>2, Zenon DEF ListCounted
    <3> QED BY <2>1, <3>3 DEF PartsInv, NothingSentYet, PartsAligned, history, answer
  <2>3. CASE ranges # <<>>
    <3>1. partial' /\ Len(rest') <= numranges' /\ Len(ranges') = 0
      BY <2>1, <2>3 DEF PartsInv, ListCounted
    <3>2. Len(rest') \in Nat  BY <2>1, <2>3
    <3> QED BY <2>1, <3>1, <3>2 DEF PartsInv, NothingSentYet, ListCounted, PartsAligned, history, answer
  <2> QED BY <2>2, <2>3
<1>2. CASE FixupStep
  <2>1. /\ phase = "fixup" /\ phase' = "fixup" /\ rest # <<>> /\ rest' = Tail(rest)
        /\ UNCHANGED <<numranges, partial, history>>
        /\ \/ ranges' = ranges
           \/ \E x \in {ranges'[Len(ranges) + 1]} : ranges' = Append(ranges, x)
    BY <1>2 DEF FixupStep
  <2>2. Len(rest') = Len(rest) - 1 /\ Len(ranges') <= Len(ranges) + 1
        /\ Len(ranges') \in Nat /\ Len(rest) \in Nat /\ Len(ranges) \in Nat
    BY <2>1
  <2>3. ListCounted'
    BY <2>1, <2>2 DEF PartsInv, ListCounted
  <2> QED BY <2>1, <2>3 DEF PartsInv, NothingSentYet, PartsAligned, history, answer
<1>3. CASE FixupFails
  BY <1>3 DEF FixupFails, PartsInv, NothingSentYet, ListCounted, PartsAligned, request, history, answer
<1>4. CASE FixupSucceeds
  <2>1. /\ phase = "fixup" /\ phase' = "serve" /\ parts' = <<Head(ranges)>> /\ ranges # <<>>
        /\ UNCHANGED <<ranges, rest, numranges, partial, sent, full>>
    BY <1>4 DEF FixupSucceeds, request
  <2>2. sent = 0 /\ full = <<>>  BY <2>1 DEF PartsInv, NothingSentYet
  <2>3. Head(ranges) \in ByteRange  BY <2>1
  <2>4. Head(ranges).start \in Int  BY <2>3, WidthAssumption DEF ByteRange, ULong
  <2>5. Len(parts') = 1 /\ parts'[1] = Head(ranges)  BY <2>1
  <2>6. PartsAligned'
    BY <2>1, <2>2, <2>4, <2>5 DEF PartsAligned
  <2> QED BY <2>1, <2>6 DEF PartsInv, NothingSentYet, ListCounted
<1> QED BY <1>1, <1>2, <1>3, <1>4

LEMMA WriteParts ==
  ASSUME Inv, Inv', PartsInv, Write
  PROVE  PartsInv'
<1>0. /\ ranges \in Seq(ByteRange) /\ parts \in Seq(ByteRange) /\ full \in Seq(Nat)
      /\ sent \in Nat /\ numranges \in Nat /\ partial \in BOOLEAN
  BY DEF Inv, TypeOK
<1>1. /\ phase = "serve" /\ ranges # <<>> /\ rest = <<>> /\ rest' = rest
      /\ UNCHANGED <<numranges, partial>>
  BY DEF Inv, Write, ServesSomething, OnlyFixupHasRest
<1> DEFINE h == Head(ranges)
<1> DEFINE p == parts[Len(parts)]
<1>2. /\ h \in ByteRange /\ Len(Tail(ranges)) = Len(ranges) - 1 /\ Len(ranges) \in Nat \ {0}
      /\ Tail(ranges) \in Seq(ByteRange)
  BY <1>0, <1>1, NonEmpty DEF h
<1>3. /\ Len(parts) = Len(full) + 1 /\ h.stop = p.stop /\ h.start = p.start + sent
      /\ \A i \in 1..Len(full) : full[i] = parts[i].stop - parts[i].start + 1
  BY <1>1 DEF PartsInv, PartsAligned, h, p
<1>4. Len(parts) \in Nat \ {0} /\ Len(full) \in Nat /\ p \in ByteRange /\ sent \in Nat
  <2>1. Len(full) \in Nat  BY <1>0
  <2>2. Len(parts) \in Nat \ {0} /\ Len(parts) \in 1..Len(parts)  BY <2>1, <1>3
  <2> QED BY <2>1, <2>2, <1>0, Member DEF p
<1> HIDE DEF h, p
<1>5. h.start \in Int /\ h.stop \in Int /\ p.start \in Int /\ p.stop \in Int
  BY <1>2, <1>4, WidthAssumption DEF ByteRange, ULong
<1>6. PICK n \in 1..(h.stop - h.start + 1) :
        LET r == [h EXCEPT !.start = @ + n]
        IN  IF Finished(r)
            THEN complete_response /\ full' = Append(full, sent + n) /\ sent' = 0
            ELSE /\ ranges' = <<r>> \o Tail(ranges)
                 /\ sent' = sent + n
                 /\ UNCHANGED <<phase, parts, announced, full, storage>>
  BY DEF Write, h
<1> DEFINE r == [h EXCEPT !.start = @ + n]
<1>7. /\ r.start = h.start + n /\ r.stop = h.stop
      /\ IF Finished(r)
         THEN complete_response /\ full' = Append(full, sent + n) /\ sent' = 0
         ELSE /\ ranges' = <<r>> \o Tail(ranges)
              /\ sent' = sent + n
              /\ UNCHANGED <<phase, parts, announced, full, storage>>
  BY <1>2, <1>6 DEF ByteRange
<1> HIDE DEF r
<1>8. n \in Int /\ 1 <= n /\ n <= h.stop - h.start + 1  BY <1>5
<1>9. (partial => Len(ranges) <= numranges) /\ (~partial => Len(ranges) <= 1)
  <2>1. Len(rest) = 0  BY <1>1
  <2> QED BY <2>1, <1>1, <1>2 DEF PartsInv, ListCounted
<1>10. CASE Finished(r)
  <2>1. /\ complete_response /\ full' = Append(full, sent + n) /\ sent' = 0
    BY <1>7, <1>10
  <2>2. ranges' = Tail(ranges)  BY <2>1 DEF complete_response, PopHead
  <2>3. sent + n = p.stop - p.start + 1
    <3>1. h.start + n >= h.stop + 1  BY <1>7, <1>10 DEF Finished
    <3>2. h.stop = p.stop /\ h.start = p.start + sent /\ sent \in Int  BY <1>3, <1>4
    <3> QED BY <3>1, <3>2, <1>5, <1>8
  <2>4. Len(full') = Len(full) + 1 /\ full'[Len(full) + 1] = sent + n
        /\ \A i \in 1..Len(full) : full'[i] = full[i]
    <3>1. sent + n \in Nat  BY <1>4, <1>8
    <3> QED BY <3>1, <2>1, <1>0
  <2>5. Tail(ranges) # <<>> => Len(ranges) >= 2 /\ Len(Tail(ranges)) >= 1
    <3>1. Tail(ranges) # <<>> => Len(Tail(ranges)) >= 1  BY <1>2, NonEmpty
    <3> QED BY <3>1, <1>2
  <2>6. Tail(ranges) # <<>> => partial /\ numranges > 1
    BY <2>5, <1>0, <1>2, <1>9
  <2>7. CASE Tail(ranges) # <<>>
    <3> DEFINE g == Head(Tail(ranges))
    <3>1. parts' = Append(parts, g) /\ phase' = "serve"
      BY <2>1, <2>6, <2>7, <1>1 DEF complete_response, Multipart, g
    <3>2. g \in ByteRange
      BY <2>7, <1>2, NonEmpty DEF g
    <3> HIDE DEF g
    <3>3. g.start \in Int  BY <3>2, WidthAssumption DEF ByteRange, ULong
    <3>4. /\ Len(parts') = Len(parts) + 1 /\ parts'[Len(parts) + 1] = g
          /\ \A i \in 1..Len(parts) : parts'[i] = parts[i]
      BY <1>0, <3>1, <3>2
    <3>5. \A i \in 1..Len(full') : full'[i] = parts'[i].stop - parts'[i].start + 1
      <4> SUFFICES ASSUME NEW i \in 1..Len(full')
                   PROVE  full'[i] = parts'[i].stop - parts'[i].start + 1
        OBVIOUS
      <4>1. CASE i = Len(full) + 1
        <5>1. parts'[i] = p  BY <4>1, <3>4, <1>3, <1>4 DEF p
        <5> QED BY <4>1, <5>1, <2>3, <2>4
      <4>2. CASE i # Len(full) + 1
        <5>1. i \in 1..Len(full) /\ i \in 1..Len(parts)  BY <4>2, <2>4, <1>3, <1>4
        <5> QED BY <5>1, <2>4, <3>4, <1>3
      <4> QED BY <4>1, <4>2
    <3>6. PartsAligned'
      <4>1. Head(ranges') = g  BY <2>2 DEF g
      <4>2. Len(parts') = Len(full') + 1 /\ parts'[Len(parts')] = g
        BY <2>4, <3>4, <1>3, <1>4
      <4> QED BY <4>1, <4>2, <2>1, <3>1, <3>3, <3>5 DEF PartsAligned
    <3>7. ListCounted'
      <4>1. Len(ranges') = Len(ranges) - 1 /\ Len(rest') = 0  BY <2>2, <1>1, <1>2
      <4> QED BY <4>1, <3>1, <1>0, <1>1, <1>2, <1>9 DEF ListCounted
    <3> QED BY <3>1, <3>6, <3>7 DEF PartsInv, NothingSentYet
  <2>8. CASE Tail(ranges) = <<>>
    <3>1. parts' = parts /\ phase' = "done"
      BY <2>1, <2>8, <1>1 DEF complete_response, Multipart
    <3>2. \A i \in 1..Len(full') : full'[i] = parts'[i].stop - parts'[i].start + 1
      <4> SUFFICES ASSUME NEW i \in 1..Len(full')
                   PROVE  full'[i] = parts[i].stop - parts[i].start + 1
        BY <3>1
      <4>1. CASE i = Len(full) + 1  BY <4>1, <2>3, <2>4, <1>3, <1>4 DEF p
      <4>2. CASE i # Len(full) + 1
        <5>1. i \in 1..Len(full)  BY <4>2, <2>4, <1>4
        <5> QED BY <5>1, <2>4, <1>3
      <4> QED BY <4>1, <4>2
    <3>3. PartsAligned'  BY <2>2, <2>4, <2>8, <3>1, <3>2, <1>3, <1>4 DEF PartsAligned
    <3> QED BY <3>1, <3>3 DEF PartsInv, NothingSentYet, ListCounted
  <2> QED BY <2>7, <2>8
<1>11. CASE ~Finished(r)
  <2>1. /\ ranges' = <<r>> \o Tail(ranges) /\ sent' = sent + n
        /\ UNCHANGED <<phase, parts, full>>
    BY <1>7, <1>11
  <2>2. Len(ranges') = Len(ranges) /\ Head(ranges') = r
    <3>1. r \in ByteRange
      <4>1. r.start \in ULong /\ r.stop \in ULong
        <5>1. /\ h.start \in Nat /\ h.stop \in 0..ULongMax /\ ULongMax \in Nat
              /\ r.start = h.start + n /\ r.stop = h.stop
          BY <1>2, <1>7, WidthAssumption DEF ByteRange, ULong
        <5>2. ~(r.start >= r.stop + 1)
          BY <1>11 DEF Finished
        <5> QED BY <1>8, <5>1, <5>2 DEF ULong
      <4> QED BY <1>2, <4>1 DEF r, ByteRange
    <3> QED BY <2>1, <1>2, <3>1
  <2>3. PartsAligned'
    <3>1. Head(ranges').stop = p.stop /\ Head(ranges').start = p.start + sent'
      BY <2>1, <2>2, <1>3, <1>4, <1>5, <1>7, <1>8
    <3> QED BY <2>1, <3>1, <1>1, <1>3 DEF PartsAligned, p
  <2>4. ListCounted'
    BY <2>1, <2>2, <1>1 DEF PartsInv, ListCounted
  <2> QED BY <2>1, <2>3, <2>4, <1>1 DEF PartsInv, NothingSentYet
<1> QED BY <1>10, <1>11

LEMMA ReleaseParts ==
  ASSUME Inv, PartsInv, FreeRequest \/ EmptyPool
  PROVE  PartsInv'
<1>1. CASE FreeRequest
  <2>1. Len(<<>>) = 0  OBVIOUS
  <2> QED BY <1>1, <2>1 DEF FreeRequest, PartsInv, NothingSentYet, ListCounted, PartsAligned
<1>2. CASE EmptyPool
  BY <1>2 DEF EmptyPool, PartsInv, NothingSentYet, ListCounted, PartsAligned, request, history, answer
<1> QED BY <1>1, <1>2

LEMMA PartsAlways == Spec => []PartsInv
<1>1. Inv /\ Inv' /\ PartsInv /\ [Next]_vars => PartsInv'
  <2> SUFFICES ASSUME Inv, Inv', PartsInv, [Next]_vars PROVE PartsInv'
    OBVIOUS
  <2>1. CASE UNCHANGED vars
    BY <2>1 DEF vars, request, history, answer, PartsInv, NothingSentYet, ListCounted, PartsAligned
  <2> QED BY <2>1, HeaderParts, ParseParts, FixupParts, WriteParts, ReleaseParts DEF Next
<1> QED BY <1>1, InitParts, RangesInvariant, PTL DEF Spec

\* What was announced is what simple_itoa makes of the parts' ranges, all of
\* which lie inside the file.
HeadingsInv ==
  /\ Len(announced) = Len(parts)
  /\ \A i \in 1..Len(parts) : Inside(parts[i]) /\ announced[i] = Printed(parts[i])

LEMMA WriteHeadings ==
  ASSUME Inv, PartsInv, HeadingsInv, Write
  PROVE  HeadingsInv'
<1>0. /\ ranges \in Seq(ByteRange) /\ parts \in Seq(ByteRange)
      /\ announced \in Seq(Heading) /\ filesize' = filesize /\ phase = "serve"
      /\ filesize \in FileSizes \cup {0}
  BY DEF Inv, TypeOK, Write
<1>1. \/ UNCHANGED <<parts, announced>>
      \/ /\ Tail(ranges) # <<>>
         /\ parts' = Append(parts, Head(Tail(ranges)))
         /\ announced' = Append(announced, Printed(Head(Tail(ranges))))
  BY DEF Write, complete_response
<1>2. CASE UNCHANGED <<parts, announced>>
  BY <1>0, <1>2 DEF HeadingsInv, Inside, Printed
<1>3. CASE /\ Tail(ranges) # <<>>
           /\ parts' = Append(parts, Head(Tail(ranges)))
           /\ announced' = Append(announced, Printed(Head(Tail(ranges))))
  <2> DEFINE g == Head(Tail(ranges))
  <2>1. g \in ByteRange /\ Inside(g)
    <3>1. Tail(ranges) \in Seq(ByteRange) /\ ranges # <<>>
      BY <1>0, <1>3, NonEmpty DEF Inv, ServesSomething
    <3>2. Len(ranges) >= 2 /\ g = ranges[2] /\ g \in ByteRange
      BY <1>0, <1>3, <3>1
    <3> QED BY <1>0, <3>2 DEF Inv, FixedInside
  <2>2. Printed(g) \in Heading
    BY <1>0, <2>1, PrintedOK
  <2>3. parts' = Append(parts, g) /\ announced' = Append(announced, Printed(g))
    BY <1>3
  <2> HIDE DEF g
  <2>4. /\ Len(parts') = Len(parts) + 1 /\ parts'[Len(parts) + 1] = g
        /\ \A i \in 1..Len(parts) : parts'[i] = parts[i]
    BY <1>0, <2>1, <2>3
  <2>7. /\ Len(announced') = Len(announced) + 1 /\ announced'[Len(announced) + 1] = Printed(g)
        /\ \A i \in 1..Len(announced) : announced'[i] = announced[i]
    BY <1>0, <2>2, <2>3
  <2>5. \A x : Inside(x)' = Inside(x) /\ Printed(x)' = Printed(x)
    BY <1>0 DEF Inside, Printed
  <2>6. ASSUME NEW i \in 1..Len(parts')
        PROVE  Inside(parts'[i]) /\ announced'[i] = Printed(parts'[i])
    <3>1. CASE i = Len(parts) + 1
      BY <2>1, <2>4, <2>7, <3>1 DEF HeadingsInv
    <3>2. CASE i # Len(parts) + 1
      <4>1. i \in 1..Len(parts)
        BY <1>0, <2>4, <3>2
      <4> QED BY <2>4, <2>7, <4>1 DEF HeadingsInv
    <3> QED BY <3>1, <3>2
  <2> QED BY <1>0, <2>4, <2>6, <2>7 DEF HeadingsInv, Inside, Printed
<1> QED BY <1>1, <1>2, <1>3

LEMMA StepHeadings ==
  ASSUME Inv, PartsInv, HeadingsInv, [Next]_vars
  PROVE  HeadingsInv'
<1> USE DEF HeadingsInv
<1>1. CASE UNCHANGED vars
  BY <1>1 DEF vars, request, history, answer, Inside, Printed
<1>2. CASE IgnoreHeader \/ WrongUnit \/ BeginParse \/ FixupStep \/ FixupFails \/ EmptyPool
  <2>1. UNCHANGED <<parts, announced, filesize>>
    BY <1>2 DEF IgnoreHeader, WrongUnit, BeginParse, FixupStep, FixupFails, EmptyPool,
                request, history, answer
  <2> QED BY <2>1 DEF Inside, Printed
<1>3. ASSUME NEW c \in Chars, ParseChar(c) PROVE HeadingsInv'
  <2>1. UNCHANGED <<parts, announced, filesize>>
    BY <1>3 DEF ParseChar, Abort, Submit, request, answer
  <2> QED BY <2>1 DEF Inside, Printed
<1>4. CASE InitGet
  <2>1. parts' = <<>> /\ announced' = announced /\ parts = <<>>
    BY <1>4 DEF InitGet, PartsInv, NothingSentYet, history, answer
  <2> QED BY <2>1
<1>5. CASE FixupSucceeds
  <2>1. /\ parts' = <<Head(ranges)>> /\ announced' = <<Printed(Head(ranges))>>
        /\ filesize' = filesize /\ ranges # <<>> /\ phase = "fixup"
    BY <1>5 DEF FixupSucceeds, request
  <2>2. Head(ranges) = ranges[1] /\ Len(ranges) >= 1
    BY <2>1 DEF Inv, TypeOK
  <2>3. Inside(Head(ranges))
    BY <2>1, <2>2 DEF Inv, FixedInside
  <2> QED BY <2>1, <2>3 DEF Inside, Printed
<1>6. CASE FreeRequest
  BY <1>6 DEF FreeRequest
<1> HIDE DEF HeadingsInv
<1> QED BY <1>1, <1>2, <1>3, <1>4, <1>5, <1>6, WriteHeadings DEF Next

\* complete_response and the sending loop: for every list of ranges of a file
\* whose size an unsigned int holds, each part carries what its headers
\* announced, and the answer is over exactly when every part has been sent.
THEOREM EveryPartWhole == Spec => []PartsAreWhole
<1>1. Init => HeadingsInv
  BY DEF Init, HeadingsInv
<1>2. Inv /\ PartsInv /\ HeadingsInv => PartsAreWhole
  <2> SUFFICES ASSUME Inv, PartsInv, HeadingsInv, filesize <= UIntMax PROVE PartsAreWhole
    BY DEF PartsAreWhole
  <2>1. /\ parts \in Seq(ByteRange) /\ full \in Seq(Nat)
        /\ filesize \in FileSizes \cup {0} /\ Len(announced) = Len(parts)
    BY DEF Inv, TypeOK, HeadingsInv
  <2>2. ASSUME NEW i \in 1..Len(parts)
        PROVE  /\ announced[i].start = parts[i].start /\ announced[i].stop = parts[i].stop
               /\ announced[i].size = filesize
               /\ announced[i].length = parts[i].stop - parts[i].start + 1
    <3>1. parts[i] \in ByteRange /\ Inside(parts[i]) /\ announced[i] = Printed(parts[i])
      BY <2>1, Member DEF HeadingsInv
    <3> QED BY <2>1, <3>1, PrintedOK
  <2>3. Len(full) <= Len(parts) /\ Len(full) \in Nat /\ Len(parts) \in Nat
    BY <2>1 DEF PartsInv, NothingSentYet, PartsAligned
  <2>4. ASSUME NEW i \in 1..Len(full)
        PROVE  /\ announced[i].size = filesize
               /\ full[i] = announced[i].stop - announced[i].start + 1
               /\ full[i] = announced[i].length
    <3>1. i \in 1..Len(parts)
      BY <2>3
    <3> QED BY <2>2, <3>1 DEF PartsInv, PartsAligned
  <2>5. ASSUME phase = "serve"
        PROVE  /\ Len(announced) = Len(full) + 1
               /\ Head(ranges).stop = announced[Len(announced)].stop
               /\ Head(ranges).start = announced[Len(announced)].start + sent
    <3>1. /\ Len(parts) = Len(full) + 1 /\ Head(ranges).stop = parts[Len(parts)].stop
          /\ Head(ranges).start = parts[Len(parts)].start + sent
      BY <2>5 DEF PartsInv, PartsAligned
    <3>2. Len(parts) \in 1..Len(parts)
      BY <2>3, <3>1
    <3> QED BY <2>1, <2>2, <3>1, <3>2
  <2>6. phase = "done" => Len(announced) = Len(full) /\ ranges = <<>>
    BY <2>1 DEF PartsInv, PartsAligned
  <2> QED BY <2>4, <2>5, <2>6 DEF PartsAreWhole
<1> QED BY <1>1, <1>2, StepHeadings, RangesInvariant, PartsAlways, PTL DEF Spec

-----------------------------------------------------------------------------
(***************************************************************************)
(* What the header asked for.  The reference of RangeSyntax goes through   *)
(* the text by recursion, so its facts need induction.  It is made with    *)
(* sets: a set of natural numbers has a least element because strict       *)
(* inclusion of finite sets is well founded.                               *)
(***************************************************************************)

\* The least-number principle.
LEMMA LeastNatural ==
  ASSUME NEW S \in SUBSET Nat, S # {}
  PROVE  \E m \in S : \A k \in S : m <= k
<1> DEFINE R == StrictSubsetOrdering(Nat)
           F == FiniteSubsetsOf(Nat)
           T == {1..n : n \in S}
<1>1. IsWellFoundedOn(R, F)
  BY FS_StrictSubsetOrderingWellFounded
<1>2. ASSUME NEW n \in S PROVE 1..n \in F
  <2>1. IsFiniteSet(1..n)
    BY FS_Interval
  <2>2. 1..n \subseteq Nat
    OBVIOUS
  <2> QED
    BY <2>1, <2>2 DEF FiniteSubsetsOf
<1>3. T \subseteq F /\ T # {}
  BY <1>2
<1> HIDE DEF R, F, T
<1>4. PICK x \in T : \A y \in T : ~(<<y, x>> \in R)
  BY <1>1, <1>3, WFMin
<1>5. PICK m \in S : x = 1..m
  BY DEF T
<1>6. ASSUME NEW k \in S, ~(m <= k) PROVE FALSE
  <2>1. 1..k \in T /\ k < m /\ k \in Nat /\ m \in Nat
    BY <1>6 DEF T
  <2>2. 1..k \subseteq 1..m /\ m \in 1..m /\ m \notin 1..k
    BY <2>1
  <2>3. <<1..k, 1..m>> \in R
    <3>1. 1..k \in SUBSET Nat /\ 1..m \in SUBSET Nat /\ 1..k # 1..m
      BY <2>1, <2>2
    <3> QED
      BY <2>2, <3>1 DEF R, StrictSubsetOrdering
  <2> QED
    BY <1>4, <1>5, <2>1, <2>3
<1> QED
  BY <1>6

\* Induction up to a bound, for a set.
LEMMA UpTo ==
  ASSUME NEW n \in Nat, NEW S, 0 \in S, \A i \in 1..n : i - 1 \in S => i \in S
  PROVE  0..n \subseteq S
<1> DEFINE bad == {i \in 0..n : i \notin S}
<1>1. CASE bad = {}
  BY <1>1
<1>2. CASE bad # {}
  <2>1. bad \in SUBSET Nat
    OBVIOUS
  <2> HIDE DEF bad
  <2>2. PICK m \in bad : \A k \in bad : m <= k
    BY <1>2, <2>1, LeastNatural
  <2>3. m \in 0..n /\ m \notin S /\ m # 0
    BY DEF bad
  <2>4. m \in 1..n /\ m - 1 \in 0..n /\ ~(m <= m - 1)
    BY <2>3
  <2>5. m - 1 \in S
    BY <2>2, <2>4 DEF bad
  <2> QED
    BY <2>3, <2>4, <2>5
<1> QED
  BY <1>1, <1>2

\* f starts with x and takes the steps g.
Takes(f, n, x, g) ==
  /\ DOMAIN f = 0..n
  /\ f[0] = x
  /\ \A i \in 1..n : f[i] = g[i][f[i - 1]]

\* A recursive definition over 0..n has a solution that takes its steps.
LEMMA TakesExists ==
  ASSUME NEW n \in Nat, NEW X, NEW x \in X, NEW g \in [1..n -> [X -> X]]
  PROVE  \E f \in [0..n -> X] : Takes(f, n, x, g)
<1> DEFINE S == {k \in 0..n : \E f \in [0..k -> X] : Takes(f, k, x, g)}
<1>1. 0 \in S
  <2> DEFINE f == [i \in 0..0 |-> x]
  <2>1. f \in [0..0 -> X] /\ f[0] = x /\ 1..0 = {}
    OBVIOUS
  <2>2. Takes(f, 0, x, g)
    BY <2>1 DEF Takes
  <2> QED
    BY <2>1, <2>2
<1>2. ASSUME NEW k \in 1..n, k - 1 \in S PROVE k \in S
  <2>1. PICK f \in [0..(k - 1) -> X] : Takes(f, k - 1, x, g)
    BY <1>2
  <2> DEFINE h == [i \in 0..k |-> IF i = k THEN g[k][f[k - 1]] ELSE f[i]]
  <2>2. f[k - 1] \in X /\ g[k] \in [X -> X]
    OBVIOUS
  <2>3. h \in [0..k -> X]
    <3>1. g[k][f[k - 1]] \in X
      BY <2>2
    <3>2. \A i \in 0..k : i # k => i \in 0..(k - 1)
      OBVIOUS
    <3> QED
      BY <3>1, <3>2
  <2>4. h[0] = x
    BY <2>1 DEF Takes
  <2>5. ASSUME NEW i \in 1..k PROVE h[i] = g[i][h[i - 1]]
    <3>1. i - 1 \in 0..k /\ i - 1 # k /\ h[i - 1] = f[i - 1]
      OBVIOUS
    <3>2. CASE i = k
      BY <3>1, <3>2
    <3>3. CASE i # k
      <4>1. i \in 1..(k - 1) /\ h[i] = f[i]
        BY <3>3
      <4> QED
        BY <2>1, <3>1, <4>1 DEF Takes
    <3> QED
      BY <3>2, <3>3
  <2>6. Takes(h, k, x, g)
    BY <2>4, <2>5 DEF Takes
  <2> QED
    BY <2>3, <2>6
<1> HIDE DEF S
<1>3. 0..n \subseteq S
  BY <1>1, <1>2, UpTo
<1>4. n \in S
  BY <1>3
<1> QED
  BY <1>4 DEF S

\* Longer functions that take the same steps agree with shorter ones.
LEMMA TakesUnique ==
  ASSUME NEW n \in Nat, NEW m \in Nat, n <= m, NEW x, NEW g, NEW j,
         NEW f, Takes(f, n, x, g), NEW h, Takes(h, m, x, j),
         \A i \in 1..n : g[i] = j[i]
  PROVE  \A i \in 0..n : f[i] = h[i]
<1> DEFINE S == {i \in 0..n : f[i] = h[i]}
<1>1. 0 \in S
  BY DEF Takes
<1>2. ASSUME NEW i \in 1..n, i - 1 \in S PROVE i \in S
  <2>1. i \in 1..m /\ f[i - 1] = h[i - 1]
    BY <1>2
  <2>2. f[i] = g[i][f[i - 1]] /\ h[i] = j[i][h[i - 1]]
    BY <2>1 DEF Takes
  <2> QED
    BY <2>1, <2>2
<1> HIDE DEF S
<1>3. 0..n \subseteq S
  BY <1>1, <1>2, UpTo
<1> QED
  BY <1>3 DEF S

-----------------------------------------------------------------------------
\* A character has a code and a value.
LEMMA CharOK ==
  ASSUME NEW c \in Chars
  PROVE  /\ c[1] \in 1..6 /\ c[2] \in Nat /\ c[2] <= 9
         /\ c[1] = null <=> c = Null
  BY DigitsAssumption DEF Chars, digit, white, comma, hyphen, null, other, Null

\* The values of the beginnings of a string, as steps.
Tens(s) == [i \in 1..Len(s) |-> [x \in Nat |-> x * 10 + s[i][2]]]

LEMMA ValuesTake ==
  ASSUME NEW s \in Seq(Chars)
  PROVE  Takes(Values(s), Len(s), 0, Tens(s)) /\ Values(s) \in [0..Len(s) -> Nat]
<1> DEFINE n == Len(s)
           P(f) == f = [i \in 0..n |-> IF i = 0 THEN 0 ELSE f[i - 1] * 10 + s[i][2]]
<1>1. n \in Nat /\ \A i \in 1..n : s[i][2] \in Nat
  BY CharOK
<1>2. Tens(s) \in [1..n -> [Nat -> Nat]]
  BY <1>1 DEF Tens
<1>3. ASSUME NEW f, P(f) PROVE f \in [0..n -> Nat] /\ Takes(f, n, 0, Tens(s))
  <2>1. DOMAIN f = 0..n /\ f[0] = 0 /\ \A i \in 1..n : f[i] = f[i - 1] * 10 + s[i][2]
    BY <1>1, <1>3
  <2> DEFINE S == {i \in 0..n : f[i] \in Nat}
  <2>2. 0 \in S
    BY <1>1, <2>1
  <2>3. ASSUME NEW i \in 1..n, i - 1 \in S PROVE i \in S
    BY <1>1, <2>1, <2>3
  <2> HIDE DEF S
  <2>4. 0..n \subseteq S
    BY <1>1, <2>2, <2>3, UpTo
  <2>5. \A i \in 0..n : f[i] \in Nat
    BY <2>4 DEF S
  <2>6. f = [i \in 0..n |-> f[i]]
    BY <1>3
  <2>7. f \in [0..n -> Nat]
    BY <2>5, <2>6
  <2>8. \A i \in 1..n : Tens(s)[i][f[i - 1]] = f[i - 1] * 10 + s[i][2]
    BY <1>1, <2>5 DEF Tens
  <2> QED
    BY <2>1, <2>7, <2>8 DEF Takes
<1>4. \E f : P(f)
  <2>1. PICK f \in [0..n -> Nat] : Takes(f, n, 0, Tens(s))
    BY <1>1, <1>2, TakesExists
  <2>2. ASSUME NEW i \in 1..n PROVE f[i - 1] \in Nat /\ f[i] = f[i - 1] * 10 + s[i][2]
    <3>1. i - 1 \in 0..n /\ f[i - 1] \in Nat
      BY <1>1
    <3>2. f[i] = Tens(s)[i][f[i - 1]]
      BY <2>1 DEF Takes
    <3>3. Tens(s)[i] = [x \in Nat |-> x * 10 + s[i][2]]
      BY DEF Tens
    <3> QED
      BY <3>1, <3>2, <3>3
  <2>3. \A i \in 0..n : f[i] = IF i = 0 THEN 0 ELSE f[i - 1] * 10 + s[i][2]
    BY <1>1, <2>1, <2>2 DEF Takes
  <2>4. P(f)
    BY <2>3
  <2> QED
    BY <2>4
<1>5. Values(s) = CHOOSE f : P(f)
  BY Zenon DEF Values
<1> HIDE DEF P
<1>6. P(Values(s))
  BY <1>4, <1>5, Zenon
<1> QED
  BY <1>3, <1>6

\* One more digit.
LEMMA NumeralAppend ==
  ASSUME NEW s \in Seq(Chars), NEW c \in Chars
  PROVE  /\ Numeral(<<>>) = Absent
         /\ s # <<>> => Numeral(s) \in Nat
         /\ Numeral(Append(s, c)) = (IF s = <<>> THEN 0 ELSE Numeral(s)) * 10 + c[2]
<1> DEFINE t == Append(s, c)
           n == Len(s)
<1>1. /\ t \in Seq(Chars) /\ n \in Nat /\ Len(t) = n + 1 /\ t # <<>> /\ t[n + 1] = c
      /\ \A i \in 1..n : t[i] = s[i] /\ i \in 1..(n + 1)
  OBVIOUS
<1>2. Takes(Values(s), n, 0, Tens(s)) /\ Values(s) \in [0..n -> Nat]
  BY ValuesTake
<1> HIDE DEF t
<1>3. Takes(Values(t), n + 1, 0, Tens(t)) /\ Values(t) \in [0..(n + 1) -> Nat]
  BY <1>1, ValuesTake
<1>4. \A i \in 1..n : Tens(s)[i] = Tens(t)[i]
  BY <1>1 DEF Tens
<1>5. n <= n + 1 /\ n + 1 \in Nat
  BY <1>1
<1> HIDE DEF n
<1>6. \A i \in 0..n : Values(s)[i] = Values(t)[i]
  <2>1. n \in Nat /\ Takes(Values(s), n, 0, Tens(s)) /\ Takes(Values(t), n + 1, 0, Tens(t))
    BY <1>1, <1>2, <1>3
  <2> QED
    BY <1>4, <1>5, <2>1, TakesUnique
<1>7. Values(t)[n + 1] = Tens(t)[n + 1][Values(t)[n]]
  <2>1. n + 1 \in 1..(n + 1) /\ (n + 1) - 1 = n
    BY <1>1
  <2>2. \A i \in 1..(n + 1) : Values(t)[i] = Tens(t)[i][Values(t)[i - 1]]
    BY <1>3 DEF Takes
  <2> QED
    BY <2>1, <2>2
<1>8. Values(t)[n] \in Nat /\ Values(t)[n] = Values(s)[n]
  BY <1>1, <1>2, <1>6
<1>9. Tens(t)[n + 1] = [x \in Nat |-> x * 10 + c[2]]
  <2>1. n + 1 \in 1..Len(t)
    BY <1>1
  <2> QED
    BY <1>1, <2>1 DEF Tens
<1>10. Values(t)[n + 1] = Values(s)[n] * 10 + c[2]
  BY <1>7, <1>8, <1>9
<1>11. Numeral(t) = Values(s)[n] * 10 + c[2]
  BY <1>1, <1>10 DEF Numeral
<1>12. CASE s = <<>>
  <2>1. n = 0
    BY <1>12 DEF n
  <2>2. Values(s)[0] = 0
    BY <1>2, <2>1 DEF Takes
  <2> QED
    BY <1>11, <1>12, <2>1, <2>2 DEF Numeral, t
<1>13. CASE s # <<>>
  <2>1. Numeral(s) = Values(s)[n] /\ Values(s)[n] \in Nat
    BY <1>2, <1>13, <1>1 DEF Numeral, n
  <2> QED
    BY <1>11, <1>13, <2>1 DEF Numeral, t
<1> QED
  BY <1>12, <1>13

-----------------------------------------------------------------------------
\* Texts cut at their commas: never without a piece.
Texts == Seq(Seq(Chars)) \ {<<>>}

\* The last piece is a string, and what is left without it are strings.
LEMMA LastPiece ==
  ASSUME NEW q \in Texts
  PROVE  /\ Len(q) \in Nat /\ Len(q) >= 1 /\ Len(q) \in 1..Len(q)
         /\ Last(q) = q[Len(q)] /\ Last(q) \in Seq(Chars)
         /\ Front(q) \in Seq(Seq(Chars)) /\ Len(Front(q)) = Len(q) - 1
         /\ \A k \in 1..(Len(q) - 1) : Front(q)[k] = q[k]
<1>1. q \in Seq(Seq(Chars)) /\ q # <<>>
  BY DEF Texts
<1>2. Len(q) \in Nat /\ Len(q) >= 1
  BY <1>1
<1>3. q[Len(q)] \in Seq(Chars)
  BY <1>1, <1>2
<1>4. Last(q) = q[Len(q)] /\ Front(q) = SubSeq(q, 1, Len(q) - 1)
  BY DEF Last, Front
<1> DEFINE n == Len(q) - 1
<1>5. n \in Int /\ n >= 0 /\ n - 1 + 1 = n
  BY <1>2
<1>6. \A i \in 1..n : q[i] \in Seq(Chars) /\ 1 + i - 1 = i
  BY <1>1, <1>2
<1> HIDE DEF n
<1>7. /\ SubSeq(q, 1, n) \in Seq(Seq(Chars))
      /\ Len(SubSeq(q, 1, n)) = IF 1 <= n THEN n - 1 + 1 ELSE 0
      /\ \A i \in 1..(n - 1 + 1) : SubSeq(q, 1, n)[i] = q[1 + i - 1]
  BY <1>5, <1>6, SubSeqProperties
<1>8. Len(SubSeq(q, 1, n)) = n /\ \A i \in 1..n : SubSeq(q, 1, n)[i] = q[i]
  BY <1>5, <1>6, <1>7
<1> QED
  BY <1>2, <1>3, <1>4, <1>7, <1>8 DEF n

\* A cut text stays one when a character is added.
LEMMA ExtendedOK ==
  ASSUME NEW q \in Texts, NEW c \in Chars
  PROVE  /\ Extended(q, c) \in Texts
         /\ c[1] # comma =>
              /\ Len(Extended(q, c)) = Len(q)
              /\ Last(Extended(q, c)) = Append(Last(q), c)
              /\ \A k \in 1..(Len(q) - 1) : Extended(q, c)[k] = q[k]
         /\ c[1] = comma /\ Last(q) = <<>> => Extended(q, c) = q
         /\ c[1] = comma /\ Last(q) # <<>> =>
              /\ Len(Extended(q, c)) = Len(q) + 1
              /\ Last(Extended(q, c)) = <<>>
              /\ \A k \in 1..Len(q) : Extended(q, c)[k] = q[k]
<1>0. q \in Seq(Seq(Chars)) /\ q # <<>>
  BY DEF Texts
<1>1. Len(q) \in Nat /\ Len(q) >= 1 /\ Last(q) = q[Len(q)] /\ Last(q) \in Seq(Chars)
  BY LastPiece
<1>2. CASE c[1] # comma
  <2> DEFINE e == [q EXCEPT ![Len(q)] = Append(q[Len(q)], c)]
  <2>1. Extended(q, c) = e
    BY <1>2 DEF Extended
  <2>2. Append(q[Len(q)], c) \in Seq(Chars)
    BY <1>1
  <2>3. e \in Seq(Seq(Chars)) /\ Len(e) = Len(q)
    BY <1>0, <1>1, <2>2
  <2>4. e[Len(q)] = Append(Last(q), c) /\ \A k \in 1..(Len(q) - 1) : e[k] = q[k]
    BY <1>0, <1>1
  <2> HIDE DEF e
  <2>5. e # <<>>
    BY <1>1, <2>3
  <2> QED
    BY <1>2, <2>1, <2>3, <2>4, <2>5 DEF Texts, Last
<1>3. CASE c[1] = comma /\ Last(q) = <<>>
  BY <1>3 DEF Extended
<1>4. CASE c[1] = comma /\ Last(q) # <<>>
  <2> DEFINE e == Append(q, <<>>)
  <2>1. Extended(q, c) = e
    BY <1>4 DEF Extended
  <2>2. <<>> \in Seq(Chars)
    OBVIOUS
  <2>3. /\ e \in Seq(Seq(Chars)) /\ Len(e) = Len(q) + 1 /\ e[Len(q) + 1] = <<>>
        /\ \A k \in 1..Len(q) : e[k] = q[k]
    BY <1>0, <2>2
  <2> HIDE DEF e
  <2>4. e # <<>>
    BY <1>1, <2>3
  <2> QED
    BY <1>4, <2>1, <2>3, <2>4 DEF Texts, Last
<1> QED
  BY <1>2, <1>3, <1>4

\* Cutting, as steps.
Extensions(t) == [i \in 1..Len(t) |-> [q \in Texts |-> Extended(q, t[i])]]

LEMMA CutsTake ==
  ASSUME NEW t \in Seq(Chars)
  PROVE  /\ Takes(Cuts(t), Len(t), << <<>> >>, Extensions(t))
         /\ Cuts(t) \in [0..Len(t) -> Texts]
<1> DEFINE n == Len(t)
           P(f) == f = [i \in 0..n |-> IF i = 0 THEN << <<>> >> ELSE Extended(f[i - 1], t[i])]
<1>1. n \in Nat /\ \A i \in 1..n : t[i] \in Chars
  OBVIOUS
<1>2. << <<>> >> \in Texts
  BY DEF Texts
<1>3. \A i \in 1..n : \A q \in Texts : Extended(q, t[i]) \in Texts
  BY <1>1, ExtendedOK
<1>4. Extensions(t) \in [1..n -> [Texts -> Texts]]
  BY <1>3 DEF Extensions
<1>5. ASSUME NEW f, P(f) PROVE f \in [0..n -> Texts] /\ Takes(f, n, << <<>> >>, Extensions(t))
  <2>1. DOMAIN f = 0..n /\ f[0] = << <<>> >> /\ \A i \in 1..n : f[i] = Extended(f[i - 1], t[i])
    BY <1>1, <1>5
  <2> DEFINE S == {i \in 0..n : f[i] \in Texts}
  <2>2. 0 \in S
    BY <1>1, <1>2, <2>1
  <2>3. ASSUME NEW i \in 1..n, i - 1 \in S PROVE i \in S
    BY <1>3, <2>1, <2>3
  <2> HIDE DEF S
  <2>4. 0..n \subseteq S
    BY <1>1, <2>2, <2>3, UpTo
  <2>5. \A i \in 0..n : f[i] \in Texts
    BY <2>4 DEF S
  <2>6. f = [i \in 0..n |-> f[i]]
    BY <1>5
  <2>7. f \in [0..n -> Texts]
    BY <2>5, <2>6
  <2>8. \A i \in 1..n : i - 1 \in 0..n
    BY <1>1
  <2>9. \A i \in 1..n : Extensions(t)[i][f[i - 1]] = Extended(f[i - 1], t[i])
    BY <2>5, <2>8 DEF Extensions
  <2> QED
    BY <2>1, <2>7, <2>9 DEF Takes
<1>6. \E f : P(f)
  <2>1. PICK f \in [0..n -> Texts] : Takes(f, n, << <<>> >>, Extensions(t))
    BY <1>1, <1>2, <1>4, TakesExists
  <2>2. \A i \in 1..n : i - 1 \in 0..n /\ f[i - 1] \in Texts
    BY <1>1
  <2>3. \A i \in 1..n : f[i] = Extended(f[i - 1], t[i])
    BY <2>1, <2>2 DEF Takes, Extensions
  <2>4. \A i \in 0..n : f[i] = IF i = 0 THEN << <<>> >> ELSE Extended(f[i - 1], t[i])
    <3>1. f[0] = << <<>> >> /\ \A i \in 0..n : i # 0 => i \in 1..n
      BY <1>1, <2>1 DEF Takes
    <3> QED
      BY <2>3, <3>1
  <2>5. f = [i \in 0..n |-> f[i]]
    OBVIOUS
  <2>6. P(f)
    BY <2>4, <2>5
  <2> QED
    BY <2>6
<1>7. Cuts(t) = CHOOSE f : P(f)
  BY Zenon DEF Cuts
<1> HIDE DEF P
<1>8. P(Cuts(t))
  BY <1>6, <1>7, Zenon
<1> QED
  BY <1>5, <1>8

\* One more character.
LEMMA CutAppend ==
  ASSUME NEW t \in Seq(Chars), NEW c \in Chars
  PROVE  /\ Cut(<<>>) = << <<>> >>
         /\ Cut(t) \in Texts
         /\ Cut(Append(t, c)) = Extended(Cut(t), c)
<1> DEFINE u == Append(t, c)
           n == Len(t)
           x == << <<>> >>
<1>1. /\ u \in Seq(Chars) /\ n \in Nat /\ Len(u) = n + 1 /\ u[n + 1] = c
      /\ \A i \in 1..n : u[i] = t[i] /\ i \in 1..(n + 1)
  OBVIOUS
<1>2. Takes(Cuts(t), n, x, Extensions(t)) /\ Cuts(t) \in [0..n -> Texts]
  BY CutsTake
<1> HIDE DEF u
<1>3. Takes(Cuts(u), n + 1, x, Extensions(u)) /\ Cuts(u) \in [0..(n + 1) -> Texts]
  BY <1>1, CutsTake
<1>4. \A i \in 1..n : Extensions(t)[i] = Extensions(u)[i]
  BY <1>1 DEF Extensions
<1>5. n <= n + 1 /\ n + 1 \in Nat
  BY <1>1
<1>6. Cut(<<>>) = x
  <2>1. <<>> \in Seq(Chars) /\ Len(<<>>) = 0
    OBVIOUS
  <2>2. Takes(Cuts(<<>>), 0, x, Extensions(<<>>))
    BY <2>1, CutsTake
  <2> QED
    BY <2>1, <2>2 DEF Cut, Takes
<1> HIDE DEF n, x
<1>7. \A i \in 0..n : Cuts(t)[i] = Cuts(u)[i]
  BY <1>1, <1>2, <1>3, <1>4, <1>5, TakesUnique
<1>8. Cuts(u)[n + 1] = Extensions(u)[n + 1][Cuts(u)[n]]
  <2>1. n + 1 \in 1..(n + 1) /\ (n + 1) - 1 = n
    BY <1>1
  <2>2. \A i \in 1..(n + 1) : Cuts(u)[i] = Extensions(u)[i][Cuts(u)[i - 1]]
    BY <1>3 DEF Takes
  <2> QED
    BY <2>1, <2>2
<1>9. n \in 0..n /\ Cuts(t)[n] \in Texts /\ Cuts(u)[n] = Cuts(t)[n]
  BY <1>1, <1>2, <1>7
<1>10. Extensions(u)[n + 1] = [q \in Texts |-> Extended(q, c)]
  <2>1. n + 1 \in 1..Len(u)
    BY <1>1
  <2> QED
    BY <1>1, <2>1 DEF Extensions
<1>11. Cuts(u)[n + 1] = Extended(Cuts(t)[n], c)
  BY <1>8, <1>9, <1>10
<1> QED
  BY <1>1, <1>6, <1>9, <1>11 DEF Cut, n, x, u

-----------------------------------------------------------------------------
\* A variable of range_parse holds a number that fits, or marks a missing one.
Holds(x, n) == IF n = Absent THEN x = ULongMax ELSE n < ULongMax => x = n

\* A submitted range stands for a piece of the header, and a list for all.
Stands(r, p) == WellFormed(p) /\ Holds(r.start, Pair(p).first) /\ Holds(r.stop, Pair(p).last)

StandFor(rs, ps) == Len(rs) = Len(ps) /\ \A k \in 1..Len(ps) : Stands(rs[k], ps[k])

\* What range_parse knows of the piece p it is reading, by its mode: nothing
\* yet, digits, digits and a hyphen, or digits after the hyphen at h as well.
AllDigits(s) == \A i \in 1..Len(s) : s[i][1] = digit

Before(p, h) == SubSeq(p, 1, h - 1)
Behind(p, h) == SubSeq(p, h + 1, Len(p))

AfterHyphen(p, h, a) ==
  /\ p[h][1] = hyphen
  /\ AllDigits(Before(p, h)) /\ AllDigits(Behind(p, h))
  /\ Holds(a, Numeral(Before(p, h)))

Reading(m, a, b, p) ==
  \/ m = "initial" /\ p = <<>> /\ a = 0 /\ b = 0
  \/ m = "startnum" /\ p # <<>> /\ AllDigits(p) /\ Holds(a, Numeral(p)) /\ b = 0
  \/ m = "gap2" /\ p # <<>> /\ AfterHyphen(p, Len(p), a) /\ b = 0
  \/ /\ m = "stopnum"
     /\ \E h \in 1..(Len(p) - 1) : AfterHyphen(p, h, a) /\ Holds(b, Numeral(Behind(p, h)))

NoWhite(t) == \A i \in 1..Len(t) : t[i][1] # white

ParsedSoFar(t) ==
  LET q == Cut(t)
  IN  /\ Len(q) = Len(ranges) + 1
      /\ \A k \in 1..Len(ranges) : Stands(ranges[k], q[k])
      /\ Reading(mode, start, stop, Last(q))

Plain(ps, size) ==
  \A k \in 1..Len(ps) : Ordinary(Pair(ps[k])) /\ ShortSuffix(Pair(ps[k]), size)

AllWellFormed(ps) == \A k \in 1..Len(ps) : WellFormed(ps[k])

\* ranges_fixup has dealt with all pieces but as many as it has ranges left.
FixedSoFar(ps) ==
  LET k == Len(ps) - Len(rest)
  IN  /\ partial
      /\ Len(rest) <= Len(ps)
      /\ \A j \in 1..Len(rest) : Stands(rest[j], ps[k + j])
      /\ Plain(ps, filesize) => ranges = Wanted(ps, filesize)[k]

Answered(ps) ==
  /\ partial
  /\ Plain(ps, filesize) => Answer = Reference(ps, filesize)

AskedInv ==
  /\ phase = "headers" /\ headers = 0 => input = <<>> /\ ranges = <<>>
  /\ phase = "parse" => headers >= 1
  /\ phase = "parse" /\ headers = 1 /\ NoWhite(input) => ParsedSoFar(input)
  /\ phase = "headers" /\ OneHeader => StandFor(ranges, Pieces(Text))
  /\ phase \in {"fixup", "serve", "done"} /\ OneHeader => AllWellFormed(Pieces(Text))
  /\ phase = "fixup" /\ OneHeader /\ Pieces(Text) # <<>> => FixedSoFar(Pieces(Text))
  /\ phase \in {"serve", "done"} /\ OneHeader /\ Pieces(Text) # <<>> => Answered(Pieces(Text))

-----------------------------------------------------------------------------
\* What the first k pieces ask for, and one more.
Asks(ps, size, k) == Resolve(Pair(ps[k]), size)

LEMMA WantedSteps ==
  ASSUME NEW ps, NEW size, Len(ps) \in Nat
  PROVE  LET w == Wanted(ps, size)
         IN  /\ w[0] = <<>>
             /\ \A k \in 1..Len(ps) :
                  w[k] = IF Asks(ps, size, k).start <= Asks(ps, size, k).stop
                         THEN Append(w[k - 1], Asks(ps, size, k)) ELSE w[k - 1]
<1> DEFINE n == Len(ps)
           r(k) == Asks(ps, size, k)
           S == {r(k) : k \in 1..n}
           P(f) == f = [k \in 0..n |->
                          IF k = 0 THEN <<>>
                          ELSE IF r(k).start <= r(k).stop THEN Append(f[k - 1], r(k))
                               ELSE f[k - 1]]
           g == [k \in 1..n |-> [x \in Seq(S) |->
                                   IF r(k).start <= r(k).stop THEN Append(x, r(k)) ELSE x]]
<1>1. \A k \in 1..n : r(k) \in S
  OBVIOUS
<1>2. Wanted(ps, size) = CHOOSE f : P(f)
  BY Zenon DEF Wanted, Asks
<1> HIDE DEF r, S
<1>3. \A k \in 1..n : \A x \in Seq(S) :
        (IF r(k).start <= r(k).stop THEN Append(x, r(k)) ELSE x) \in Seq(S)
  BY <1>1
<1>4. g \in [1..n -> [Seq(S) -> Seq(S)]]
  BY <1>3
<1>5. \A k \in 1..n : \A x \in Seq(S) :
        g[k][x] = IF r(k).start <= r(k).stop THEN Append(x, r(k)) ELSE x
  OBVIOUS
<1>6. n \in Nat /\ <<>> \in Seq(S)
  OBVIOUS
<1> HIDE DEF g, n
<1>7. \E f : P(f)
  <2>1. PICK f \in [0..n -> Seq(S)] : Takes(f, n, <<>>, g)
    BY <1>4, <1>6, TakesExists
  <2>2. ASSUME NEW k \in 1..n
        PROVE  f[k] = IF r(k).start <= r(k).stop THEN Append(f[k - 1], r(k)) ELSE f[k - 1]
    <3>1. k - 1 \in 0..n /\ f[k - 1] \in Seq(S)
      BY <1>6
    <3>2. f[k] = g[k][f[k - 1]]
      BY <2>1 DEF Takes
    <3> QED
      BY <1>5, <3>1, <3>2
  <2>3. f[0] = <<>> /\ \A k \in 0..n : k # 0 => k \in 1..n
    BY <1>6, <2>1 DEF Takes
  <2>4. \A k \in 0..n :
          f[k] = IF k = 0 THEN <<>>
                 ELSE IF r(k).start <= r(k).stop THEN Append(f[k - 1], r(k)) ELSE f[k - 1]
    BY <2>2, <2>3
  <2>5. f = [k \in 0..n |-> f[k]]
    OBVIOUS
  <2>6. P(f)
    BY <2>4, <2>5
  <2> QED
    BY <2>6
<1>8. P(Wanted(ps, size))
  <2> HIDE DEF P
  <2> QED
    BY <1>2, <1>7, Zenon
<1>9. 0 \in 0..n /\ \A k \in 1..n : k \in 0..n /\ k # 0
  BY <1>6
<1>10. ASSUME NEW f, P(f)
       PROVE  /\ f[0] = <<>>
              /\ \A k \in 1..n :
                   f[k] = IF r(k).start <= r(k).stop THEN Append(f[k - 1], r(k)) ELSE f[k - 1]
  BY <1>9, <1>10
<1> HIDE DEF P
<1> QED
  BY <1>8, <1>10 DEF n, r

\* The numbers of a piece, by the place of its hyphen.
LEMMA SidesOK ==
  ASSUME NEW p \in Seq(Chars), NEW h \in 1..Len(p)
  PROVE  /\ Before(p, h) \in Seq(Chars) /\ Len(Before(p, h)) = h - 1
         /\ \A i \in 1..(h - 1) : Before(p, h)[i] = p[i]
         /\ Behind(p, h) \in Seq(Chars) /\ Len(Behind(p, h)) = Len(p) - h
         /\ \A i \in 1..(Len(p) - h) : Behind(p, h)[i] = p[h + i]
<1>1. Len(p) \in Nat /\ h \in Nat /\ h <= Len(p) /\ h >= 1
  OBVIOUS
<1>2. \A i \in 1..Len(p) : p[i] \in Chars
  OBVIOUS
<1>3. /\ \A i \in 1..(h - 1) : p[i] \in Chars
      /\ \A i \in (h + 1)..Len(p) : p[i] \in Chars
  BY <1>1, <1>2
<1>4. /\ SubSeq(p, 1, h - 1) \in Seq(Chars)
      /\ Len(SubSeq(p, 1, h - 1)) = IF 1 <= h - 1 THEN (h - 1) - 1 + 1 ELSE 0
      /\ \A i \in 1..((h - 1) - 1 + 1) : SubSeq(p, 1, h - 1)[i] = p[1 + i - 1]
  <2>1. h - 1 \in Int
    BY <1>1
  <2> QED
    BY <1>3, <2>1, SubSeqProperties
<1>5. /\ SubSeq(p, h + 1, Len(p)) \in Seq(Chars)
      /\ Len(SubSeq(p, h + 1, Len(p))) = IF h + 1 <= Len(p) THEN Len(p) - (h + 1) + 1 ELSE 0
      /\ \A i \in 1..(Len(p) - (h + 1) + 1) :
            SubSeq(p, h + 1, Len(p))[i] = p[(h + 1) + i - 1]
  <2>1. h + 1 \in Int /\ Len(p) \in Int
    BY <1>1
  <2> QED
    BY <1>3, <2>1, SubSeqProperties
<1>6. Len(Before(p, h)) = h - 1 /\ \A i \in 1..(h - 1) : Before(p, h)[i] = p[i]
  <2>1. (h - 1) - 1 + 1 = h - 1 /\ \A i \in 1..(h - 1) : 1 + i - 1 = i
    BY <1>1
  <2>2. Len(Before(p, h)) = h - 1
    BY <1>1, <1>4 DEF Before
  <2> QED
    BY <1>4, <2>1, <2>2 DEF Before
<1>7. Len(Behind(p, h)) = Len(p) - h /\ \A i \in 1..(Len(p) - h) : Behind(p, h)[i] = p[h + i]
  <2>1. Len(p) - (h + 1) + 1 = Len(p) - h /\ \A i \in 1..(Len(p) - h) : (h + 1) + i - 1 = h + i
    BY <1>1
  <2>2. Len(Behind(p, h)) = Len(p) - h
    BY <1>1, <1>5 DEF Behind
  <2> QED
    BY <1>5, <2>1, <2>2 DEF Behind
<1> QED
  BY <1>4, <1>5, <1>6, <1>7 DEF Before, Behind

\* A well formed piece is read as the numbers on both sides of its hyphen.
LEMMA PairAt ==
  ASSUME NEW p \in Seq(Chars), NEW h \in 1..Len(p), p[h][1] = hyphen,
         AllDigits(Before(p, h)), AllDigits(Behind(p, h))
  PROVE  /\ WellFormed(p)
         /\ Pair(p) = [first |-> Numeral(Before(p, h)), last |-> Numeral(Behind(p, h))]
<1>1. Len(p) \in Nat /\ digit # hyphen
  BY DEF digit, hyphen
<1>2. ASSUME NEW i \in 1..Len(p), i # h PROVE p[i][1] = digit
  <2>1. CASE i < h
    <3>1. i \in 1..(h - 1)
      BY <2>1
    <3>2. Len(Before(p, h)) = h - 1 /\ Before(p, h)[i] = p[i]
      BY <3>1, SidesOK
    <3> QED
      BY <3>1, <3>2 DEF AllDigits
  <2>2. CASE i > h
    <3>1. i - h \in 1..(Len(p) - h) /\ h + (i - h) = i
      BY <2>2
    <3>2. Len(Behind(p, h)) = Len(p) - h /\ Behind(p, h)[i - h] = p[h + (i - h)]
      BY <3>1, SidesOK
    <3>3. Behind(p, h)[i - h][1] = digit
      BY <3>1, <3>2 DEF AllDigits
    <3> QED
      BY <3>1, <3>2, <3>3
  <2> QED
    BY <1>2, <2>1, <2>2
<1>3. Hyphens(p) = {h}
  BY <1>1, <1>2 DEF Hyphens
<1>4. WellFormed(p)
  BY <1>2, <1>3 DEF WellFormed
<1>5. (CHOOSE x \in Hyphens(p) : TRUE) = h
  BY <1>3
<1> QED
  BY <1>4, <1>5 DEF Pair, Before, Behind

\* The numbers after one more digit, or after the hyphen.
LEMMA SidesAppend ==
  ASSUME NEW p \in Seq(Chars), NEW c \in Chars
  PROVE  /\ \A h \in 1..Len(p) :
              /\ Before(Append(p, c), h) = Before(p, h)
              /\ Behind(Append(p, c), h) = Append(Behind(p, h), c)
              /\ Append(p, c)[h] = p[h]
         /\ Before(Append(p, c), Len(p) + 1) = p
         /\ Behind(Append(p, c), Len(p) + 1) = <<>>
<1> DEFINE u == Append(p, c)
           n == Len(p)
<1>1. /\ u \in Seq(Chars) /\ n \in Nat /\ Len(u) = n + 1 /\ u[n + 1] = c
      /\ \A i \in 1..n : u[i] = p[i] /\ i \in 1..(n + 1)
  OBVIOUS
<1> HIDE DEF u, n
<1>2. ASSUME NEW h \in 1..n
      PROVE  Before(u, h) = Before(p, h) /\ Behind(u, h) = Append(Behind(p, h), c)
  <2>1. h \in 1..Len(u) /\ h \in 1..Len(p) /\ Len(p) = n
    BY <1>1 DEF n
  <2> DEFINE a == Before(u, h)
             b == Before(p, h)
             d == Behind(u, h)
             e == Behind(p, h)
  <2>2. /\ a \in Seq(Chars) /\ Len(a) = h - 1 /\ \A i \in 1..(h - 1) : a[i] = u[i]
        /\ d \in Seq(Chars) /\ Len(d) = (n + 1) - h /\ \A i \in 1..((n + 1) - h) : d[i] = u[h + i]
    <3>1. u \in Seq(Chars) /\ Len(u) = n + 1
      BY <1>1
    <3>2. /\ a \in Seq(Chars) /\ Len(a) = h - 1 /\ \A i \in 1..(h - 1) : a[i] = u[i]
          /\ d \in Seq(Chars) /\ Len(d) = Len(u) - h /\ \A i \in 1..(Len(u) - h) : d[i] = u[h + i]
      BY <2>1, <3>1, SidesOK
    <3> QED
      BY <3>1, <3>2
  <2>3. /\ b \in Seq(Chars) /\ Len(b) = h - 1 /\ \A i \in 1..(h - 1) : b[i] = p[i]
        /\ e \in Seq(Chars) /\ Len(e) = n - h /\ \A i \in 1..(n - h) : e[i] = p[h + i]
    BY <2>1, SidesOK
  <2> HIDE DEF a, b, d, e
  <2>4. a = b
    <3>1. \A i \in 1..(h - 1) : i \in 1..n
      BY <1>1
    <3>2. \A i \in 1..Len(a) : a[i] = b[i]
      BY <1>1, <2>2, <2>3, <3>1
    <3> QED
      BY <2>2, <2>3, <3>2
  <2>5. d = Append(e, c)
    <3> DEFINE f == Append(e, c)
    <3>1. /\ f \in Seq(Chars) /\ Len(f) = (n - h) + 1 /\ f[(n - h) + 1] = c
          /\ \A i \in 1..(n - h) : f[i] = e[i]
      BY <2>3
    <3> HIDE DEF f
    <3>2. ASSUME NEW i \in 1..Len(d) PROVE d[i] = f[i]
      <4>1. i \in 1..((n + 1) - h) /\ d[i] = u[h + i]
        BY <2>2
      <4>2. CASE i = (n - h) + 1
        <5>1. h + i = n + 1
          BY <1>1, <4>2
        <5> QED
          BY <1>1, <3>1, <4>1, <4>2, <5>1
      <4>3. CASE i # (n - h) + 1
        <5>1. i \in 1..(n - h) /\ h + i \in 1..n
          BY <1>1, <4>1, <4>3
        <5> QED
          BY <1>1, <2>3, <3>1, <4>1, <5>1
      <4> QED
        BY <4>2, <4>3
    <3>3. Len(d) = Len(f)
      BY <1>1, <2>2, <3>1
    <3> QED
      BY <2>2, <3>1, <3>2, <3>3 DEF f
  <2> QED
    BY <2>4, <2>5 DEF a, b, d, e
<1>3. Before(u, n + 1) = p
  <2>1. n + 1 \in 1..Len(u) /\ (n + 1) - 1 = n
    BY <1>1
  <2> DEFINE a == Before(u, n + 1)
  <2>2. a \in Seq(Chars) /\ Len(a) = n /\ \A i \in 1..n : a[i] = u[i]
    BY <1>1, <2>1, SidesOK
  <2> HIDE DEF a
  <2>3. \A i \in 1..Len(a) : a[i] = p[i]
    BY <1>1, <2>2
  <2>4. a = p
    BY <2>2, <2>3 DEF n
  <2> QED
    BY <2>4 DEF a
<1>4. Behind(u, n + 1) = <<>>
  <2>1. n + 1 \in 1..Len(u) /\ Len(u) - (n + 1) = 0
    BY <1>1
  <2>2. Behind(u, n + 1) \in Seq(Chars) /\ Len(Behind(u, n + 1)) = 0
    BY <1>1, <2>1, SidesOK
  <2> QED
    BY <2>2
<1> QED
  BY <1>1, <1>2, <1>3, <1>4 DEF u, n

\* A pushed digit: a variable goes on holding its number as long as that
\* fits, whatever the wrapped product was before.
LEMMA HoldsPushed ==
  ASSUME NEW s \in Seq(Chars), NEW c \in Chars, NEW a \in ULong,
         IF s = <<>> THEN a = 0 ELSE Holds(a, Numeral(s))
  PROVE  Holds(Pushed(a, c), Numeral(Append(s, c)))
<1> DEFINE n == IF s = <<>> THEN 0 ELSE Numeral(s)
           m == Numeral(Append(s, c))
<1>1. c[2] \in Nat
  BY CharOK
<1>2. n \in Nat /\ m = n * 10 + c[2] /\ (s # <<>> => Numeral(s) \in Nat)
  BY NumeralAppend
<1>3. n < ULongMax => a = n
  BY <1>2 DEF Holds, Absent
<1> HIDE DEF n, m
<1>4. ASSUME m < ULongMax PROVE Pushed(a, c) = m
  <2>1. n < ULongMax /\ m \in Nat /\ ULongMax \in Nat
    BY <1>1, <1>2, <1>4, WidthAssumption
  <2>2. a * 10 + c[2] = m
    BY <1>2, <1>3, <2>1
  <2>3. ASSUME NEW x \in Nat, NEW y \in Nat, x < y PROVE x % y = x
    BY <2>3
  <2>4. m < ULongMax + 1 /\ ULongMax + 1 \in Nat
    BY <1>4, <2>1
  <2> QED
    BY <2>1, <2>2, <2>3, <2>4 DEF Pushed
<1>5. m # Absent
  BY <1>1, <1>2 DEF Absent
<1> QED
  BY <1>4, <1>5 DEF Holds, m

\* ranges_fixup gives a range that stands for a plain piece the bytes the
\* piece asks for, and drops it when there are none.
LEMMA FixedResolves ==
  ASSUME NEW r \in ByteRange, NEW p, filesize \in FileSizes, Stands(r, p),
         Pair(p).first \in Nat \cup {Absent}, Pair(p).last \in Nat \cup {Absent},
         Ordinary(Pair(p)), ShortSuffix(Pair(p), filesize)
  PROVE  /\ Fixed(r) = Resolve(Pair(p), filesize)
         /\ ~Invalid(Fixed(r)) <=> Resolve(Pair(p), filesize).start <= Resolve(Pair(p), filesize).stop
<1> DEFINE f == Pair(p).first
           l == Pair(p).last
           w == Resolve(Pair(p), filesize)
<1>1. /\ filesize \in Nat /\ 1 <= filesize /\ filesize <= ULongMax \div 2
      /\ ULongMax \in Nat /\ UIntMax \in Nat /\ ULongMax \div 2 <= ULongMax /\ UIntMax <= ULongMax
      /\ ULongMax \div 2 \in Nat
  BY SizesAssumption, WidthAssumption
<1>2. r = [start |-> r.start, stop |-> r.stop] /\ r.start \in Nat /\ r.stop \in Nat
  BY WidthAssumption DEF ByteRange, ULong
<1>3. /\ f \in Nat \cup {Absent} /\ l \in Nat \cup {Absent} /\ Absent = -1
      /\ f < ULongMax /\ l < ULongMax /\ l # UIntMax /\ (f # Absent \/ l # Absent)
      /\ f = Absent => l < filesize
  BY DEF Ordinary, ShortSuffix, Absent
<1>4. /\ r.start = IF f = Absent THEN ULongMax ELSE f
      /\ r.stop = IF l = Absent THEN ULongMax ELSE l
  BY <1>3 DEF Stands, Holds
<1>5. w = IF f = Absent
          THEN [start |-> IF l > filesize THEN 0 ELSE filesize - l, stop |-> filesize - 1]
          ELSE [start |-> f, stop |-> IF l = Absent \/ l >= filesize THEN filesize - 1 ELSE l]
  BY DEF Resolve
<1> HIDE DEF f, l, w
<1>6. CASE f = Absent
  <2>1. l \in Nat /\ l < filesize /\ r.stop = l /\ r.start = ULongMax
    BY <1>3, <1>4, <1>6
  <2>2. Clamped(r) = r
    BY <1>1, <1>3, <2>1 DEF Clamped
  <2>3. (filesize - l) % (ULongMax + 1) = filesize - l
    <3>1. ASSUME NEW x \in Nat, NEW y \in Nat, x < y PROVE x % y = x
      BY <3>1
    <3>2. filesize - l \in Nat /\ ULongMax + 1 \in Nat /\ filesize - l < ULongMax + 1
      BY <1>1, <2>1
    <3> QED
      BY <3>1, <3>2
  <2>4. Fixed(r) = [start |-> filesize - l, stop |-> filesize - 1]
    BY <2>1, <2>2, <2>3 DEF Fixed
  <2>5. w = [start |-> filesize - l, stop |-> filesize - 1]
    BY <1>1, <1>5, <1>6, <2>1
  <2>6. ~(filesize - l > ULongMax \div 2)
    BY <1>1, <2>1
  <2>7. ~(filesize - l > filesize - 1) <=> filesize - l <= filesize - 1
    BY <1>1, <2>1
  <2> QED
    BY <2>4, <2>5, <2>6, <2>7 DEF Invalid, w
<1>7. CASE f # Absent
  <2>1. r.start = f /\ f \in Nat /\ f # ULongMax
    BY <1>1, <1>3, <1>4, <1>7
  <2> DEFINE b == IF l = Absent \/ l >= filesize THEN filesize - 1 ELSE l
  <2>2. b \in Nat /\ b < filesize
    BY <1>1, <1>3
  <2>3. (r.stop = UIntMax \/ r.stop >= filesize) <=> (l = Absent \/ l >= filesize)
    BY <1>1, <1>3, <1>4
  <2>4. [r EXCEPT !.stop = filesize - 1] = [start |-> f, stop |-> filesize - 1]
    BY <1>2, <2>1
  <2>5. l # Absent => r = [start |-> f, stop |-> l]
    BY <1>2, <1>4, <2>1
  <2>6. Clamped(r) = [start |-> f, stop |-> b]
    BY <2>3, <2>4, <2>5 DEF Clamped
  <2>7. w = [start |-> f, stop |-> b]
    BY <1>5, <1>7
  <2> HIDE DEF b
  <2>8. Fixed(r) = [start |-> f, stop |-> b]
    BY <2>1, <2>6 DEF Fixed
  <2>9. f <= b => ~(f > ULongMax \div 2)
    BY <1>1, <2>1, <2>2
  <2>10. ~(f > b) <=> f <= b
    BY <2>1, <2>2
  <2> QED
    BY <2>7, <2>8, <2>9, <2>10 DEF Invalid, w
<1> QED
  BY <1>6, <1>7

-----------------------------------------------------------------------------
\* The state table, for the characters of a legal header.
LEMMA TableEntries ==
  /\ stable("initial")[digit] = PB /\ stable("initial")[comma] = Go("initial")
  /\ stable("initial")[hyphen] = <<"DB", "-", "gap2">> /\ stable("initial")[null] = Go("initial")
  /\ stable("startnum")[digit] = PB /\ stable("startnum")[comma] = AR
  /\ stable("startnum")[hyphen] = Go("gap2") /\ stable("startnum")[null] = AR
  /\ stable("gap2")[digit] = PE /\ stable("gap2")[comma] = DE_SR
  /\ stable("gap2")[hyphen] = AR /\ stable("gap2")[null] = DE_SR
  /\ stable("stopnum")[digit] = PE /\ stable("stopnum")[comma] = SR
  /\ stable("stopnum")[hyphen] = AR /\ stable("stopnum")[null] = SR
  /\ \A m \in Modes : stable(m)[other] = AR
<1> USE DEF digit, white, comma, hyphen, null, other
<1>1. /\ stable("initial")[digit] = PB /\ stable("initial")[comma] = Go("initial")
      /\ stable("initial")[hyphen] = <<"DB", "-", "gap2">> /\ stable("initial")[null] = Go("initial")
      /\ stable("initial")[other] = AR
  BY DEF stable
<1>2. /\ stable("startnum")[digit] = PB /\ stable("startnum")[comma] = AR
      /\ stable("startnum")[hyphen] = Go("gap2") /\ stable("startnum")[null] = AR
      /\ stable("startnum")[other] = AR
  BY DEF stable
<1>3. /\ stable("gap2")[digit] = PE /\ stable("gap2")[comma] = DE_SR
      /\ stable("gap2")[hyphen] = AR /\ stable("gap2")[null] = DE_SR
      /\ stable("gap2")[other] = AR
  BY DEF stable
<1>4. /\ stable("stopnum")[digit] = PE /\ stable("stopnum")[comma] = SR
      /\ stable("stopnum")[hyphen] = AR /\ stable("stopnum")[null] = SR
      /\ stable("stopnum")[other] = AR
  BY DEF stable
<1>5. stable("gap1")[other] = AR
  BY DEF stable
<1> QED
  BY <1>1, <1>2, <1>3, <1>4, <1>5 DEF Modes

\* What range_parse does with a character, unless it refuses the header.
Keeps(a, b, m) == start' = a /\ stop' = b /\ mode' = m /\ ranges' = ranges
Submits(a, b)  == /\ ranges' = Append(ranges, [start |-> a, stop |-> b])
                  /\ start' = 0 /\ stop' = 0 /\ mode' = "initial"

LEMMA ParseMoves ==
  ASSUME NEW c \in Chars, ParseChar(c), phase' # "refused", c[1] # white,
         mode \in {"initial", "startnum", "gap2", "stopnum"}
  PROVE  /\ phase = "parse" /\ phase' = IF c = Null THEN "headers" ELSE "parse"
         /\ input' = Append(input, c) /\ headers' = headers
         /\ \/ c[1] = digit /\ mode \in {"initial", "startnum"} /\ Keeps(Pushed(start, c), stop, "startnum")
            \/ c[1] = digit /\ mode \in {"gap2", "stopnum"} /\ Keeps(start, Pushed(stop, c), "stopnum")
            \/ c[1] = hyphen /\ mode = "initial" /\ Keeps(ULongMax, stop, "gap2")
            \/ c[1] = hyphen /\ mode = "startnum" /\ Keeps(start, stop, "gap2")
            \/ c[1] \in {comma, null} /\ mode = "initial" /\ Keeps(start, stop, "initial")
            \/ c[1] \in {comma, null} /\ mode = "gap2" /\ Submits(start, ULongMax)
            \/ c[1] \in {comma, null} /\ mode = "stopnum" /\ Submits(start, stop)
<1> DEFINE f == stable(mode)[c[1]]
           a == NewStart(f, c)
           b == NewStop(f, c)
<1>1. /\ phase = "parse" /\ input' = Append(input, c) /\ headers' = headers
      /\ phase' = IF c = Null THEN "headers" ELSE "parse"
      /\ \/ /\ f[2] = "SR" /\ start' = 0 /\ stop' = 0 /\ mode' = f[3]
            /\ ranges' = Append(ranges, [start |-> a, stop |-> b])
         \/ f[2] = "-" /\ start' = a /\ stop' = b /\ mode' = f[3] /\ ranges' = ranges
  BY DEF ParseChar, Abort, Submit, request
<1>2. f[2] # "AR"
  BY <1>1
<1>3. c[1] \in {digit, comma, hyphen, null, other}
  BY CharOK DEF digit, white, comma, hyphen, null, other
<1>4. a = (IF f[1] = "PB" THEN Pushed(start, c) ELSE IF f[1] = "DB" THEN ULongMax ELSE start)
  BY DEF NewStart
<1>5. b = (IF f[1] = "PE" THEN Pushed(stop, c) ELSE IF f[1] = "DE" THEN ULongMax ELSE stop)
  BY DEF NewStop
<1> HIDE DEF a, b
<1> USE DEF PB, PE, Go, SR, DE_SR, AR, Keeps, Submits
<1>6. c[1] # other
  BY <1>2, TableEntries DEF Modes
<1>7. CASE c[1] = digit
  BY <1>1, <1>4, <1>5, <1>7, TableEntries
<1>8. CASE c[1] = hyphen
  BY <1>1, <1>2, <1>4, <1>5, <1>8, TableEntries
<1>9. CASE c[1] = comma
  BY <1>1, <1>2, <1>4, <1>5, <1>9, TableEntries
<1>10. CASE c[1] = null
  BY <1>1, <1>2, <1>4, <1>5, <1>10, TableEntries
<1> QED
  BY <1>1, <1>3, <1>6, <1>7, <1>8, <1>9, <1>10

\* Reading one more character of a piece: the digits and the hyphen.
LEMMA ReadsOn ==
  ASSUME NEW c \in Chars, NEW p \in Seq(Chars), start \in ULong, stop \in ULong,
         Reading(mode, start, stop, p),
         \/ c[1] = digit /\ mode \in {"initial", "startnum"} /\ Keeps(Pushed(start, c), stop, "startnum")
         \/ c[1] = digit /\ mode \in {"gap2", "stopnum"} /\ Keeps(start, Pushed(stop, c), "stopnum")
         \/ c[1] = hyphen /\ mode = "initial" /\ Keeps(ULongMax, stop, "gap2")
         \/ c[1] = hyphen /\ mode = "startnum" /\ Keeps(start, stop, "gap2")
  PROVE  Reading(mode', start', stop', Append(p, c))
<1> DEFINE u == Append(p, c)
           n == Len(p)
<1>1. /\ u \in Seq(Chars) /\ n \in Nat /\ Len(u) = n + 1 /\ u[n + 1] = c /\ u # <<>>
      /\ \A i \in 1..n : u[i] = p[i]
  OBVIOUS
<1>2. /\ \A h \in 1..n : Before(u, h) = Before(p, h) /\ Behind(u, h) = Append(Behind(p, h), c)
      /\ Before(u, n + 1) = p /\ Behind(u, n + 1) = <<>>
  BY SidesAppend
<1>3. p = <<>> <=> n = 0
  BY <1>1
<1>4. AllDigits(<<>>)
  BY DEF AllDigits
<1> HIDE DEF n, u
<1>5. CASE c[1] = digit /\ mode \in {"initial", "startnum"} /\ Keeps(Pushed(start, c), stop, "startnum")
  <2>1. AllDigits(p) /\ stop = 0 /\ (IF p = <<>> THEN start = 0 ELSE Holds(start, Numeral(p)))
    BY <1>4, <1>5 DEF Reading
  <2>2. AllDigits(u)
    <3>1. \A i \in 1..(n + 1) : i = n + 1 \/ i \in 1..n
      BY <1>1
    <3>2. \A i \in 1..n : p[i][1] = digit
      BY <2>1 DEF AllDigits, n
    <3> QED
      BY <1>1, <1>5, <3>1, <3>2 DEF AllDigits
  <2>3. Holds(Pushed(start, c), Numeral(u))
    BY <2>1, HoldsPushed DEF u
  <2>4. mode' = "startnum" /\ start' = Pushed(start, c) /\ stop' = 0
    BY <1>5, <2>1 DEF Keeps
  <2> QED
    BY <1>1, <2>2, <2>3, <2>4 DEF Reading, u
<1>6. CASE c[1] = digit /\ mode \in {"gap2", "stopnum"} /\ Keeps(start, Pushed(stop, c), "stopnum")
  <2>1. PICK h \in 1..n : /\ AfterHyphen(p, h, start)
                          /\ IF Behind(p, h) = <<>> THEN stop = 0 ELSE Holds(stop, Numeral(Behind(p, h)))
    <3>1. CASE mode = "gap2"
      <4>1. n \in 1..n /\ AfterHyphen(p, n, start) /\ stop = 0
        BY <1>1, <1>3, <3>1 DEF Reading, n
      <4>2. Behind(p, n) \in Seq(Chars) /\ Len(Behind(p, n)) = n - n
        BY <4>1, SidesOK DEF n
      <4>3. Behind(p, n) = <<>>
        BY <1>1, <4>2
      <4> QED
        BY <4>1, <4>3
    <3>2. CASE mode = "stopnum"
      <4>1. PICK h \in 1..(n - 1) : AfterHyphen(p, h, start) /\ Holds(stop, Numeral(Behind(p, h)))
        BY <3>2 DEF Reading, n
      <4>2. h \in 1..n
        BY <1>1
      <4>3. Len(Behind(p, h)) = n - h
        BY <4>2, SidesOK DEF n
      <4>4. Len(Behind(p, h)) # 0
        BY <1>1, <4>1, <4>3
      <4>5. Behind(p, h) # <<>>
        BY <4>4
      <4> QED
        BY <4>1, <4>2, <4>5
    <3> QED
      BY <1>6, <3>1, <3>2
  <2> DEFINE e == Behind(p, h)
  <2>2. e \in Seq(Chars) /\ AllDigits(e)
    BY <2>1, SidesOK DEF AfterHyphen, n
  <2>3. Before(u, h) = Before(p, h) /\ Behind(u, h) = Append(e, c) /\ u[h] = p[h]
    BY <1>1, <1>2
  <2> HIDE DEF e
  <2>4. Holds(Pushed(stop, c), Numeral(Append(e, c)))
    BY <2>1, <2>2, HoldsPushed DEF e
  <2>5. AllDigits(Append(e, c))
    <3> DEFINE v == Append(e, c)
    <3>1. /\ Len(v) = Len(e) + 1 /\ v[Len(e) + 1] = c /\ Len(e) \in Nat
          /\ \A i \in 1..Len(e) : v[i] = e[i]
      BY <2>2
    <3>2. \A i \in 1..(Len(e) + 1) : i = Len(e) + 1 \/ i \in 1..Len(e)
      BY <3>1
    <3> HIDE DEF v
    <3>3. AllDigits(v)
      BY <1>6, <2>2, <3>1, <3>2 DEF AllDigits
    <3> QED
      BY <3>3 DEF v
  <2>6. AfterHyphen(u, h, start)
    BY <2>1, <2>3, <2>5 DEF AfterHyphen
  <2>7. h \in 1..(Len(u) - 1)
    BY <1>1
  <2>8. mode' = "stopnum" /\ start' = start /\ stop' = Pushed(stop, c)
    BY <1>6 DEF Keeps
  <2>9. Reading("stopnum", start, Pushed(stop, c), u)
    BY <2>3, <2>4, <2>6, <2>7 DEF Reading
  <2> QED
    BY <2>8, <2>9 DEF u
<1>7. CASE c[1] = hyphen /\ mode \in {"initial", "startnum"} /\ mode' = "gap2" /\ stop' = stop
           /\ start' = IF mode = "initial" THEN ULongMax ELSE start
  <2>1. AllDigits(p) /\ stop = 0 /\ Holds(start', Numeral(p))
    <3>1. CASE mode = "initial"
      BY <1>4, <1>7, <3>1 DEF Reading, Holds, Numeral
    <3>2. CASE mode = "startnum"
      BY <1>7, <3>2 DEF Reading
    <3> QED
      BY <1>7, <3>1, <3>2
  <2>2. AfterHyphen(u, n + 1, start')
    BY <1>1, <1>2, <1>4, <1>7, <2>1 DEF AfterHyphen
  <2>3. AfterHyphen(u, Len(u), start')
    BY <1>1, <2>2
  <2> QED
    BY <1>1, <1>7, <2>1, <2>3 DEF Reading, u
<1> QED
  BY <1>5, <1>6, <1>7 DEF Keeps

\* A piece that is read to its end: the range submitted stands for it.
LEMMA ReadsToEnd ==
  ASSUME NEW p \in Seq(Chars), NEW r, Reading(mode, start, stop, p),
         \/ mode = "gap2" /\ r = [start |-> start, stop |-> ULongMax]
         \/ mode = "stopnum" /\ r = [start |-> start, stop |-> stop]
  PROVE  Stands(r, p) /\ p # <<>>
<1>1. Len(p) \in Nat
  OBVIOUS
<1>2. CASE mode = "gap2" /\ r = [start |-> start, stop |-> ULongMax]
  <2>1. p # <<>> /\ AfterHyphen(p, Len(p), start)
    BY <1>2 DEF Reading
  <2>2. Len(p) \in 1..Len(p)
    BY <2>1
  <2>3. Behind(p, Len(p)) \in Seq(Chars) /\ Len(Behind(p, Len(p))) = Len(p) - Len(p)
    BY <2>2, SidesOK
  <2>4. Behind(p, Len(p)) = <<>>
    BY <1>1, <2>3
  <2>5. /\ WellFormed(p)
        /\ Pair(p) = [first |-> Numeral(Before(p, Len(p))), last |-> Numeral(Behind(p, Len(p)))]
    BY <2>1, <2>2, PairAt DEF AfterHyphen
  <2>6. Numeral(Behind(p, Len(p))) = Absent
    BY <2>4 DEF Numeral
  <2> QED
    BY <1>2, <2>1, <2>5, <2>6 DEF Stands, Holds, AfterHyphen
<1>3. CASE mode = "stopnum" /\ r = [start |-> start, stop |-> stop]
  <2>1. PICK h \in 1..(Len(p) - 1) : AfterHyphen(p, h, start) /\ Holds(stop, Numeral(Behind(p, h)))
    BY <1>3 DEF Reading
  <2>2. h \in 1..Len(p)
    BY <1>1
  <2>3. /\ WellFormed(p)
        /\ Pair(p) = [first |-> Numeral(Before(p, h)), last |-> Numeral(Behind(p, h))]
    BY <2>1, <2>2, PairAt DEF AfterHyphen
  <2>4. p # <<>>
    BY <2>2
  <2> QED
    BY <1>3, <2>1, <2>3, <2>4 DEF Stands, AfterHyphen
<1> QED
  BY <1>2, <1>3

-----------------------------------------------------------------------------
\* The terminator taken off again.
LEMMA FrontAppend ==
  ASSUME NEW S, NEW t \in Seq(S), NEW c \in S
  PROVE  Front(Append(t, c)) = t /\ Append(t, c) # <<>>
<1> DEFINE u == Append(t, c)
           n == Len(t)
<1>1. u \in Seq(S) /\ n \in Nat /\ Len(u) = n + 1 /\ \A i \in 1..n : u[i] = t[i] /\ u[i] \in S
  OBVIOUS
<1> HIDE DEF u
<1>2. Front(u) = SubSeq(u, 1, n)
  BY <1>1 DEF Front
<1>3. /\ SubSeq(u, 1, n) \in Seq(S)
      /\ Len(SubSeq(u, 1, n)) = IF 1 <= n THEN n - 1 + 1 ELSE 0
      /\ \A i \in 1..(n - 1 + 1) : SubSeq(u, 1, n)[i] = u[1 + i - 1]
  <2>1. n \in Int /\ 1 \in Int /\ \A i \in 1..n : u[i] \in S
    BY <1>1
  <2> QED
    BY <2>1, SubSeqProperties
<1>4. n - 1 + 1 = n /\ \A i \in 1..n : 1 + i - 1 = i
  BY <1>1
<1>5. Len(SubSeq(u, 1, n)) = n /\ \A i \in 1..n : SubSeq(u, 1, n)[i] = t[i]
  BY <1>1, <1>3, <1>4
<1>6. SubSeq(u, 1, n) = t
  BY <1>3, <1>5
<1>7. u # <<>>
  BY <1>1
<1> QED
  BY <1>2, <1>6, <1>7 DEF u

\* Before any header.
LEMMA InitAsked == Init => AskedInv
BY DEF Init, AskedInv, OneHeader

\* The Range header begins; another one is not looked at here.
LEMMA HeaderAsked ==
  ASSUME Inv, AskedInv, IgnoreHeader \/ WrongUnit \/ BeginParse
  PROVE  AskedInv'
<1>1. /\ phase = "headers" /\ headers' = headers + 1 /\ headers \in Nat
      /\ UNCHANGED <<input, ranges>> /\ phase' \in {"headers", "refused", "parse"}
      /\ phase' = "parse" => mode' = "initial" /\ start' = 0 /\ stop' = 0
  BY BoundsAssumption
     DEF IgnoreHeader, WrongUnit, BeginParse, HeaderSeen, history, answer, request, Inv, TypeOK
<1>2. headers' # 0 /\ headers' >= 1
  BY <1>1
<1>3. headers' = 1 => input' = <<>> /\ ranges' = <<>>
  BY <1>1 DEF AskedInv
<1>4. phase' = "parse" /\ headers' = 1 => ParsedSoFar(input)'
  <2> SUFFICES ASSUME phase' = "parse", headers' = 1 PROVE ParsedSoFar(input)'
    OBVIOUS
  <2>1. input' = <<>> /\ ranges' = <<>> /\ Cut(input') = << <<>> >>
    <3>1. <<>> \in Seq(Chars) /\ Null \in Chars
      BY DEF Chars, Null
    <3> QED
      BY <1>3, <3>1, CutAppend
  <2>2. Last(Cut(input')) = <<>> /\ Len(Cut(input')) = 1 /\ Len(ranges') = 0
    BY <2>1 DEF Last
  <2> QED
    BY <1>1, <2>1, <2>2 DEF ParsedSoFar, Reading
<1> QED
  BY <1>1, <1>2, <1>3, <1>4 DEF AskedInv, OneHeader

\* One character more of the only header.
LEMMA ParseAsked ==
  ASSUME Inv, AskedInv, NEW c \in Chars, ParseChar(c)
  PROVE  AskedInv'
<1> DEFINE q == Cut(input)
<1>0. /\ input \in Seq(Chars) /\ start \in ULong /\ stop \in ULong
      /\ ranges \in Seq(ByteRange) /\ headers \in Nat
  BY BoundsAssumption DEF Inv, TypeOK
<1>1. /\ phase = "parse" /\ phase' \in {"refused", "headers", "parse"}
      /\ input' = Append(input, c) /\ headers' = headers /\ headers >= 1
  BY DEF ParseChar, Abort, AskedInv
<1>2. input' \in Seq(Chars) /\ Front(input') = input /\ input' # <<>>
  BY <1>0, <1>1, FrontAppend
<1>3. q \in Texts /\ Cut(input') = Extended(q, c)
  BY <1>0, <1>1, CutAppend
<1> HIDE DEF q
<1>4. Len(q) \in Nat /\ Len(q) >= 1 /\ Last(q) = q[Len(q)] /\ Last(q) \in Seq(Chars)
  BY <1>3, LastPiece
<1>5. CASE phase' = "refused" \/ headers # 1 \/ ~NoWhite(input)
  <2>1. NoWhite(input') => NoWhite(input)
    <3>1. Len(input') = Len(input) + 1 /\ \A i \in 1..Len(input) : input'[i] = input[i]
      BY <1>0, <1>1
    <3>2. \A i \in 1..Len(input) : i \in 1..Len(input')
      BY <1>0, <3>1
    <3> QED
      BY <3>1, <3>2 DEF NoWhite
  <2>2. Text' = input
    BY <1>2 DEF Text
  <2>3. headers' # 0
    BY <1>0, <1>1
  <2>4. OneHeader' => headers' = 1 /\ NoWhite(input)
    BY <2>2 DEF OneHeader, NoWhite
  <2> QED
    BY <1>1, <1>5, <2>1, <2>3, <2>4 DEF AskedInv
<1>6. CASE phase' # "refused" /\ headers = 1 /\ NoWhite(input)
  <2>1. /\ Len(q) = Len(ranges) + 1
        /\ \A k \in 1..Len(ranges) : Stands(ranges[k], q[k])
        /\ Reading(mode, start, stop, Last(q))
    BY <1>1, <1>6 DEF AskedInv, ParsedSoFar, q
  <2>2. mode \in {"initial", "startnum", "gap2", "stopnum"}
    BY <2>1 DEF Reading
  <2>3. Len(ranges) \in Nat
    BY <1>0
  <2>4. /\ mode = "initial" <=> Last(q) = <<>>
        /\ mode = "initial" => Reading("initial", 0, 0, <<>>) /\ start = 0 /\ stop = 0
    <3>1. \A h \in 1..(Len(Last(q)) - 1) : Last(q) # <<>>
      BY <1>4
    <3> QED
      BY <2>1, <3>1 DEF Reading
  <2>5. CASE c[1] = white
    <3>1. c # Null /\ phase' = "parse"
      BY <1>1, <1>6, <2>5 DEF Null, null, white, ParseChar, Abort
    <3>2. ~NoWhite(input')
      <4>1. Len(input') = Len(input) + 1 /\ input'[Len(input) + 1] = c /\ Len(input) \in Nat
        BY <1>0, <1>1
      <4>2. Len(input) + 1 \in 1..Len(input')
        BY <4>1
      <4> QED
        BY <2>5, <4>1, <4>2 DEF NoWhite
    <3> QED
      BY <1>1, <3>1, <3>2 DEF AskedInv
  <2>6. CASE c[1] # white
    <3>1. /\ phase' = IF c = Null THEN "headers" ELSE "parse"
          /\ \/ c[1] = digit /\ mode \in {"initial", "startnum"} /\ Keeps(Pushed(start, c), stop, "startnum")
             \/ c[1] = digit /\ mode \in {"gap2", "stopnum"} /\ Keeps(start, Pushed(stop, c), "stopnum")
             \/ c[1] = hyphen /\ mode = "initial" /\ Keeps(ULongMax, stop, "gap2")
             \/ c[1] = hyphen /\ mode = "startnum" /\ Keeps(start, stop, "gap2")
             \/ c[1] \in {comma, null} /\ mode = "initial" /\ Keeps(start, stop, "initial")
             \/ c[1] \in {comma, null} /\ mode = "gap2" /\ Submits(start, ULongMax)
             \/ c[1] \in {comma, null} /\ mode = "stopnum" /\ Submits(start, stop)
      BY <1>6, <2>2, <2>6, ParseMoves
    <3>2. c[1] = null <=> c = Null
      BY CharOK
    <3>3. digit # comma /\ hyphen # comma /\ null # comma /\ digit # null /\ hyphen # null
      BY DEF digit, comma, hyphen, null
    \* digits and the hyphen: the last piece grows
    <3>4. CASE c[1] \in {digit, hyphen}
      <4>1. Reading(mode', start', stop', Append(Last(q), c))
        BY <1>0, <1>4, <2>1, <3>1, <3>3, <3>4, ReadsOn
      <4>2. phase' = "parse" /\ ranges' = ranges
        BY <3>1, <3>2, <3>3, <3>4 DEF Keeps
      <4>3. /\ Len(Cut(input')) = Len(q) /\ Last(Cut(input')) = Append(Last(q), c)
            /\ \A k \in 1..(Len(q) - 1) : Cut(input')[k] = q[k]
        BY <1>3, <3>3, <3>4, ExtendedOK
      <4>4. \A k \in 1..Len(ranges) : k \in 1..(Len(q) - 1)
        BY <2>1, <2>3
      <4>5. ParsedSoFar(input)'
        BY <2>1, <4>1, <4>2, <4>3, <4>4 DEF ParsedSoFar
      <4> QED
        BY <1>1, <4>2, <4>5 DEF AskedInv
    \* a comma or the end after nothing
    <3>5. CASE c[1] \in {comma, null} /\ mode = "initial"
      <4>1. ranges' = ranges /\ mode' = "initial" /\ start' = start /\ stop' = stop
        BY <3>1, <3>3, <3>5 DEF Keeps
      <4>2. CASE c[1] = comma
        <5>1. Cut(input') = q
          BY <1>3, <2>4, <3>5, <4>2, ExtendedOK
        <5>2. ParsedSoFar(input)'
          BY <2>1, <3>5, <4>1, <5>1 DEF ParsedSoFar
        <5> QED
          BY <1>1, <3>1, <3>2, <3>3, <4>2, <5>2 DEF AskedInv
      <4>3. CASE c[1] = null
        <5>1. Pieces(input) = Front(q)
          BY <2>4, <3>5 DEF Pieces, q
        <5>2. Len(Front(q)) = Len(q) - 1 /\ \A k \in 1..(Len(q) - 1) : Front(q)[k] = q[k]
          BY <1>3, LastPiece
        <5>3. Len(q) - 1 = Len(ranges)
          BY <2>1, <2>3
        <5>4. StandFor(ranges, Front(q))
          BY <2>1, <5>2, <5>3 DEF StandFor
        <5>5. StandFor(ranges, Pieces(Text))'
          BY <1>2, <4>1, <5>1, <5>4 DEF Text
        <5> QED
          BY <1>1, <1>6, <3>1, <3>2, <4>3, <5>5 DEF AskedInv
      <4> QED
        BY <3>5, <4>2, <4>3
    \* a comma or the end after a piece
    <3>6. CASE c[1] \in {comma, null} /\ mode # "initial"
      <4> DEFINE r == IF mode = "gap2" THEN [start |-> start, stop |-> ULongMax]
                      ELSE [start |-> start, stop |-> stop]
      <4>1. /\ mode \in {"gap2", "stopnum"}
            /\ ranges' = Append(ranges, r)
            /\ start' = 0 /\ stop' = 0 /\ mode' = "initial"
        BY <3>1, <3>3, <3>6 DEF Submits
      <4>2. Stands(r, Last(q)) /\ Last(q) # <<>>
        BY <1>4, <2>1, <4>1, ReadsToEnd
      <4>3. r \in ByteRange
        BY <1>0, WidthAssumption DEF ByteRange, ULong
      <4> HIDE DEF r
      <4>4. /\ Len(ranges') = Len(ranges) + 1 /\ ranges'[Len(ranges) + 1] = r
            /\ \A k \in 1..Len(ranges) : ranges'[k] = ranges[k]
        BY <1>0, <4>1, <4>3
      <4>5. \A k \in 1..Len(q) : Stands(ranges'[k], q[k])
        <5> SUFFICES ASSUME NEW k \in 1..Len(q) PROVE Stands(ranges'[k], q[k])
          OBVIOUS
        <5>1. CASE k = Len(q)
          BY <1>4, <2>1, <4>2, <4>4, <5>1
        <5>2. CASE k # Len(q)
          <6>1. k \in 1..Len(ranges)
            BY <2>1, <2>3, <5>2
          <6> QED
            BY <2>1, <4>4, <6>1
        <5> QED
          BY <5>1, <5>2
      <4>6. CASE c[1] = comma
        <5>1. /\ Len(Cut(input')) = Len(q) + 1 /\ Last(Cut(input')) = <<>>
              /\ \A k \in 1..Len(q) : Cut(input')[k] = q[k]
          BY <1>3, <4>2, <4>6, ExtendedOK
        <5>2. Len(Cut(input')) = Len(ranges') + 1
          BY <1>4, <2>1, <2>3, <4>4, <5>1
        <5>3. \A k \in 1..Len(ranges') : Stands(ranges'[k], Cut(input')[k])
          BY <2>1, <4>4, <4>5, <5>1
        <5>4. Reading(mode', start', stop', Last(Cut(input')))
          BY <4>1, <5>1 DEF Reading
        <5>5. ParsedSoFar(input)'
          BY <5>2, <5>3, <5>4 DEF ParsedSoFar
        <5> QED
          BY <1>1, <3>1, <3>2, <3>3, <4>6, <5>5 DEF AskedInv
      <4>7. CASE c[1] = null
        <5>1. Pieces(input) = q
          BY <4>2 DEF Pieces, q
        <5>2. StandFor(ranges', q)
          BY <2>1, <4>4, <4>5 DEF StandFor
        <5>3. StandFor(ranges, Pieces(Text))'
          BY <1>2, <5>1, <5>2 DEF Text, StandFor
        <5> QED
          BY <1>1, <1>6, <3>1, <3>2, <4>7, <5>3 DEF AskedInv
      <4> QED
        BY <3>6, <4>6, <4>7
    <3> QED
      BY <3>1, <3>4, <3>5, <3>6
  <2> QED
    BY <2>5, <2>6
<1> QED
  BY <1>5, <1>6

\* The pieces of a text are strings.
LEMMA PiecesType ==
  ASSUME NEW t \in Seq(Chars)
  PROVE  Pieces(t) \in Seq(Seq(Chars))
<1>1. Null \in Chars
  BY DEF Chars, Null
<1>2. Cut(t) \in Texts
  BY <1>1, CutAppend
<1>3. Front(Cut(t)) \in Seq(Seq(Chars)) /\ Cut(t) \in Seq(Seq(Chars))
  BY <1>2, LastPiece DEF Texts
<1> QED
  BY <1>3 DEF Pieces

\* The numbers of a well formed piece are natural or absent.
LEMMA PairType ==
  ASSUME NEW p \in Seq(Chars), WellFormed(p)
  PROVE  Pair(p).first \in Nat \cup {Absent} /\ Pair(p).last \in Nat \cup {Absent}
<1>1. PICK h \in 1..Len(p) : Hyphens(p) = {h}
  BY DEF WellFormed
<1>2. (CHOOSE x \in Hyphens(p) : TRUE) = h
  BY <1>1
<1>3. Pair(p) = [first |-> Numeral(Before(p, h)), last |-> Numeral(Behind(p, h))]
  BY <1>2 DEF Pair, Before, Behind
<1>4. Before(p, h) \in Seq(Chars) /\ Behind(p, h) \in Seq(Chars)
  BY SidesOK
<1>5. ASSUME NEW s \in Seq(Chars) PROVE Numeral(s) \in Nat \cup {Absent}
  <2>1. Null \in Chars
    BY DEF Chars, Null
  <2>2. Numeral(<<>>) = Absent /\ (s # <<>> => Numeral(s) \in Nat)
    BY <2>1, NumeralAppend
  <2> QED
    BY <2>2
<1> QED
  BY <1>3, <1>4, <1>5

\* init_get and ranges_fixup: one range after another.
LEMMA InitGetAsked ==
  ASSUME Inv, AskedInv, InitGet
  PROVE  AskedInv'
<1> DEFINE ps == Pieces(Text)
<1>1. /\ phase = "headers" /\ phase' = "fixup" /\ ranges' = <<>>
      /\ partial' = (ranges # <<>>)
      /\ rest' = IF ranges = <<>> THEN <<WholeFile>> ELSE ranges
      /\ UNCHANGED <<input, headers>>
  BY DEF InitGet, history, answer
<1>2. ps' = ps /\ (OneHeader' <=> OneHeader)
  BY <1>1 DEF Text, OneHeader
<1>3. ranges \in Seq(ByteRange)
  BY DEF Inv, TypeOK
<1> HIDE DEF ps
<1>4. ASSUME OneHeader PROVE AllWellFormed(ps) /\ (ps # <<>> => FixedSoFar(ps)')
  <2>1. Len(ranges) = Len(ps) /\ \A k \in 1..Len(ps) : Stands(ranges[k], ps[k])
    BY <1>1, <1>4 DEF AskedInv, StandFor, ps
  <2>2. AllWellFormed(ps)
    BY <2>1 DEF AllWellFormed, Stands
  <2>3. ASSUME ps # <<>> PROVE FixedSoFar(ps)'
    <3>1. Len(ranges) \in Nat
      BY <1>3
    <3>2. ps \in Seq(Seq(Chars))
      <4>1. input \in Seq(Chars) /\ input # <<>>
        BY <1>4 DEF Inv, TypeOK, OneHeader
      <4>2. Text \in Seq(Chars)
        BY <4>1 DEF Text, Front
      <4> QED
        BY <4>2, PiecesType DEF ps
    <3>3. ranges # <<>>
      BY <2>1, <2>3, <3>1, <3>2
    <3>4. partial' /\ rest' = ranges /\ Len(ps) - Len(ranges) = 0
      <4>1. rest' = ranges
        BY <1>1, <3>3
      <4>2. partial'
        BY <1>1, <3>3, Zenon
      <4>3. Len(ps) - Len(ranges) = 0
        BY <2>1, <3>1
      <4> QED
        BY <4>1, <4>2, <4>3
    <3>5. Wanted(ps, filesize')[0] = <<>>
      BY <2>1, <3>1, WantedSteps
    <3>6. \A j \in 1..Len(ranges) : 0 + j = j /\ Stands(ranges[j], ps[j])
      BY <2>1, <3>1
    <3>7. Len(rest') <= Len(ps)
      BY <2>1, <3>1, <3>4
    <3>8. (Len(ps) - Len(rest))' = 0
      BY <1>2, <3>4
    <3> QED
      BY <1>1, <1>2, <3>4, <3>5, <3>6, <3>7, <3>8 DEF FixedSoFar
  <2> QED
    BY <2>2, <2>3
<1>5. /\ OneHeader' => AllWellFormed(Pieces(Text))'
      /\ OneHeader' /\ Pieces(Text)' # <<>> => FixedSoFar(Pieces(Text))'
  BY <1>2, <1>4 DEF ps, AllWellFormed, FixedSoFar
<1> QED
  BY <1>1, <1>5 DEF AskedInv

LEMMA FixupStepAsked ==
  ASSUME Inv, AskedInv, FixupStep
  PROVE  AskedInv'
<1> DEFINE ps == Pieces(Text)
           x == Fixed(Head(rest))
<1>1. /\ phase = "fixup" /\ phase' = "fixup" /\ rest # <<>> /\ rest' = Tail(rest)
      /\ UNCHANGED <<input, headers, filesize, partial>>
      /\ ranges' = IF Invalid(x) THEN ranges ELSE Append(ranges, x)
  BY DEF FixupStep, history, answer
<1>2. ps' = ps /\ (OneHeader' <=> OneHeader)
  BY <1>1 DEF Text, OneHeader
<1>3. filesize \in FileSizes /\ rest \in Seq(ByteRange)
  BY <1>1 DEF Inv, TypeOK, FixedInside
<1>4. /\ Head(rest) \in ByteRange /\ Head(rest) = rest[1] /\ Len(rest) \in Nat /\ Len(rest) >= 1
      /\ Len(Tail(rest)) = Len(rest) - 1
      /\ \A j \in 1..(Len(rest) - 1) : Tail(rest)[j] = rest[j + 1]
  BY <1>1, <1>3
<1> HIDE DEF ps, x
<1>5. ASSUME OneHeader, ps # <<>> PROVE FixedSoFar(ps)'
  <2> DEFINE k == Len(ps) - Len(rest)
             w == Wanted(ps, filesize)
  <2>1. /\ partial /\ Len(rest) <= Len(ps)
        /\ \A j \in 1..Len(rest) : Stands(rest[j], ps[k + j])
        /\ Plain(ps, filesize) => ranges = w[k]
    BY <1>1, <1>5 DEF AskedInv, FixedSoFar, ps
  <2>2. ps \in Seq(Seq(Chars))
    <3>1. input \in Seq(Chars) /\ input # <<>>
      BY <1>5 DEF Inv, TypeOK, OneHeader
    <3>2. Text \in Seq(Chars)
      BY <3>1 DEF Text, Front
    <3> QED
      BY <3>2, PiecesType DEF ps
  <2>3. Len(ps) \in Nat
    BY <2>2
  <2>4. /\ k \in Nat /\ k + 1 \in 1..Len(ps) /\ (k + 1) - 1 = k
        /\ Len(ps) - (Len(rest) - 1) = k + 1 /\ Len(rest) - 1 <= Len(ps)
    BY <1>4, <2>1, <2>3
  <2> HIDE DEF k
  <2>5. /\ Stands(Head(rest), ps[k + 1])
        /\ \A j \in 1..(Len(rest) - 1) : Stands(Tail(rest)[j], ps[(k + 1) + j])
    <3>1. 1 \in 1..Len(rest)
      BY <1>4
    <3>2. \A j \in 1..(Len(rest) - 1) : j + 1 \in 1..Len(rest) /\ k + (j + 1) = (k + 1) + j
      BY <1>4, <2>4
    <3> QED
      BY <1>4, <2>1, <3>1, <3>2
  <2>6. ASSUME Plain(ps, filesize) PROVE ranges' = w[k + 1]
    <3> DEFINE a == Asks(ps, filesize, k + 1)
               p == ps[k + 1]
    <3>1. Ordinary(Pair(p)) /\ ShortSuffix(Pair(p), filesize)
      BY <2>4, <2>6 DEF Plain
    <3>2. p \in Seq(Chars) /\ WellFormed(p)
      BY <2>2, <2>4, <2>5 DEF Stands
    <3>3. x = a /\ (~Invalid(x) <=> a.start <= a.stop)
      <4>1. Pair(p).first \in Nat \cup {Absent} /\ Pair(p).last \in Nat \cup {Absent}
        BY <3>2, PairType
      <4> QED
        BY <1>3, <1>4, <2>5, <3>1, <4>1, FixedResolves DEF x, Asks
    <3>4. \A i \in 1..Len(ps) :
            w[i] = IF Asks(ps, filesize, i).start <= Asks(ps, filesize, i).stop
                   THEN Append(w[i - 1], Asks(ps, filesize, i)) ELSE w[i - 1]
      BY <2>3, WantedSteps
    <3>5. w[k + 1] = IF a.start <= a.stop THEN Append(w[(k + 1) - 1], a) ELSE w[(k + 1) - 1]
      BY <2>4, <3>4
    <3> HIDE DEF a, w
    <3>6. ranges = w[(k + 1) - 1]
      BY <2>1, <2>4, <2>6
    <3> QED
      BY <1>1, <3>3, <3>5, <3>6
  <2>7. Len(rest') = Len(rest) - 1 /\ Len(ps) - Len(rest') = k + 1
    BY <1>1, <1>4, <2>4
  <2> QED
    BY <1>1, <1>2, <2>1, <2>4, <2>5, <2>6, <2>7 DEF FixedSoFar, w
<1>6. OneHeader' => AllWellFormed(Pieces(Text))'
  BY <1>1, <1>2 DEF AskedInv, ps, AllWellFormed
<1>7. OneHeader' /\ Pieces(Text)' # <<>> => FixedSoFar(Pieces(Text))'
  BY <1>2, <1>5 DEF ps, FixedSoFar
<1> QED
  BY <1>1, <1>6, <1>7 DEF AskedInv

\* The answer begins with the first of the ranges that are left.
LEMMA FixupEndAsked ==
  ASSUME Inv, AskedInv, FixupFails \/ FixupSucceeds
  PROVE  AskedInv'
<1> DEFINE ps == Pieces(Text)
<1>1. CASE FixupFails
  BY <1>1 DEF FixupFails, AskedInv
<1>2. CASE FixupSucceeds
  <2>1. /\ phase = "fixup" /\ phase' = "serve" /\ rest = <<>> /\ ranges # <<>>
        /\ parts' = <<Head(ranges)>>
        /\ UNCHANGED <<input, headers, filesize, partial, ranges>>
    BY <1>2 DEF FixupSucceeds, request
  <2>2. ps' = ps /\ (OneHeader' <=> OneHeader)
    BY <2>1 DEF Text, OneHeader
  <2> HIDE DEF ps
  <2>3. ranges \in Seq(ByteRange)
    BY DEF Inv, TypeOK
  <2>4. <<Head(ranges)>> \o Tail(ranges) = ranges
    BY <2>1, <2>3
  <2>5. Answer' = ranges
    BY <2>1, <2>4 DEF Answer
  <2>6. ASSUME OneHeader, ps # <<>> PROVE partial /\ (Plain(ps, filesize) => ranges = Reference(ps, filesize))
    <3>1. partial /\ (Plain(ps, filesize) => ranges = Wanted(ps, filesize)[Len(ps) - Len(rest)])
      BY <2>1, <2>6 DEF AskedInv, FixedSoFar, ps
    <3>2. ps \in Seq(Seq(Chars))
      <4>1. input \in Seq(Chars) /\ input # <<>>
        BY <2>6 DEF Inv, TypeOK, OneHeader
      <4>2. Text \in Seq(Chars)
        BY <4>1 DEF Text, Front
      <4> QED
        BY <4>2, PiecesType DEF ps
    <3>3. Len(ps) - Len(rest) = Len(ps)
      BY <2>1, <3>2
    <3> QED
      BY <3>1, <3>3 DEF Reference
  <2>7. OneHeader' /\ Pieces(Text)' # <<>> => Answered(Pieces(Text))'
    BY <2>1, <2>2, <2>5, <2>6 DEF Answered, ps
  <2>8. OneHeader' => AllWellFormed(Pieces(Text))'
    BY <2>1, <2>2 DEF AskedInv, ps, AllWellFormed
  <2> QED
    BY <2>1, <2>7, <2>8 DEF AskedInv
<1> QED
  BY <1>1, <1>2

\* A part that is finished is followed by the next one that was asked for.
LEMMA WriteAsked ==
  ASSUME Inv, PartsInv, AskedInv, Write
  PROVE  AskedInv'
<1>0. /\ ranges \in Seq(ByteRange) /\ parts \in Seq(ByteRange) /\ numranges \in Nat
      /\ partial \in BOOLEAN
  BY DEF Inv, TypeOK
<1>1. /\ phase = "serve" /\ ranges # <<>> /\ rest = <<>>
      /\ UNCHANGED <<input, headers, filesize, partial>>
  BY DEF Inv, Write, ServesSomething, OnlyFixupHasRest
<1>2. /\ Len(ranges) \in Nat /\ Tail(ranges) \in Seq(ByteRange) /\ Len(Tail(ranges)) = Len(ranges) - 1
  BY <1>0, <1>1, NonEmpty
<1>3. \/ complete_response
      \/ /\ phase' = "serve" /\ parts' = parts
         /\ \E r : ranges' = <<r>> \o Tail(ranges)
  BY <1>1 DEF Write
<1>4. phase' \in {"serve", "done"} /\ (partial => Answer' = Answer)
  <2>1. CASE phase' = "serve" /\ parts' = parts /\ \E r : ranges' = <<r>> \o Tail(ranges)
    <3>1. PICK r : ranges' = <<r>> \o Tail(ranges)
      BY <2>1
    <3>2. Tail(<<r>> \o Tail(ranges)) = Tail(ranges)
      <4> DEFINE S == ByteRange \cup {r}
      <4>1. Tail(ranges) \in Seq(S) /\ <<r>> \in Seq(S)
        BY <1>2
      <4> HIDE DEF S
      <4> QED
        BY <4>1
    <3> QED
      BY <1>1, <2>1, <3>1, <3>2 DEF Answer
  <2>2. CASE complete_response
    <3>1. /\ ranges' = Tail(ranges)
          /\ IF partial /\ numranges > 1 /\ Tail(ranges) # <<>>
             THEN parts' = Append(parts, Head(Tail(ranges))) /\ phase' = "serve"
             ELSE phase' = "done" /\ parts' = parts
      BY <1>1, <2>2 DEF complete_response, PopHead, Multipart
    <3>2. partial /\ Tail(ranges) # <<>> => numranges > 1
      <4>1. partial => Len(ranges) + Len(rest) <= numranges
        BY <1>1 DEF PartsInv, ListCounted
      <4>2. Len(rest) = 0
        BY <1>1
      <4>3. Tail(ranges) # <<>> => Len(Tail(ranges)) >= 1
        BY <1>2, NonEmpty
      <4> QED
        BY <1>0, <1>2, <4>1, <4>2, <4>3
    <3>3. CASE partial /\ Tail(ranges) # <<>>
      <4> DEFINE t == Tail(ranges)
      <4>1. parts' = Append(parts, Head(t)) /\ phase' = "serve" /\ ranges' = t
        BY <3>1, <3>2, <3>3
      <4>2. t \in Seq(ByteRange) /\ t # <<>>
        BY <1>2, <3>3
      <4> HIDE DEF t
      <4>3. Append(parts, Head(t)) \o Tail(t) = parts \o t
        <5>1. Head(t) \in ByteRange /\ Tail(t) \in Seq(ByteRange) /\ t = <<Head(t)>> \o Tail(t)
          BY <4>2
        <5>2. Append(parts, Head(t)) = parts \o <<Head(t)>> /\ <<Head(t)>> \in Seq(ByteRange)
          BY <1>0, <5>1
        <5>3. (parts \o <<Head(t)>>) \o Tail(t) = parts \o (<<Head(t)>> \o Tail(t))
          BY <1>0, <5>1, <5>2, ConcatAssociative
        <5> QED
          BY <5>1, <5>2, <5>3
      <4> QED
        BY <1>1, <4>1, <4>3 DEF Answer, t
    <3>4. CASE ~(partial /\ Tail(ranges) # <<>>)
      <4>1. parts' = parts /\ phase' = "done"
        BY <3>1, <3>4
      <4> QED
        BY <1>1, <3>4, <4>1 DEF Answer
    <3> QED
      BY <3>3, <3>4
  <2> QED
    BY <1>3, <2>1, <2>2
<1>5. Text' = Text /\ (OneHeader' <=> OneHeader)
  BY <1>1 DEF Text, OneHeader
<1>6. OneHeader' => AllWellFormed(Pieces(Text))'
  BY <1>1, <1>5 DEF AskedInv, AllWellFormed
<1>7. OneHeader' /\ Pieces(Text)' # <<>> => Answered(Pieces(Text))'
  <2>1. OneHeader /\ Pieces(Text) # <<>> => Answered(Pieces(Text))
    BY <1>1 DEF AskedInv
  <2> QED
    BY <1>1, <1>4, <1>5, <2>1 DEF Answered
<1> QED
  BY <1>4, <1>6, <1>7 DEF AskedInv

\* free_request forgets the header; emptying the pool touches no request.
LEMMA ReleaseAsked ==
  ASSUME Inv, AskedInv, FreeRequest \/ EmptyPool
  PROVE  AskedInv'
<1>1. CASE FreeRequest
  BY <1>1 DEF FreeRequest, AskedInv, OneHeader
<1>2. CASE EmptyPool
  <2>1. UNCHANGED <<phase, mode, start, stop, ranges, rest, filesize, partial, headers, input, parts>>
    BY <1>2 DEF EmptyPool, parser, request, history, answer
  <2> QED
    BY <2>1 DEF AskedInv, OneHeader, Text, ParsedSoFar, StandFor, AllWellFormed, FixedSoFar, Answered, Answer
<1> QED
  BY <1>1, <1>2

(***************************************************************************)
(* Whatever the widths of the integers, the digits and the length of the   *)
(* header: range_parse lets no malformed header through, and the parts     *)
(* ranges_fixup and complete_response answer it with are the byte ranges   *)
(* its text asks for, all of them and in its order.                        *)
(***************************************************************************)
THEOREM HeaderAnswered == Spec => []AnswersTheHeader
<1>1. Inv /\ PartsInv /\ AskedInv /\ [Next]_vars => AskedInv'
  <2> SUFFICES ASSUME Inv, PartsInv, AskedInv, [Next]_vars PROVE AskedInv'
    OBVIOUS
  <2>1. CASE UNCHANGED vars
    <3>1. UNCHANGED <<phase, mode, start, stop, ranges, rest, filesize, partial, headers, input, parts>>
      BY <2>1 DEF vars, parser, request, history, answer
    <3> QED
      BY <3>1 DEF AskedInv, OneHeader, Text, ParsedSoFar, StandFor, AllWellFormed, FixedSoFar, Answered, Answer
  <2> QED
    BY <2>1, HeaderAsked, ParseAsked, InitGetAsked, FixupStepAsked, FixupEndAsked, WriteAsked,
       ReleaseAsked DEF Next
<1>2. AskedInv => AnswersTheHeader
  BY DEF AskedInv, AnswersTheHeader, AllWellFormed, Answered, Plain
<1> QED
  BY <1>1, <1>2, InitAsked, RangesInvariant, PartsAlways, PTL DEF Spec
=============================================================================
