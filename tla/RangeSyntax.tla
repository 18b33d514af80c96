---------------------------- MODULE RangeSyntax ----------------------------
(***************************************************************************)
(* What a Range header asks for, defined on its text and independently of  *)
(* the state table of range_parse: the value is cut at its commas, a piece *)
(* "a-b", "a-" or "-n" is a pair of numbers, and a pair is resolved        *)
(* against the size of the file as RFC 2616 14.35.1 does.                  *)
(***************************************************************************)
EXTENDS Ranges, SequencesExt

Absent == -1

\* The values of the beginnings of a string of digits, by their lengths.
Values(s) ==
  LET value[n \in 0..Len(s)] == IF n = 0 THEN 0 ELSE value[n - 1] * 10 + s[n][2]
  IN  value

Numeral(s) == IF s = <<>> THEN Absent ELSE Values(s)[Len(s)]

\* Pieces q with one more character: a comma begins a new piece unless the
\* last one is still empty.
Extended(q, c) ==
  IF c[1] # comma THEN [q EXCEPT ![Len(q)] = Append(@, c)]
  ELSE IF Last(q) = <<>> THEN q ELSE Append(q, <<>>)

\* The beginnings of a text cut at their commas, by their lengths.
Cuts(t) ==
  LET cut[n \in 0..Len(t)] == IF n = 0 THEN << <<>> >> ELSE Extended(cut[n - 1], t[n])
  IN  cut

Cut(t)    == Cuts(t)[Len(t)]
Pieces(t) == IF Last(Cut(t)) = <<>> THEN Front(Cut(t)) ELSE Cut(t)

Hyphens(p)    == {i \in 1..Len(p) : p[i][1] = hyphen}
WellFormed(p) == /\ \A i \in 1..Len(p) : p[i][1] \in {digit, hyphen}
                 /\ \E i \in 1..Len(p) : Hyphens(p) = {i}

Pair(p) == LET i == CHOOSE h \in Hyphens(p) : TRUE
           IN  [first |-> Numeral(SubSeq(p, 1, i - 1)), last |-> Numeral(SubSeq(p, i + 1, Len(p)))]

\* the bytes of a file of the given size that a pair stands for
Resolve(w, size) ==
  IF w.first = Absent
  THEN [start |-> IF w.last > size THEN 0 ELSE size - w.last, stop |-> size - 1]
  ELSE [start |-> w.first,
        stop  |-> IF w.last = Absent \/ w.last >= size THEN size - 1 ELSE w.last]

\* What the first pieces of ps ask for, by their number: the ranges that are
\* not empty.
Wanted(ps, size) ==
  LET wanted[k \in 0..Len(ps)] ==
        IF k = 0 THEN <<>>
        ELSE LET r == Resolve(Pair(ps[k]), size)
             IN  IF r.start <= r.stop THEN Append(wanted[k - 1], r) ELSE wanted[k - 1]
  IN  wanted

Reference(ps, size) == Wanted(ps, size)[Len(ps)]

\* numbers that fit their type, no end that ranges_fixup takes for a missing
\* one, and no "-" alone
Ordinary(w) ==
  /\ w.first < ULongMax /\ w.last < ULongMax /\ w.last # UIntMax
  /\ w.first # Absent \/ w.last # Absent

\* "-n" with n smaller than the file
ShortSuffix(w, size) == w.first = Absent => w.last < size

\* the characters of the only header, without its terminator
Text == Front(input)

\* one header, legal characters only
OneHeader == headers = 1 /\ input # <<>> /\ \A i \in 1..Len(Text) : Text[i][1] # white

Answer == parts \o (IF phase = "serve" THEN Tail(ranges) ELSE <<>>)

\* The parts of an answer are the ranges the text of the header asks for,
\* in its order, and a header that is not well formed is never answered.
AnswersTheHeader ==
  phase \in {"serve", "done"} /\ OneHeader =>
    LET ps == Pieces(Text)
    IN  /\ \A k \in 1..Len(ps) : WellFormed(ps[k])
        /\ /\ ps # <<>>
           /\ \A k \in 1..Len(ps) :
                Ordinary(Pair(ps[k])) /\ ShortSuffix(Pair(ps[k]), filesize)
           => Answer = Reference(ps, filesize)
=============================================================================
