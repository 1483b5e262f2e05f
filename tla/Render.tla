------------------------------- MODULE Render -------------------------------
(***************************************************************************)
(* engage/engage.go: what is read out of a marksheet that engage rendered. *)
(*                                                                         *)
(* A render is a sequence of bytes, a byte a one-letter string or one of   *)
(* "TAB", "LF" and "NUL".  Positions are Go's: 0 is the first byte, -1 is  *)
(* nowhere, and buf[i:j] is a slice only if i <= j <= len(buf).            *)
(***************************************************************************)
EXTENDS Integers, SequencesExt

Digits == <<"0", "1", "2", "3", "4", "5", "6", "7", "8", "9">>
Digit  == Range(Digits)
White  == {" ", "TAB", "LF"}

-----------------------------------------------------------------------------
(* The packages bytes, strings, strconv and regexp *)

Slice(buf, i, j) == SubSeq(buf, i + 1, j)
From(buf, i) == Slice(buf, i, Len(buf))

IndexByte(buf, c) == SelectInSeq(buf, LAMBDA b : b = c) - 1
LastIndexByte(buf, c) == SelectLastInSeq(buf, LAMBDA b : b = c) - 1

TrimLeft(s, cut) ==
  LET Kept == {i \in DOMAIN s : s[i] \notin cut}
  IN IF Kept = {} THEN <<>> ELSE SubSeq(s, Min(Kept), Len(s))

TrimRight(s, cut) ==
  LET Kept == {i \in DOMAIN s : s[i] \notin cut}
  IN IF Kept = {} THEN <<>> ELSE SubSeq(s, 1, Max(Kept))

TrimPrefix(s, p) == IF IsPrefix(p, s) THEN From(s, Len(p)) ELSE s

\* Atoi, of strings with fewer digits than an int has.
IsNumber(s) == s # <<>> /\ \A i \in DOMAIN s : s[i] \in Digit
Number(s) == FoldLeft(LAMBDA n, d : 10 * n + IndexByte(Digits, d), 0, s)

\* Where the bytes w stand in buf, and where a run of digits that starts at i ends.
Places(buf, w) ==
  {i \in 0 .. Len(buf) - Len(w) : \A k \in 1..Len(w) : buf[i + k] = w[k]}

DigitsEnd(buf, i) ==
  CHOOSE j \in i .. Len(buf) :
    /\ \A k \in i + 1 .. j : buf[k] \in Digit
    /\ j < Len(buf) => buf[j + 1] \notin Digit

-----------------------------------------------------------------------------
(* What a parser returns *)
NotFound == [is |-> "not_found"]
Failed   == [is |-> "error"]
Panics   == [is |-> "panic"]
Text(text, at) == [is |-> "text", text |-> text, at |-> at]

Open  == <<"<", "a", ">">>
Close == <<"<", "/", "a", ">">>

\* nameRegexp: the first "<a>" that has a "</a>" behind it on its line, up to the
\* first such "</a>".
Links(buf) ==
  {ij \in Places(buf, Open) \X Places(buf, Close) :
     ij[1] + 3 <= ij[2] /\ \A k \in ij[1] + 4 .. ij[2] : buf[k] # "LF"}

FirstLink(links) ==
  CHOOSE l \in links : \A k \in links : l[1] < k[1] \/ (l[1] = k[1] /\ l[2] <= k[2])

\* The two trims take sets of bytes, not prefixes.
LinkText(buf, link) ==
  LET out == TrimLeft(Slice(buf, link[1], link[2] + 4), {"<", "a", ">"})
  IN Text(TrimRight(out, {"<", "/", "a", ">"}), link[2] + 4)

NameFromRender(buf) ==
  IF Links(buf) = {} THEN NotFound ELSE LinkText(buf, FirstLink(Links(buf)))

\* yearRegexp
Years(buf) ==
  {i \in Places(buf, <<"Y", "e", "a", "r">>) :
     i + 5 < Len(buf) /\ buf[i + 5] \in White /\ buf[i + 6] \in Digit}

\* Mutant of YearAt: the first match instead of the last.
YearAtFirst(buf) == Min(Years(buf))

YearAt(buf) == Max(Years(buf))

\* "Year" and a tab or a newline are not trimmed to a number.
CurrentYearFromRender(buf) ==
  IF Years(buf) = {} THEN NotFound
  ELSE LET end == DigitsEnd(buf, YearAt(buf) + 5)
           out == TrimLeft(Slice(buf, YearAt(buf), end), {"Y", "e", "a", "r", " "})
       IN IF IsNumber(out) THEN Text(Number(out), end) ELSE Failed

-----------------------------------------------------------------------------
(* One mark of a marksheet: \t<percentage> ... , <subject>, ... , <teacher><   *)

\* percentageRegexp: a backslash, the letter t and digits.
Escape == <<"\\", "t">>
Percentages(buf) ==
  {i \in Places(buf, Escape) : i + 2 < Len(buf) /\ buf[i + 3] \in Digit}

\* The second index is relative to buf[x+2:] and used as one of buf.
getSubjectName(buf) ==
  LET x == IndexByte(buf, ",")
      y == IndexByte(From(buf, x + 2), ",")
  IN IF x = -1 THEN NotFound
     ELSE IF x + 2 > Len(buf) THEN Panics
     ELSE IF y = -1 THEN NotFound
     ELSE IF x + 2 > y THEN Panics
     ELSE Text(Slice(buf, x + 2, y), y)

\* buf[y+2:y] is no slice for any y.
getTeacherName(buf) ==
  LET x == IndexByte(buf, "<")
      y == LastIndexByte(Slice(buf, 0, x + 1), ",")
  IN IF x = -1 \/ y = -1 THEN Text(<<>>, -1) ELSE Panics

\* Mutant of Trimmed: the two bytes of the escape are trimmed.
TrimmedEscape(raw) == TrimPrefix(raw, Escape)

\* The literal "\t" in TrimPrefix is a tab; what percentageRegexp matches has none.
Trimmed(raw) == TrimPrefix(raw, <<"TAB">>)

\* The rest of the row, behind a percentage.  A teacher that is not found takes the
\* index one back: the test of remX is for 1.
Row(buf, percentage, at) ==
  LET s == getSubjectName(From(buf, at))
      t == getTeacherName(From(buf, at + s.at))
  IN IF s.is = "not_found" THEN Failed
     ELSE IF s.is = "panic" \/ t.is = "panic" THEN Panics
     ELSE [is |-> "mark", at |-> at + s.at + t.at,
           mark |-> [percentage |-> percentage, subject |-> s.text, teacher |-> t.text]]

GetMarkFromRender(buf) ==
  IF Percentages(buf) = {} THEN NotFound
  ELSE LET first == Min(Percentages(buf))
           end   == DigitsEnd(buf, first + 2)
           raw   == Trimmed(Slice(buf, first, end))
       IN IF IsNumber(raw) THEN Row(buf, Number(raw), end) ELSE Failed
=============================================================================
