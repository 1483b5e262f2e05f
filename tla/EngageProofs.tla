---------------------------- MODULE EngageProofs ----------------------------
(***************************************************************************)
(* Machine-checked theorems about EngageClient and the parsers of Render,  *)
(* for any marksheet, any lists of academic years and any refusals.        *)
(***************************************************************************)
EXTENDS EngageClient, WellFoundedInduction, TLAPS

-----------------------------------------------------------------------------
(* The parsers *)

\* A set of naturals has a least element.
LEMMA Least ==
  ASSUME NEW S, S \subseteq Nat, S # {}
  PROVE  Min(S) \in S /\ \A y \in S : Min(S) <= y
<1> DEFINE R == {ss \in Nat \X Nat : ss[1] < ss[2]}
<1>1. IsWellFoundedOn(R, Nat)
  BY NatLessThanWellFounded DEF OpToRel
<1>2. PICK x \in S : \A y \in S : ~(<<y, x>> \in R)
  <2> HIDE DEF R
  <2> QED
    BY <1>1, WFMin
<1>3. ASSUME NEW y \in S PROVE x <= y
  <2>1. x \in Nat /\ y \in Nat /\ ~(<<y, x>> \in R)
    BY <1>2
  <2>2. ~(y < x)
    BY <2>1
  <2> HIDE DEF R
  <2> QED
    BY <2>1, <2>2
<1> HIDE DEF R
<1> QED
  BY <1>3 DEF Min

\* A bounded one has a greatest.
LEMMA Greatest ==
  ASSUME NEW n \in Nat, NEW S, S \subseteq 0..n, S # {}
  PROVE  Max(S) \in S /\ \A y \in S : Max(S) >= y
<1> DEFINE T == {n - x : x \in S}
<1>1. T \subseteq Nat /\ T # {}
  <2>1. \A x \in S : x \in 0..n /\ n - x \in Nat
    OBVIOUS
  <2> QED
    BY <2>1
<1>2. PICK m \in T : \A y \in T : m <= y
  <2> HIDE DEF T
  <2> QED
    BY <1>1, Least
<1>3. PICK x \in S : m = n - x
  BY <1>2
<1>4. ASSUME NEW y \in S PROVE x >= y
  <2>1. n - x <= n - y /\ x \in 0..n /\ y \in 0..n
    BY <1>2, <1>3
  <2> QED
    BY <2>1
<1> QED
  BY <1>4 DEF Max

\* Atoi of a number is a natural: the fold over its digits has a value, digit after digit.
LEMMA NumberIsNatural ==
  ASSUME NEW B, NEW s \in Seq(B), IsNumber(s)
  PROVE  Number(s) \in Nat
<1> DEFINE v(i) == IndexByte(Digits, s[i])
           n == Len(s)
           Solves(f, k) == f = [t \in SUBSET (1..k) |->
                                  IF t = {} THEN 0 ELSE 10 * f[t \ {Max(t)}] + v(Max(t))]
<1>n. n \in Nat /\ DOMAIN s = 1..n
  OBVIOUS
<1>v. \A i \in 1..n : v(i) \in Nat
  <2>1. ASSUME NEW d \in Digit PROVE IndexByte(Digits, d) \in Nat
    <3> DEFINE I == {i \in 1..Len(Digits) : Digits[i] = d}
    <3>1. I # {} /\ I \subseteq Nat \ {0}
      BY DEF Digit, Digits, Range
    <3>2. Min(I) \in I
      <4> HIDE DEF I
      <4> QED
        BY <3>1, Least
    <3>3. IndexByte(Digits, d) = Min(I) - 1
      BY <3>1 DEF IndexByte, SelectInSeq
    <3> HIDE DEF I
    <3>4. Min(I) \in Nat /\ Min(I) # 0
      BY <3>1, <3>2
    <3> QED
      BY <3>3, <3>4
  <2> QED
    BY <1>n, <2>1 DEF IsNumber
<1>f. Number(s) = (CHOOSE f : Solves(f, n))[1..n]
  <2>1. Number(s) = (CHOOSE f : f = [t \in SUBSET (DOMAIN s) |->
                       IF t = {} THEN 0 ELSE 10 * f[t \ {Max(t)}] + v(Max(t))])[DOMAIN s]
    BY DEF Number, FoldLeft, MapThenFoldSet
  <2> HIDE DEF v
  <2> QED
    BY <1>n, <2>1
<1> HIDE DEF v, n
<1>m. ASSUME NEW k \in Nat, NEW t \in SUBSET (1..k), k \in t PROVE Max(t) = k
  <2>1. \A x \in t : (\A y \in t : x >= y) <=> x = k
    BY <1>m
  <2> QED
    BY <1>m, <2>1 DEF Max
<1>1. \E f : Solves(f, n)
  <2> DEFINE T == {k \in 0..n : ~\E f : Solves(f, k)}
  <2> SUFFICES ASSUME ~\E f : Solves(f, n) PROVE FALSE
    OBVIOUS
  <2>1. PICK k \in T : \A j \in T : k <= j
    <3> HIDE DEF Solves
    <3>1. T \subseteq Nat /\ n \in T
      BY <1>n
    <3> HIDE DEF T
    <3> QED
      BY <3>1, Least
  <2>k. k \in 0..n /\ ~\E f : Solves(f, k)
    BY <2>1
  <2>2. CASE k = 0
    <3> DEFINE f == [t \in SUBSET (1..k) |-> 0]
    <3>1. \A t \in SUBSET (1..k) : t = {}
      BY <2>2
    <3>2. Solves(f, k)
      BY <3>1
    <3> QED
      BY <2>k, <3>2
  <2>3. CASE k # 0
    <3>1. k \in Nat /\ k - 1 \in 0..n /\ ~(k <= k - 1)
      BY <1>n, <2>k, <2>3
    <3>2. PICK h : Solves(h, k - 1)
      BY <2>1, <3>1
    <3> DEFINE g == [t \in SUBSET (1..k) |-> IF k \in t THEN 10 * h[t \ {k}] + v(k) ELSE h[t]]
    <3>3. ASSUME NEW t \in SUBSET (1..k)
          PROVE  g[t] = IF t = {} THEN 0 ELSE 10 * g[t \ {Max(t)}] + v(Max(t))
      <4>1. \A u \in SUBSET (1..k) : k \notin u => u \in SUBSET (1..(k - 1))
        BY <3>1
      <4>2. CASE k \in t
        <5>1. t \ {k} \in SUBSET (1..k) /\ k \notin t \ {k} /\ Max(t) = k
          BY <1>m, <3>1, <4>2
        <5> QED
          BY <4>2, <5>1
      <4>3. CASE k \notin t
        <5>1. t \in SUBSET (1..(k - 1)) /\ t \ {Max(t)} \in SUBSET (1..k) /\ k \notin t \ {Max(t)}
          BY <4>1, <4>3
        <5>2. h[t] = IF t = {} THEN 0 ELSE 10 * h[t \ {Max(t)}] + v(Max(t))
          BY <3>2, <5>1
        <5> QED
          BY <4>3, <5>1, <5>2
      <4> QED
        BY <4>2, <4>3
    <3>4. Solves(g, k)
      BY <3>3
    <3> QED
      BY <2>k, <3>4
  <2> QED
    BY <2>2, <2>3
<1>2. PICK f : Solves(f, n) /\ Number(s) = f[1..n]
  BY <1>1, <1>f
<1>3. \A t \in SUBSET (1..n) : f[t] \in Nat
  <2> DEFINE T == {k \in 0..n : \E t \in SUBSET (1..k) : f[t] \notin Nat}
  <2> SUFFICES ASSUME n \in T PROVE FALSE
    BY <1>n
  <2>1. PICK k \in T : \A j \in T : k <= j
    <3>1. T \subseteq Nat
      BY <1>n
    <3> HIDE DEF T
    <3> QED
      BY <3>1, Least
  <2>2. PICK t \in SUBSET (1..k) : f[t] \notin Nat
    BY <2>1
  <2>3. k \in Nat /\ k \in 0..n /\ t \in SUBSET (1..n)
    BY <1>n, <2>1, <2>2
  <2>e. f[t] = IF t = {} THEN 0 ELSE 10 * f[t \ {Max(t)}] + v(Max(t))
    BY <1>2, <2>3
  <2>4. t # {} /\ f[t] = 10 * f[t \ {Max(t)}] + v(Max(t))
    BY <2>e, <2>2
  <2>5. k # 0 /\ k - 1 \in 0..n /\ ~(k <= k - 1)
    <3>1. k = 0 => 1..k = {}
      BY <2>3
    <3>2. k # 0
      BY <2>2, <2>4, <3>1
    <3> QED
      BY <1>n, <2>3, <3>2
  <2>6. \A u \in SUBSET (1..(k - 1)) : f[u] \in Nat
    BY <2>1, <2>5
  <2>7. k \in t
    <3>1. k \notin t => t \in SUBSET (1..(k - 1))
      BY <2>2, <2>3
    <3> QED
      BY <2>2, <2>6, <3>1
  <2>8. Max(t) = k /\ t \ {k} \in SUBSET (1..(k - 1)) /\ v(k) \in Nat
    BY <1>m, <1>v, <2>2, <2>3, <2>7
  <2>9. f[t \ {k}] \in Nat
    BY <2>6, <2>8
  <2> QED
    BY <2>2, <2>4, <2>8, <2>9
<1> QED
  BY <1>2, <1>3

\* A run of digits ends, at the end of the buffer if not before: DigitsEnd has a value.
LEMMA DigitsEndIs ==
  ASSUME NEW B, NEW b \in Seq(B), NEW i \in 0 .. Len(b)
  PROVE  /\ DigitsEnd(b, i) \in i .. Len(b)
         /\ \A k \in i + 1 .. DigitsEnd(b, i) : b[k] \in Digit
         /\ DigitsEnd(b, i) < Len(b) => b[DigitsEnd(b, i) + 1] \notin Digit
<1> DEFINE S == {j \in i .. Len(b) : j < Len(b) => b[j + 1] \notin Digit}
           end == Min(S)
<1>n. Len(b) \in Nat /\ i \in Nat /\ i <= Len(b)
  OBVIOUS
<1>1. S \subseteq Nat /\ Len(b) \in S
  BY <1>n
<1>2. end \in S /\ \A j \in S : end <= j
  <2> HIDE DEF S
  <2> QED
    BY <1>1, Least
<1> HIDE DEF end
<1>3. ASSUME NEW k \in i + 1 .. end PROVE b[k] \in Digit
  <2>1. k - 1 \in i .. Len(b) /\ k - 1 < Len(b) /\ ~(end <= k - 1) /\ (k - 1) + 1 = k
    BY <1>n, <1>2
  <2>2. k - 1 \notin S
    BY <1>2, <2>1
  <2> QED
    BY <2>1, <2>2
<1>4. /\ end \in i .. Len(b) /\ \A k \in i + 1 .. end : b[k] \in Digit
      /\ end < Len(b) => b[end + 1] \notin Digit
  BY <1>2, <1>3
<1> HIDE DEF S
<1> QED
  BY <1>4 DEF DigitsEnd

\* What GetMarkFromRender makes of any render: without a percentage there is no mark, and
\* a percentage is never a number, because the backslash in front of it is not trimmed.
LEMMA MarkParser ==
  ASSUME NEW B, NEW b \in Seq(B)
  PROVE  GetMarkFromRender(b) = IF Percentages(b) = {} THEN NotFound ELSE Failed
<1> SUFFICES ASSUME Percentages(b) # {} PROVE GetMarkFromRender(b) = Failed
  BY DEF GetMarkFromRender
<1> DEFINE first == Min(Percentages(b))
           end   == DigitsEnd(b, first + 2)
           match == Slice(b, first, end)
<1>n. Len(b) \in Nat
  OBVIOUS
<1>e. Len(Escape) = 2 /\ Escape[1] = "\\"
  BY DEF Escape
<1>1. /\ first \in Nat /\ first + 2 < Len(b) /\ b[first + 1] = "\\"
  <2>1. \A i \in Percentages(b) : i \in Nat /\ i + 2 < Len(b) /\ b[i + 1] = "\\"
    BY <1>n, <1>e DEF Percentages, Places
  <2>2. first \in Percentages(b)
    BY <2>1, Least
  <2> HIDE DEF first
  <2> QED
    BY <2>1, <2>2
<1> HIDE DEF first
<1>2. end \in first + 2 .. Len(b)
  <2>1. first + 2 \in 0 .. Len(b)
    BY <1>n, <1>1
  <2> QED
    BY <2>1, DigitsEndIs
<1> HIDE DEF end
<1>3. match \in Seq(B) /\ 1 \in DOMAIN match /\ match[1] = "\\"
  BY <1>n, <1>1, <1>2 DEF Slice
<1> HIDE DEF match
<1>4. Trimmed(match) = match
  <2>1. ~IsPrefix(<<"TAB">>, match)
    <3>1. SubSeq(match, 1, 1)[1] = "\\" /\ <<"TAB">>[1] = "TAB"
      BY <1>3
    <3>2. SubSeq(<<"TAB">>, 1, 1)[1] = "TAB" /\ Len(<<"TAB">>) = 1
      OBVIOUS
    <3> QED
      BY <3>1, <3>2 DEF IsPrefix
  <2> QED
    BY <2>1 DEF Trimmed, TrimPrefix
<1>5. ~IsNumber(match)
  <2>1. "\\" \notin Digit
    BY DEF Digit, Digits, Range
  <2> QED
    BY <1>3, <2>1 DEF IsNumber
<1> QED
  BY <1>4, <1>5 DEF GetMarkFromRender, first, end, match

\* What is left of a string that is trimmed is a string of the same bytes.
LEMMA Trims ==
  ASSUME NEW B, NEW s \in Seq(B), NEW cut
  PROVE  TrimLeft(s, cut) \in Seq(B) /\ TrimRight(s, cut) \in Seq(B)
<1> DEFINE Kept == {i \in DOMAIN s : s[i] \notin cut}
<1>1. Len(s) \in Nat /\ Kept \subseteq 0 .. Len(s) /\ Kept \subseteq 1 .. Len(s) /\ <<>> \in Seq(B)
  OBVIOUS
<1>2. CASE Kept = {}
  BY <1>1, <1>2 DEF TrimLeft, TrimRight
<1>3. CASE Kept # {}
  <2>1. Min(Kept) \in Kept /\ Max(Kept) \in Kept
    <3>1. Kept \subseteq Nat
      BY <1>1
    <3> HIDE DEF Kept
    <3> QED
      BY <1>1, <1>3, <3>1, Least, Greatest
  <2>2. Min(Kept) \in 1 .. Len(s) /\ Max(Kept) \in 1 .. Len(s)
    BY <1>1, <2>1
  <2>3. TrimLeft(s, cut) = SubSeq(s, Min(Kept), Len(s)) /\ TrimRight(s, cut) = SubSeq(s, 1, Max(Kept))
    BY <1>3 DEF TrimLeft, TrimRight
  <2> HIDE DEF Kept
  <2> QED
    BY <1>1, <2>2, <2>3
<1> QED
  BY <1>2, <1>3

\* A render with a link has a first one, and it lies within the render.
LEMMA FirstLinkIs ==
  ASSUME NEW B, NEW b \in Seq(B), Links(b) # {}
  PROVE  /\ FirstLink(Links(b)) \in Links(b)
         /\ \A k \in Links(b) : \/ FirstLink(Links(b))[1] < k[1]
                                \/ FirstLink(Links(b))[1] = k[1] /\ FirstLink(Links(b))[2] <= k[2]
         /\ FirstLink(Links(b))[1] \in Nat /\ FirstLink(Links(b))[2] \in Nat
         /\ FirstLink(Links(b))[1] < FirstLink(Links(b))[2] + 4
         /\ FirstLink(Links(b))[2] + 4 <= Len(b)
<1> DEFINE L == Links(b)
           first == {l[1] : l \in L}
           second == {l[2] : l \in {k \in L : k[1] = Min(first)}}
           Earlier(l, k) == l[1] < k[1] \/ (l[1] = k[1] /\ l[2] <= k[2])
<1>n. Len(b) \in Nat /\ Len(Open) = 3 /\ Len(Close) = 4
  BY DEF Open, Close
<1>1. \A l \in L : /\ l = <<l[1], l[2]>> /\ l[1] \in Nat /\ l[2] \in Nat
                   /\ l[1] < l[2] + 4 /\ l[2] + 4 <= Len(b)
  <2>1. Places(b, Open) \subseteq 0 .. Len(b) - 3 /\ Places(b, Close) \subseteq 0 .. Len(b) - 4
    BY <1>n DEF Places
  <2>2. \A l \in L : /\ l \in Places(b, Open) \X Places(b, Close) /\ l[1] + 3 <= l[2]
    BY DEF Links
  <2>3. \A l \in L : /\ l = <<l[1], l[2]>> /\ l[1] \in 0 .. Len(b) - 3 /\ l[2] \in 0 .. Len(b) - 4
    BY <2>1, <2>2
  <2> HIDE DEF L
  <2>4. ASSUME NEW l \in L
        PROVE  l[1] \in Nat /\ l[2] \in Nat /\ l[1] < l[2] + 4 /\ l[2] + 4 <= Len(b)
    <3>1. l[1] + 3 <= l[2] /\ l[1] \in 0 .. Len(b) - 3 /\ l[2] \in 0 .. Len(b) - 4
      BY <2>2, <2>3
    <3> QED
      BY <1>n, <3>1
  <2> QED
    BY <2>3, <2>4
<1>2. L # {}
  OBVIOUS
<1> HIDE DEF L
<1>3. Min(first) \in first /\ \A y \in first : Min(first) <= y
  <2>1. first \subseteq Nat /\ first # {}
    BY <1>1, <1>2
  <2> HIDE DEF first
  <2> QED
    BY <2>1, Least
<1>4. Min(second) \in second /\ \A y \in second : Min(second) <= y
  <2>1. second \subseteq Nat /\ second # {}
    BY <1>1, <1>3
  <2> HIDE DEF second
  <2> QED
    BY <2>1, Least
<1>5. PICK l \in L : l[1] = Min(first) /\ l[2] = Min(second)
  BY <1>4
<1>6. \A k \in L : Earlier(l, k)
  <2> SUFFICES ASSUME NEW k \in L PROVE Earlier(l, k)
    OBVIOUS
  <2>1. l[1] <= k[1] /\ (k[1] = l[1] => l[2] <= k[2])
    BY <1>3, <1>4, <1>5
  <2>2. l[1] \in Nat /\ k[1] \in Nat /\ l[2] \in Nat /\ k[2] \in Nat
    BY <1>1
  <2> QED
    BY <2>1, <2>2
<1>7. FirstLink(L) \in L /\ \A k \in L : Earlier(FirstLink(L), k)
  BY <1>6 DEF FirstLink
<1>8. /\ FirstLink(L)[1] \in Nat /\ FirstLink(L)[2] \in Nat
      /\ FirstLink(L)[1] < FirstLink(L)[2] + 4 /\ FirstLink(L)[2] + 4 <= Len(b)
  BY <1>1, <1>7
<1>9. \A k \in L : \/ FirstLink(L)[1] < k[1]
                   \/ FirstLink(L)[1] = k[1] /\ FirstLink(L)[2] <= k[2]
  BY <1>7
<1> QED
  BY <1>7, <1>8, <1>9, Zenon DEF L

\* A name that is found is a string of the render's bytes, and so is what is left of it.
LEMMA NameParser ==
  ASSUME NEW B, NEW b \in Seq(B)
  PROVE  \/ NameFromRender(b) = NotFound
         \/ /\ NameFromRender(b).is = "text" /\ NameFromRender(b).text \in Seq(B)
            /\ From(b, NameFromRender(b).at) \in Seq(B)
<1> SUFFICES ASSUME Links(b) # {}
             PROVE  /\ NameFromRender(b).is = "text" /\ NameFromRender(b).text \in Seq(B)
                    /\ From(b, NameFromRender(b).at) \in Seq(B)
  BY DEF NameFromRender
<1> DEFINE l == FirstLink(Links(b))
           raw == Slice(b, l[1], l[2] + 4)
           out == TrimLeft(raw, {"<", "a", ">"})
<1>1. /\ Len(b) \in Nat /\ l[1] \in Nat /\ l[2] \in Nat /\ l[1] < l[2] + 4 /\ l[2] + 4 <= Len(b)
  BY FirstLinkIs
<1>2. NameFromRender(b) = Text(TrimRight(out, {"<", "/", "a", ">"}), l[2] + 4)
  BY DEF NameFromRender, LinkText
<1> HIDE DEF l
<1>3. raw \in Seq(B) /\ From(b, l[2] + 4) \in Seq(B)
  BY <1>1 DEF Slice, From
<1> HIDE DEF raw
<1>4. TrimRight(out, {"<", "/", "a", ">"}) \in Seq(B)
  BY <1>3, Trims
<1> QED
  BY <1>2, <1>3, <1>4 DEF Text

\* A year that is found is a natural.
LEMMA YearParser ==
  ASSUME NEW B, NEW b \in Seq(B)
  PROVE  \/ CurrentYearFromRender(b) \in {NotFound, Failed}
         \/ CurrentYearFromRender(b).is = "text" /\ CurrentYearFromRender(b).text \in Nat
<1> SUFFICES ASSUME Years(b) # {}
             PROVE  \/ CurrentYearFromRender(b) = Failed
                    \/ CurrentYearFromRender(b).is = "text" /\ CurrentYearFromRender(b).text \in Nat
  BY DEF CurrentYearFromRender
<1> DEFINE i == YearAt(b)
           end == DigitsEnd(b, i + 5)
           out == TrimLeft(Slice(b, i, end), {"Y", "e", "a", "r", " "})
<1>n. Len(b) \in Nat
  OBVIOUS
<1>1. i \in Nat /\ i + 5 \in 0 .. Len(b)
  <2>1. Years(b) \subseteq 0 .. Len(b) /\ \A y \in Years(b) : y \in Nat /\ y + 5 < Len(b)
    BY <1>n, SMTT(60) DEF Years, Places
  <2>2. Max(Years(b)) \in Years(b)
    BY <1>n, <2>1, Greatest
  <2> QED
    BY <1>n, <2>1, <2>2 DEF YearAt
<1>2. CurrentYearFromRender(b) = IF IsNumber(out) THEN Text(Number(out), end) ELSE Failed
  BY DEF CurrentYearFromRender
<1> HIDE DEF i
<1>3. end \in i + 5 .. Len(b)
  BY <1>1, DigitsEndIs
<1> HIDE DEF end
<1>4. Slice(b, i, end) \in Seq(B)
  BY <1>n, <1>1, <1>3 DEF Slice
<1>5. out \in Seq(B)
  BY <1>4, Trims
<1> HIDE DEF out
<1> QED
  BY <1>2, <1>5, NumberIsNatural DEF Text

\* Where a link opens and closes.
LEMMA Anchors ==
  ASSUME NEW B, NEW s \in Seq(B), NEW i
  PROVE  /\ i \in Places(s, Open) <=>
              i \in Nat /\ i + 3 <= Len(s) /\ s[i + 1] = "<" /\ s[i + 2] = "a" /\ s[i + 3] = ">"
         /\ i \in Places(s, Close) <=>
              /\ i \in Nat /\ i + 4 <= Len(s)
              /\ s[i + 1] = "<" /\ s[i + 2] = "/" /\ s[i + 3] = "a" /\ s[i + 4] = ">"
<1>1. Len(s) \in Nat /\ Len(Open) = 3 /\ Len(Close) = 4
  BY DEF Open, Close
<1>2. 1..3 = {1, 2, 3} /\ 1..4 = {1, 2, 3, 4}
  OBVIOUS
<1>3. Open[1] = "<" /\ Open[2] = "a" /\ Open[3] = ">"
  BY DEF Open
<1>4. Close[1] = "<" /\ Close[2] = "/" /\ Close[3] = "a" /\ Close[4] = ">"
  BY DEF Close
<1>5. i \in 0 .. Len(s) - 3 <=> i \in Nat /\ i + 3 <= Len(s)
  BY <1>1
<1>6. i \in 0 .. Len(s) - 4 <=> i \in Nat /\ i + 4 <= Len(s)
  BY <1>1
<1>7. i \in Places(s, Open) <=> i \in 0 .. Len(s) - 3 /\ \A k \in {1, 2, 3} : s[i + k] = Open[k]
  BY <1>1, <1>2 DEF Places
<1>8. i \in Places(s, Close) <=> i \in 0 .. Len(s) - 4 /\ \A k \in {1, 2, 3, 4} : s[i + k] = Close[k]
  BY <1>1, <1>2 DEF Places
<1>9. (\A k \in {1, 2, 3} : s[i + k] = Open[k]) <=> s[i + 1] = "<" /\ s[i + 2] = "a" /\ s[i + 3] = ">"
  BY <1>3
<1>10. (\A k \in {1, 2, 3, 4} : s[i + k] = Close[k]) <=>
         s[i + 1] = "<" /\ s[i + 2] = "/" /\ s[i + 3] = "a" /\ s[i + 4] = ">"
  BY <1>4
<1> QED
  BY <1>5, <1>6, <1>7, <1>8, <1>9, <1>10

\* What a slice is made of, and that it is the only sequence made of it.
LEMMA SliceOf ==
  ASSUME NEW B, NEW s \in Seq(B), NEW i \in 0 .. Len(s), NEW j \in i .. Len(s)
  PROVE  /\ Slice(s, i, j) \in Seq(B) /\ Len(Slice(s, i, j)) = j - i
         /\ \A k \in 1 .. j - i : Slice(s, i, j)[k] = s[i + k]
<1>1. i \in Nat /\ j \in Nat /\ i <= j /\ Len(s) \in Nat /\ j <= Len(s) /\ j - i \in Nat
  OBVIOUS
<1> QED
  BY <1>1 DEF Slice

\* A sequence of those bytes, in that order, is the slice.
LEMMA SliceIs ==
  ASSUME NEW B, NEW s \in Seq(B), NEW i \in 0 .. Len(s), NEW j \in i .. Len(s),
         NEW u \in Seq(B), Len(u) = j - i, \A k \in 1 .. j - i : u[k] = s[i + k]
  PROVE  u = Slice(s, i, j)
<1> DEFINE v == Slice(s, i, j)
<1>1. v \in Seq(B) /\ Len(v) = j - i /\ \A k \in 1 .. j - i : v[k] = s[i + k]
  BY SliceOf
<1> HIDE DEF v
<1>2. Len(u) = Len(v) /\ \A k \in 1 .. Len(u) : u[k] = v[k]
  BY <1>1
<1> QED
  BY <1>1, <1>2 DEF v

\* A text between the two tags.
Tagged(raw, t) ==
  /\ Len(raw) = Len(t) + 7
  /\ raw[1] = "<" /\ raw[2] = "a" /\ raw[3] = ">"
  /\ \A k \in 1 .. Len(t) : raw[3 + k] = t[k]
  /\ raw[Len(t) + 4] = "<" /\ raw[Len(t) + 5] = "/" /\ raw[Len(t) + 6] = "a" /\ raw[Len(t) + 7] = ">"

\* What the two trims leave of a link is a part of the name, all of it if it neither
\* begins nor ends with a letter of the tags.
LEMMA TrimmedLink ==
  ASSUME NEW B, NEW t \in Seq(B), NEW raw \in Seq(B), Tagged(raw, t),
         NEW text, text = TrimRight(TrimLeft(raw, {"<", "a", ">"}), {"<", "/", "a", ">"})
  PROVE  /\ \E i, j \in 0 .. Len(t) : text = Slice(t, i, j)
         /\ t # <<>> /\ Head(t) \notin Letters /\ Last(t) \notin Letters => text = t
<1> DEFINE m == Len(t)
           left == {"<", "a", ">"}
           Kept == {k \in DOMAIN raw : raw[k] \notin left}
           a == Min(Kept)
           out == SubSeq(raw, a, m + 7)
           Rest == {k \in DOMAIN out : out[k] \notin Letters}
           z == Max(Rest)
<1>0. /\ Len(raw) = m + 7 /\ \A k \in 1 .. 3 : raw[k] \in left
      /\ \A k \in 1 .. m : raw[3 + k] = t[k]
      /\ raw[m + 4] = "<" /\ raw[m + 5] = "/" /\ raw[m + 6] = "a" /\ raw[m + 7] = ">"
  <2>1. 1 .. 3 = {1, 2, 3}
    OBVIOUS
  <2>2. \A k \in {1, 2, 3} : raw[k] \in left
    BY DEF Tagged
  <2> QED
    BY <2>1, <2>2 DEF Tagged
<1>n. m \in Nat /\ DOMAIN raw = 1 .. m + 7 /\ DOMAIN t = 1..m
  BY <1>0
<1>1. a \in Kept /\ (\A k \in Kept : a <= k) /\ m + 5 \in Kept
  <2>1. Kept \subseteq Nat /\ m + 5 \in Kept
    BY <1>0, <1>n
  <2> HIDE DEF Kept
  <2> QED
    BY <2>1, Least
<1>2. a \in 4 .. m + 5 /\ raw[a] \notin left
  <2>1. a \in 1 .. m + 7 /\ raw[a] \notin left /\ a <= m + 5
    BY <1>n, <1>1
  <2>2. a \notin 1 .. 3
    BY <1>0, <2>1
  <2> HIDE DEF a
  <2> QED
    BY <1>n, <2>1, <2>2
<1>3. TrimLeft(raw, left) = out
  <2>1. Kept # {} /\ Len(raw) = m + 7
    BY <1>0, <1>1
  <2> QED
    BY <2>1 DEF TrimLeft
<1>4. text = IF Rest = {} THEN <<>> ELSE SubSeq(out, 1, z)
  <2>1. text = TrimRight(out, Letters)
    BY <1>3 DEF Letters
  <2> HIDE DEF out
  <2> QED
    BY <2>1 DEF TrimRight
<1>f. (m >= 1 /\ t[1] \notin Letters) => a = 4
  <2> SUFFICES ASSUME m >= 1, t[1] \notin Letters PROVE a = 4
    OBVIOUS
  <2>1. 4 \in Kept
    <3>1. raw[3 + 1] = t[1] /\ 3 + 1 = 4 /\ 4 \in 1 .. m + 7
      BY <1>0, <1>n
    <3> QED
      BY <1>n, <3>1 DEF Letters
  <2>2. a <= 4
    BY <1>1, <2>1
  <2> HIDE DEF a
  <2> QED
    BY <1>n, <1>2, <2>2
<1> HIDE DEF Kept, a
<1>5. /\ out \in Seq(B) /\ Len(out) = m + 8 - a /\ DOMAIN out = 1 .. m + 8 - a
      /\ \A k \in 1 .. m + 8 - a : out[k] = raw[a + k - 1]
  BY <1>n, <1>2
<1> HIDE DEF out
<1>6. \A k \in Rest : k \in 1 .. m + 4 - a
  <2> SUFFICES ASSUME NEW k \in Rest PROVE k \in 1 .. m + 4 - a
    OBVIOUS
  <2>1. k \in 1 .. m + 8 - a /\ raw[a + k - 1] \notin Letters
    BY <1>5
  <2>2. \A x \in {m + 4, m + 5, m + 6, m + 7} : raw[x] \in Letters
    BY <1>0, <1>n DEF Letters
  <2>3. a + k - 1 \notin {m + 4, m + 5, m + 6, m + 7}
    BY <2>1, <2>2
  <2> HIDE DEF Rest
  <2> QED
    BY <1>n, <1>2, <2>1, <2>3
<1>7. CASE Rest = {}
  <2>1. text = <<>> /\ text = Slice(t, 0, 0)
    BY <1>4, <1>7 DEF Slice
  <2>2. t # <<>> /\ Head(t) \notin Letters /\ Last(t) \notin Letters => FALSE
    <3> SUFFICES ASSUME t # <<>>, Head(t) \notin Letters PROVE FALSE
      OBVIOUS
    <3>1. m >= 1 /\ t[1] \notin Letters
      BY <1>n
    <3>2. a = 4 /\ 1 \in 1 .. m + 8 - a /\ a + 1 - 1 = 3 + 1
      BY <1>n, <1>f, <3>1
    <3>3. out[1] = raw[4] /\ raw[3 + 1] = t[1] /\ 3 + 1 = 4
      BY <1>0, <1>n, <1>5, <3>1, <3>2
    <3>4. 1 \in Rest
      BY <1>5, <3>1, <3>2, <3>3
    <3> QED
      BY <1>7, <3>4
  <2>3. 0 \in 0..m
    BY <1>n
  <2> QED
    BY <2>1, <2>2, <2>3
<1>8. CASE Rest # {}
  <2>1. z \in Rest /\ \A k \in Rest : z >= k
    <3>1. Rest \subseteq 0 .. m + 8 - a /\ m + 8 - a \in Nat
      BY <1>n, <1>2, <1>5
    <3> HIDE DEF Rest
    <3> QED
      BY <1>8, <3>1, Greatest
  <2>2. z \in 1 .. m + 4 - a
    BY <1>6, <2>1
  <2>3. text = SubSeq(out, 1, z)
    BY <1>4, <1>8
  <2>l. m >= 1 /\ a = 4 /\ t[m] \notin Letters => z = m
    <3> SUFFICES ASSUME m >= 1, a = 4, t[m] \notin Letters PROVE z = m
      OBVIOUS
    <3>1. m \in 1 .. m + 8 - a /\ out[m] = raw[a + m - 1] /\ a + m - 1 = 3 + m /\ raw[3 + m] = t[m]
      BY <1>0, <1>n, <1>5
    <3>2. m \in Rest
      BY <1>5, <3>1
    <3>3. z >= m /\ z \in 1 .. m
      BY <2>1, <2>2, <3>2
    <3> HIDE DEF z, m
    <3>4. z \in Nat /\ m \in Nat /\ z <= m /\ m <= z
      BY <1>n, <3>3
    <3> QED
      BY <3>4
  <2> HIDE DEF z, Rest, m
  <2> DEFINE i == a - 4
             j == a - 4 + z
  <2>4. i \in 0..m /\ j \in 0..m /\ i + 1 \in 1 .. m /\ j \in 1 .. m /\ j - i = z
    BY <1>n, <1>2, <2>2
  <2>5. /\ text \in Seq(B) /\ Len(text) = z
        /\ \A k \in 1..z : text[k] = out[k]
    <3>1. text = Slice(out, 0, z)
      BY <2>3 DEF Slice
    <3>2. z \in Nat /\ 0 \in 0 .. Len(out) /\ z \in 0 .. Len(out) /\ z - 0 = z
      BY <1>n, <1>2, <1>5, <2>2
    <3>3. /\ Slice(out, 0, z) \in Seq(B) /\ Len(Slice(out, 0, z)) = z - 0
          /\ \A k \in 1 .. z - 0 : Slice(out, 0, z)[k] = out[0 + k]
      <4>1. out \in Seq(B) /\ 0 \in 0 .. Len(out) /\ z \in 0 .. Len(out)
        BY <1>5, <3>2
      <4> HIDE DEF i, j
      <4> QED
        BY <4>1, SliceOf
    <3>4. \A k \in 1 .. z : 0 + k = k
      OBVIOUS
    <3> QED
      BY <3>1, <3>2, <3>3, <3>4
  <2>7. \A k \in 1..z : text[k] = t[i + k]
    <3> SUFFICES ASSUME NEW k \in 1..z PROVE text[k] = t[i + k]
      OBVIOUS
    <3>1. k \in 1 .. m + 8 - a /\ i + k \in 1 .. m /\ 3 + (i + k) = a + k - 1
      BY <1>n, <1>2, <2>2
    <3>2. text[k] = out[k] /\ out[k] = raw[a + k - 1]
      BY <1>5, <2>5, <3>1
    <3>3. raw[3 + (i + k)] = t[i + k]
      BY <1>0, <3>1
    <3> HIDE DEF i
    <3> QED
      BY <3>1, <3>2, <3>3
  <2> HIDE DEF i, j
  <2>8. text = Slice(t, i, j)
    <3>1. i \in 0 .. Len(t) /\ j \in i .. Len(t) /\ j - i = z
      BY <1>n, <2>4, <2>2 DEF m
    <3>2. text \in Seq(B) /\ Len(text) = j - i /\ \A k \in 1 .. j - i : text[k] = t[i + k]
      BY <2>5, <2>7, <3>1
    <3> HIDE DEF left
    <3> QED
      BY <3>1, <3>2, SliceIs
  <2>9. t # <<>> /\ Head(t) \notin Letters /\ Last(t) \notin Letters => text = t
    <3> SUFFICES ASSUME t # <<>>, Head(t) \notin Letters, Last(t) \notin Letters PROVE text = t
      OBVIOUS
    <3>1. m >= 1 /\ t[1] \notin Letters /\ t[m] \notin Letters
      BY <1>n DEF Last
    <3>2. a = 4 /\ z = m
      BY <1>f, <2>l, <3>1
    <3>3. i = 0
      BY <3>2 DEF i
    <3>4. \A k \in 1..m : text[k] = t[k]
      BY <1>n, <2>7, <3>2, <3>3
    <3> QED
      BY <1>n, <2>5, <3>2, <3>4 DEF m
  <2> QED
    BY <2>4, <2>8, <2>9 DEF m
<1> QED
  BY <1>7, <1>8

\* The link that is found in as much of a sheet as was read is the first one of the sheet.
LEMMA LinkOfSheet ==
  ASSUME NEW B, NEW s \in Seq(B), NEW n \in 0 .. Len(s), NEW b \in Seq(B), Len(b) = Len(s),
         \A k \in 1 .. n : b[k] = s[k],
         \A k \in n + 1 .. Len(s) : b[k] = "NUL",
         \A l \in Links(s) : \E k \in Links(s) : \A i \in Places(s, Open) : k[1] <= i,
         Links(b) # {},
         NEW l, l = FirstLink(Links(b))
  PROVE  /\ l[1] \in Nat /\ l[2] \in Nat /\ l[1] + 3 <= l[2] /\ l[2] + 4 <= n
         /\ l[1] \in Places(b, Open) /\ l[2] \in Places(b, Close)
         /\ NameOn(s) = Slice(s, l[1] + 3, l[2])
<1>n. Len(s) \in Nat /\ n \in Nat /\ n <= Len(s)
  OBVIOUS
<1>l. \A r \in Seq(B) : \A k \in Links(r) :
        /\ k = <<k[1], k[2]>> /\ k[1] \in Places(r, Open) /\ k[2] \in Places(r, Close)
        /\ k[1] + 3 <= k[2] /\ \A x \in k[1] + 4 .. k[2] : r[x] # "LF"
  BY DEF Links
<1>1. l \in Links(b) /\ \A k \in Links(b) : l[1] < k[1] \/ (l[1] = k[1] /\ l[2] <= k[2])
  BY FirstLinkIs
<1>2. ASSUME NEW i
      PROVE  /\ i \in Places(b, Open) <=> i \in Places(s, Open) /\ i + 3 <= n
             /\ i \in Places(b, Close) <=> i \in Places(s, Close) /\ i + 4 <= n
  <2>1. i \in Places(b, Open) => i \in Nat /\ i + 3 <= n
    <3> SUFFICES ASSUME i \in Places(b, Open) PROVE i \in Nat /\ i + 3 <= n
      OBVIOUS
    <3>1. i \in Nat /\ i + 3 <= Len(s) /\ b[i + 3] = ">"
      BY Anchors
    <3>2. i + 3 \notin n + 1 .. Len(s)
      BY <3>1
    <3> QED
      BY <1>n, <3>1, <3>2
  <2>2. i \in Places(b, Close) => i \in Nat /\ i + 4 <= n
    <3> SUFFICES ASSUME i \in Places(b, Close) PROVE i \in Nat /\ i + 4 <= n
      OBVIOUS
    <3>1. i \in Nat /\ i + 4 <= Len(s) /\ b[i + 4] = ">"
      BY Anchors
    <3>2. i + 4 \notin n + 1 .. Len(s)
      BY <3>1
    <3> QED
      BY <1>n, <3>1, <3>2
  <2>3. i \in Nat /\ i + 3 <= n => b[i + 1] = s[i + 1] /\ b[i + 2] = s[i + 2] /\ b[i + 3] = s[i + 3]
    BY <1>n
  <2>4. i \in Nat /\ i + 4 <= n => /\ b[i + 1] = s[i + 1] /\ b[i + 2] = s[i + 2] /\ b[i + 3] = s[i + 3]
                                   /\ b[i + 4] = s[i + 4]
    BY <1>n
  <2>5. i \in Nat => (i + 3 <= n => i + 3 <= Len(s)) /\ (i + 4 <= n => i + 4 <= Len(s))
    BY <1>n
  <2>6. i \in Places(s, Open) \/ i \in Places(s, Close) => i \in Nat
    BY Anchors
  <2>7. i \in Places(b, Open) <=> i \in Places(s, Open) /\ i + 3 <= n
    BY <2>1, <2>3, <2>5, <2>6, Anchors
  <2>8. i \in Places(b, Close) <=> i \in Places(s, Close) /\ i + 4 <= n
    BY <2>2, <2>4, <2>5, <2>6, Anchors, SMTT(60)
  <2> QED
    BY <2>7, <2>8
<1>3. /\ l[1] \in Places(b, Open) /\ l[2] \in Places(b, Close)
      /\ l[1] \in Places(s, Open) /\ l[2] \in Places(s, Close) /\ l[2] + 4 <= n
      /\ l[1] \in Nat /\ l[2] \in Nat /\ l[1] + 3 <= l[2]
  <2>1. l[1] \in Places(b, Open) /\ l[2] \in Places(b, Close) /\ l[1] + 3 <= l[2]
    BY <1>1, <1>l
  <2>2. l[1] \in Nat /\ l[2] \in Nat
    BY <2>1, Anchors
  <2> QED
    BY <1>2, <2>1, <2>2
<1>4. l \in Links(s)
  <2>1. l = <<l[1], l[2]>> /\ \A x \in l[1] + 4 .. l[2] : b[x] # "LF"
    BY <1>1, <1>l
  <2>2. \A x \in l[1] + 4 .. l[2] : x \in 1 .. n
    BY <1>n, <1>3
  <2>3. \A x \in l[1] + 4 .. l[2] : s[x] # "LF"
    BY <2>1, <2>2
  <2>4. l \in Places(s, Open) \X Places(s, Close)
    BY <1>3, <2>1
  <2> QED
    BY <1>3, <2>3, <2>4 DEF Links
<1>5. PICK k \in Links(s) : \A i \in Places(s, Open) : k[1] <= i
  BY <1>4
<1> DEFINE i0 == Min(Places(s, Open))
           C == {j \in Places(s, Close) : j > i0}
           j0 == Min(C)
<1>6. /\ k[1] \in Places(s, Open) /\ k[2] \in Places(s, Close) /\ k[1] \in Nat /\ k[2] \in Nat
      /\ k[1] + 3 <= k[2] /\ \A x \in k[1] + 4 .. k[2] : s[x] # "LF"
  <2>1. /\ k[1] \in Places(s, Open) /\ k[2] \in Places(s, Close)
        /\ k[1] + 3 <= k[2] /\ \A x \in k[1] + 4 .. k[2] : s[x] # "LF"
    BY <1>l
  <2> QED
    BY <2>1, Anchors
<1>7. i0 = k[1] /\ i0 \in Places(s, Open) /\ \A i \in Places(s, Open) : i0 <= i
  <2>1. Places(s, Open) \subseteq Nat /\ Places(s, Open) # {}
    BY <1>6, Anchors
  <2>2. i0 \in Places(s, Open) /\ \A i \in Places(s, Open) : i0 <= i
    BY <2>1, Least
  <2> HIDE DEF i0
  <2>3. i0 \in Nat /\ i0 <= k[1] /\ k[1] <= i0
    BY <1>5, <1>6, <2>1, <2>2
  <2>4. i0 = k[1]
    BY <1>6, <2>3
  <2> QED
    BY <2>2, <2>4
<1> HIDE DEF i0
<1>8. l[2] \in C /\ k[2] \in C
  BY <1>3, <1>6, <1>7, SMTT(60)
<1>9. j0 \in C /\ \A j \in C : j0 <= j
  <2>1. C \subseteq Nat
    BY Anchors
  <2> HIDE DEF C
  <2> QED
    BY <1>8, <2>1, Least
<1>10. j0 \in Places(s, Close) /\ j0 \in Nat /\ j0 > i0 /\ j0 <= l[2] /\ j0 <= k[2]
  <2>1. j0 \in Places(s, Close) /\ j0 > i0 /\ j0 <= l[2] /\ j0 <= k[2]
    BY <1>8, <1>9
  <2> HIDE DEF j0
  <2> QED
    BY <2>1, Anchors
<1> HIDE DEF C, j0
<1>11. i0 + 3 <= j0
  <2>1. i0 \in Nat /\ s[i0 + 2] = "a" /\ s[i0 + 3] = ">" /\ s[j0 + 1] = "<"
    BY <1>7, <1>10, Anchors
  <2>2. j0 # i0 + 1 /\ j0 # i0 + 2
    <3>1. j0 = i0 + 1 => j0 + 1 = i0 + 2
      BY <2>1
    <3>2. j0 = i0 + 2 => j0 + 1 = i0 + 3
      BY <2>1
    <3> QED
      BY <2>1, <3>1, <3>2
  <2> QED
    BY <1>10, <2>1, <2>2
<1>12. <<i0, j0>> \in Links(b)
  <2>1. i0 \in Nat /\ i0 + 3 <= n /\ j0 + 4 <= n
    BY <1>n, <1>3, <1>6, <1>7, <1>10, <1>11
  <2>2. i0 \in Places(b, Open) /\ j0 \in Places(b, Close)
    BY <1>2, <1>7, <1>10, <2>1
  <2>3. \A x \in i0 + 4 .. j0 : x \in k[1] + 4 .. k[2] /\ x \in 1 .. n
    BY <1>n, <1>6, <1>7, <1>10, <2>1
  <2>4. \A x \in i0 + 4 .. j0 : b[x] # "LF"
    BY <1>6, <2>3
  <2> QED
    BY <1>11, <2>2, <2>4 DEF Links
<1>13. l[1] = i0 /\ l[2] = j0
  <2>1. l[1] < i0 \/ (l[1] = i0 /\ l[2] <= j0)
    BY <1>1, <1>12
  <2>2. i0 <= l[1] /\ i0 \in Nat
    BY <1>3, <1>6, <1>7
  <2>3. l[1] = i0 /\ l[2] <= j0
    BY <1>3, <2>1, <2>2
  <2> QED
    BY <1>3, <1>10, <2>3
<1>14. NameOn(s) = Slice(s, i0 + 3, j0)
  BY DEF NameOn, i0, C, j0
<1> QED
  BY <1>3, <1>13, <1>14

\* The name that is found is a part of the one on the sheet.
LEMMA NameOfSheet ==
  ASSUME NEW B, NEW s \in Seq(B), NEW n \in 0 .. Len(s), NEW b \in Seq(B), Len(b) = Len(s),
         \A k \in 1 .. n : b[k] = s[k],
         \A k \in n + 1 .. Len(s) : b[k] = "NUL",
         \A l \in Links(s) : \E k \in Links(s) : \A i \in Places(s, Open) : k[1] <= i,
         NameFromRender(b).is = "text"
  PROVE  /\ \E i, j \in 0 .. Len(NameOn(s)) : NameFromRender(b).text = Slice(NameOn(s), i, j)
         /\ NameOn(s) # <<>> /\ Head(NameOn(s)) \notin Letters /\ Last(NameOn(s)) \notin Letters
              => NameFromRender(b).text = NameOn(s)
         /\ NameFromRender(b).at \in 0 .. Len(s)
<1> DEFINE l == FirstLink(Links(b))
           t == NameOn(s)
           raw == Slice(b, l[1], l[2] + 4)
           out == TrimRight(TrimLeft(raw, {"<", "a", ">"}), {"<", "/", "a", ">"})
           m == Len(t)
<1>1. Links(b) # {} /\ NameFromRender(b) = Text(out, l[2] + 4)
  BY DEF NameFromRender, NotFound, LinkText
<1>2. /\ l[1] \in Nat /\ l[2] \in Nat /\ l[1] + 3 <= l[2] /\ l[2] + 4 <= n
      /\ l[1] \in Places(b, Open) /\ l[2] \in Places(b, Close)
      /\ t = Slice(s, l[1] + 3, l[2])
  BY <1>1, LinkOfSheet
<1>n. n \in Nat /\ Len(s) \in Nat /\ n <= Len(s)
  OBVIOUS
<1> HIDE DEF l
<1> DEFINE p == l[1]
           q == l[2]
           from == p + 3
           end  == q + 4
<1>3. /\ p \in Nat /\ q \in Nat /\ from \in Nat /\ end \in Nat
      /\ p + 3 <= q /\ q + 4 <= n /\ from = p + 3 /\ end = q + 4
      /\ p \in 0 .. Len(b) /\ end \in p .. Len(b) /\ from \in 0 .. Len(s) /\ q \in from .. Len(s)
  BY <1>2, <1>n
<1>4. /\ b[p + 1] = "<" /\ b[p + 2] = "a" /\ b[p + 3] = ">"
      /\ b[q + 1] = "<" /\ b[q + 2] = "/" /\ b[q + 3] = "a" /\ b[q + 4] = ">"
  BY <1>2, Anchors
<1>s. t = Slice(s, from, q) /\ raw = Slice(b, p, end)
  BY <1>2
<1> HIDE DEF t, raw, p, q, from, end
<1>5. t \in Seq(B) /\ m = q - from /\ \A k \in 1 .. m : t[k] = s[from + k]
  <2>1. /\ Slice(s, from, q) \in Seq(B) /\ Len(Slice(s, from, q)) = q - from
        /\ \A k \in 1 .. q - from : Slice(s, from, q)[k] = s[from + k]
    BY <1>3, SliceOf, ZenonT(60)
  <2> QED
    BY <1>s, <2>1
<1>6. raw \in Seq(B) /\ Len(raw) = end - p /\ \A k \in 1 .. end - p : raw[k] = b[p + k]
  <2>1. /\ Slice(b, p, end) \in Seq(B) /\ Len(Slice(b, p, end)) = end - p
        /\ \A k \in 1 .. end - p : Slice(b, p, end)[k] = b[p + k]
    BY <1>3, SliceOf, ZenonT(60)
  <2> QED
    BY <1>s, <2>1
<1> HIDE DEF m
<1>7. m \in Nat /\ q = p + 3 + m /\ Len(raw) = m + 7
  BY <1>3, <1>5, <1>6
<1>8. \A k \in 1 .. m + 7 : raw[k] = b[p + k]
  BY <1>3, <1>6, <1>7
<1>9. raw[1] = "<" /\ raw[2] = "a" /\ raw[3] = ">"
  BY <1>4, <1>7, <1>8, SMTT(60)
<1>10. raw[m + 4] = "<" /\ raw[m + 5] = "/" /\ raw[m + 6] = "a" /\ raw[m + 7] = ">"
  <2>1. /\ p + (m + 4) = q + 1 /\ p + (m + 5) = q + 2 /\ p + (m + 6) = q + 3 /\ p + (m + 7) = q + 4
        /\ m + 4 \in 1 .. m + 7 /\ m + 5 \in 1 .. m + 7 /\ m + 6 \in 1 .. m + 7 /\ m + 7 \in 1 .. m + 7
    BY <1>3, <1>7
  <2> QED
    BY <1>4, <1>8, <2>1
<1>11. \A k \in 1 .. m : raw[3 + k] = t[k]
  <2> SUFFICES ASSUME NEW k \in 1 .. m PROVE raw[3 + k] = t[k]
    OBVIOUS
  <2>1. 3 + k \in 1 .. m + 7 /\ p + (3 + k) = from + k /\ from + k \in 1 .. n
    BY <1>3, <1>7, <1>n
  <2>2. raw[3 + k] = b[from + k] /\ b[from + k] = s[from + k]
    BY <1>8, <2>1
  <2> QED
    BY <1>5, <2>2
<1>12. /\ \E i, j \in 0 .. Len(t) : out = Slice(t, i, j)
       /\ t # <<>> /\ Head(t) \notin Letters /\ Last(t) \notin Letters => out = t
  <2>1. Tagged(raw, t)
    BY <1>7, <1>9, <1>10, <1>11 DEF m, Tagged
  <2>2. t \in Seq(B) /\ raw \in Seq(B)
    BY <1>5, <1>6
  <2>3. out = TrimRight(TrimLeft(raw, {"<", "a", ">"}), {"<", "/", "a", ">"})
    OBVIOUS
  <2> HIDE DEF out
  <2> QED
    BY <2>1, <2>2, <2>3, TrimmedLink
<1>13. NameFromRender(b).text = out /\ NameFromRender(b).at \in 0 .. Len(s)
  <2>1. end \in 0 .. Len(s) /\ end = l[2] + 4
    BY <1>3, <1>n DEF q
  <2> HIDE DEF out
  <2> QED
    BY <1>1, <2>1 DEF Text
<1> HIDE DEF out
<1> QED
  BY <1>12, <1>13 DEF t

\* Where a year stands.
LEMMA YearsAre ==
  ASSUME NEW B, NEW s \in Seq(B), NEW i
  PROVE  i \in Years(s) <=>
           /\ i \in Nat /\ i + 5 < Len(s)
           /\ s[i + 1] = "Y" /\ s[i + 2] = "e" /\ s[i + 3] = "a" /\ s[i + 4] = "r"
           /\ s[i + 5] \in White /\ s[i + 6] \in Digit
<1> DEFINE w == <<"Y", "e", "a", "r">>
<1>1. Len(s) \in Nat /\ Len(w) = 4 /\ 1..4 = {1, 2, 3, 4}
  OBVIOUS
<1>2. w[1] = "Y" /\ w[2] = "e" /\ w[3] = "a" /\ w[4] = "r"
  OBVIOUS
<1> HIDE DEF w
<1>3. i \in Places(s, w) <=> i \in 0 .. Len(s) - 4 /\ \A k \in {1, 2, 3, 4} : s[i + k] = w[k]
  BY <1>1 DEF Places
<1>4. (\A k \in {1, 2, 3, 4} : s[i + k] = w[k]) <=>
        s[i + 1] = "Y" /\ s[i + 2] = "e" /\ s[i + 3] = "a" /\ s[i + 4] = "r"
  BY <1>2
<1>5. i \in 0 .. Len(s) - 4 /\ i + 5 < Len(s) <=> i \in Nat /\ i + 5 < Len(s)
  BY <1>1
<1>6. i \in Years(s) <=> i \in Places(s, w) /\ i + 5 < Len(s) /\ s[i + 5] \in White /\ s[i + 6] \in Digit
  BY DEF Years, w
<1> QED
  BY <1>3, <1>4, <1>5, <1>6

\* The digits are neither white nor letters of the word.
LEMMA DigitsAre == \A d \in Digit : d \notin White \cup {"Y", "e", "a", "r", " "}
<1> SUFFICES ASSUME NEW i \in DOMAIN Digits
             PROVE  Digits[i] \notin White \cup {"Y", "e", "a", "r", " "}
  BY DEF Digit, Range
<1>1. i \in 1 .. 10
  BY DEF Digits
<1>2. i \in {1, 2, 3, 4, 5, 6, 7, 8, 9, 10}
  BY <1>1
<1>3. Digits[i] \in {"0", "1", "2", "3", "4", "5", "6", "7", "8", "9"}
  BY <1>2 DEF Digits
<1> QED
  BY <1>3 DEF White

\* DigitsEnd is the only end of the run of digits.
LEMMA DigitsEndOnly ==
  ASSUME NEW B, NEW b \in Seq(B), NEW i \in 0 .. Len(b), NEW j \in i .. Len(b),
         \A k \in i + 1 .. j : b[k] \in Digit,
         j < Len(b) => b[j + 1] \notin Digit
  PROVE  DigitsEnd(b, i) = j
<1> DEFINE e == DigitsEnd(b, i)
<1>1. /\ e \in i .. Len(b) /\ \A k \in i + 1 .. e : b[k] \in Digit
      /\ e < Len(b) => b[e + 1] \notin Digit
  BY DigitsEndIs
<1> HIDE DEF e
<1>2. i \in Nat /\ j \in Nat /\ e \in Nat /\ Len(b) \in Nat /\ i <= j /\ i <= e /\ j <= Len(b) /\ e <= Len(b)
  BY <1>1
<1>3. ~(e < j)
  <2> SUFFICES ASSUME e < j PROVE FALSE
    OBVIOUS
  <2>1. e + 1 \in i + 1 .. j /\ e < Len(b)
    BY <1>2
  <2> QED
    BY <1>1, <2>1
<1>4. ~(j < e)
  <2> SUFFICES ASSUME j < e PROVE FALSE
    OBVIOUS
  <2>1. j + 1 \in i + 1 .. e /\ j < Len(b)
    BY <1>2
  <2> QED
    BY <1>1, <2>1
<1>5. e = j
  BY <1>2, <1>3, <1>4
<1> QED
  BY <1>5 DEF e

\* The year that is found behind the name is the last one of the sheet.
LEMMA YearOfSheet ==
  ASSUME NEW B, NEW s \in Seq(B), NEW at \in 0 .. Len(s), NEW b, b = From(s, at),
         CurrentYearFromRender(b).is = "text"
  PROVE  CurrentYearFromRender(b).text = YearOn(s)
<1> DEFINE y == YearAt(b)
           end == DigitsEnd(b, y + 5)
           match == Slice(b, y, end)
           cut == {"Y", "e", "a", "r", " "}
           out == TrimLeft(match, cut)
           L == Len(s)
<1>n. L \in Nat /\ at \in Nat /\ at <= L
  OBVIOUS
<1>b. b \in Seq(B) /\ Len(b) = L - at /\ \A k \in 1 .. L - at : b[k] = s[at + k]
  <2>1. at \in 0 .. Len(s) /\ Len(s) \in at .. Len(s)
    BY <1>n
  <2>2. b = Slice(s, at, Len(s))
    BY DEF From
  <2> QED
    BY <2>1, <2>2, SliceOf, ZenonT(60)
<1>1. Years(b) # {} /\ CurrentYearFromRender(b) = IF IsNumber(out) THEN Text(Number(out), end) ELSE Failed
  BY DEF CurrentYearFromRender, NotFound
<1>2. IsNumber(out) /\ CurrentYearFromRender(b).text = Number(out)
  <2> HIDE DEF out, end
  <2>1. ~IsNumber(out) => CurrentYearFromRender(b) = Failed
    BY <1>1
  <2>2. Failed.is # "text"
    BY DEF Failed
  <2>3. IsNumber(out)
    BY <2>1, <2>2
  <2>4. CurrentYearFromRender(b) = Text(Number(out), end)
    BY <1>1, <2>3
  <2> QED
    BY <2>3, <2>4 DEF Text
<1>3. y \in Years(b) /\ \A x \in Years(b) : y >= x
  <2>1. \A x \in Years(b) : x \in Nat /\ x + 5 < Len(b)
    BY <1>b, YearsAre
  <2>2. Len(b) \in Nat /\ Years(b) \subseteq 0 .. Len(b)
    BY <1>b, <1>n, <2>1
  <2> QED
    BY <1>1, <2>2, Greatest DEF YearAt
<1> HIDE DEF y, L
<1>4. /\ y \in Nat /\ y + 5 < L - at
      /\ b[y + 1] = "Y" /\ b[y + 2] = "e" /\ b[y + 3] = "a" /\ b[y + 4] = "r"
      /\ b[y + 5] \in White /\ b[y + 6] \in Digit
  <2>1. b \in Seq(B) /\ y \in Years(b) /\ Len(b) = L - at
    BY <1>b, <1>3
  <2>2. /\ y \in Nat /\ y + 5 < Len(b)
        /\ b[y + 1] = "Y" /\ b[y + 2] = "e" /\ b[y + 3] = "a" /\ b[y + 4] = "r"
        /\ b[y + 5] \in White /\ b[y + 6] \in Digit
    BY <2>1, YearsAre
  <2> QED
    BY <2>1, <2>2
\* The year of the sheet is the same one.
<1>5. ASSUME NEW x \in Nat PROVE at + x \in Years(s) <=> x \in Years(b)
  <2>1. x + 5 < L - at <=> (at + x) + 5 < L
    BY <1>n
  <2>2. x + 5 < L - at =>
          /\ b[x + 1] = s[(at + x) + 1] /\ b[x + 2] = s[(at + x) + 2] /\ b[x + 3] = s[(at + x) + 3]
          /\ b[x + 4] = s[(at + x) + 4] /\ b[x + 5] = s[(at + x) + 5] /\ b[x + 6] = s[(at + x) + 6]
    <3> SUFFICES ASSUME x + 5 < L - at, NEW k \in 1 .. 6 PROVE b[x + k] = s[(at + x) + k]
      OBVIOUS
    <3>1. x + k \in 1 .. L - at /\ at + (x + k) = (at + x) + k
      BY <1>n
    <3> QED
      BY <1>b, <3>1
  <2>3. at + x \in Nat
    BY <1>n
  <2>4. at + x \in Years(s) <=>
          /\ (at + x) + 5 < L
          /\ s[(at + x) + 1] = "Y" /\ s[(at + x) + 2] = "e" /\ s[(at + x) + 3] = "a"
          /\ s[(at + x) + 4] = "r" /\ s[(at + x) + 5] \in White /\ s[(at + x) + 6] \in Digit
    BY <2>3, YearsAre DEF L
  <2>5. x \in Years(b) <=>
          /\ x + 5 < L - at
          /\ b[x + 1] = "Y" /\ b[x + 2] = "e" /\ b[x + 3] = "a" /\ b[x + 4] = "r"
          /\ b[x + 5] \in White /\ b[x + 6] \in Digit
    <3>1. b \in Seq(B) /\ Len(b) = L - at
      BY <1>b
    <3>2. x \in Years(b) <=>
            /\ x \in Nat /\ x + 5 < Len(b)
            /\ b[x + 1] = "Y" /\ b[x + 2] = "e" /\ b[x + 3] = "a" /\ b[x + 4] = "r"
            /\ b[x + 5] \in White /\ b[x + 6] \in Digit
      BY <3>1, YearsAre
    <3> QED
      BY <3>1, <3>2
  <2> QED
    BY <2>1, <2>2, <2>4, <2>5
<1>6. Max(Years(s)) = at + y
  <2>1. at + y \in Years(s)
    BY <1>3, <1>4, <1>5
  <2>2. \A x \in Years(s) : x \in Nat /\ x <= at + y
    <3> SUFFICES ASSUME NEW x \in Years(s) PROVE x \in Nat /\ x <= at + y
      OBVIOUS
    <3>1. x \in Nat
      BY YearsAre
    <3>2. CASE x < at
      BY <1>n, <1>4, <3>1, <3>2
    <3>3. CASE x >= at
      <4>1. x - at \in Nat /\ at + (x - at) = x
        BY <1>n, <3>1, <3>3
      <4>2. x - at \in Years(b)
        BY <1>5, <4>1
      <4>3. x - at <= y
        BY <1>3, <4>2
      <4> QED
        BY <1>n, <1>4, <3>1, <4>3
    <3> QED
      BY <1>n, <3>1, <3>2, <3>3
  <2> DEFINE z == Max(Years(s))
  <2>3. z \in Years(s) /\ \A x \in Years(s) : z >= x
    <3>1. at + y \in Nat /\ Years(s) \subseteq 0 .. at + y
      BY <1>n, <1>4, <2>2
    <3> QED
      BY <2>1, <3>1, Greatest
  <2> HIDE DEF z
  <2>4. z \in Nat /\ z <= at + y /\ z >= at + y
    BY <2>1, <2>2, <2>3
  <2>5. z = at + y
    BY <1>n, <1>4, <2>4
  <2> QED
    BY <2>5 DEF z
<1>7. /\ end \in y + 5 .. L - at /\ \A k \in y + 6 .. end : b[k] \in Digit
      /\ end < L - at => b[end + 1] \notin Digit
  <2>1. y + 5 \in 0 .. Len(b) /\ (y + 5) + 1 = y + 6
    BY <1>n, <1>b, <1>4
  <2> QED
    BY <1>b, <2>1, DigitsEndIs
<1> HIDE DEF end
<1>8. end \in Nat /\ y + 6 <= end /\ end <= L - at
  <2>1. end = y + 5 => end + 1 = y + 6 /\ end < L - at
    BY <1>4
  <2> QED
    BY <1>n, <1>4, <1>7, <2>1
<1>9. match \in Seq(B) /\ Len(match) = end - y /\ \A k \in 1 .. end - y : match[k] = b[y + k]
  <2>1. y \in 0 .. Len(b) /\ end \in y .. Len(b)
    BY <1>n, <1>b, <1>4, <1>8
  <2> HIDE DEF match
  <2>2. match = Slice(b, y, end)
    BY DEF match
  <2> QED
    BY <1>b, <2>1, <2>2, SliceOf, ZenonT(60)
<1> HIDE DEF match
\* What is trimmed is the word and the space.
<1>10. out = Slice(match, 5, end - y)
  <2> DEFINE Kept == {k \in DOMAIN match : match[k] \notin cut}
             a == Min(Kept)
             len == end - y
  <2>0. len \in Nat /\ len >= 6 /\ DOMAIN match = 1 .. len /\ Len(match) = len
    BY <1>4, <1>8, <1>9
  <2>1. /\ match[1] = "Y" /\ match[2] = "e" /\ match[3] = "a" /\ match[4] = "r"
        /\ match[5] \in White /\ match[6] \in Digit
    <3> SUFFICES ASSUME NEW k \in 1 .. 6 PROVE match[k] = b[y + k]
      BY <1>4
    <3>1. k \in 1 .. len
      BY <2>0
    <3> QED
      BY <1>9, <3>1
  <2>c. "Y" \in cut /\ "e" \in cut /\ "a" \in cut /\ "r" \in cut /\ \A d \in Digit : d \notin White \cup cut
    BY DigitsAre
  <2>5. TrimLeft(match, cut) = IF Kept = {} THEN <<>> ELSE SubSeq(match, a, Len(match))
    BY DEF TrimLeft
  <2> HIDE DEF cut, len
  <2>3. 6 \in Kept
    BY <2>0, <2>1, <2>c
  <2>4. a \in Kept /\ (\A k \in Kept : a <= k)
    <3>1. Kept \subseteq Nat
      BY <2>0
    <3> HIDE DEF Kept
    <3> QED
      BY <2>3, <3>1, Least
  <2>s. out = SubSeq(match, a, len)
    BY <2>0, <2>3, <2>5
  <2> HIDE DEF a, out
  <2>6. a \in 1 .. len /\ a <= 6 /\ match[a] \notin cut
    BY <2>0, <2>3, <2>4
  <2>7. a # 1 /\ a # 2 /\ a # 3 /\ a # 4
    BY <2>1, <2>c, <2>6
  <2>8. a = 5 \/ a = 6
    <3>1. a \in Nat /\ a >= 1 /\ a <= 6
      BY <2>6
    <3> QED
      BY <2>7, <3>1
  <2>9. a # 5
    <3> SUFFICES ASSUME a = 5 PROVE FALSE
      OBVIOUS
    <3>1. match[5] \notin Digit
      BY <2>1, <2>c
    <3>2. 1 \in DOMAIN out /\ out[1] = match[5]
      BY <1>9, <2>0, <2>s
    <3> QED
      BY <1>2, <3>1, <3>2 DEF IsNumber
  <2>10. out = SubSeq(match, 6, len)
    BY <2>8, <2>9, <2>s
  <2> QED
    BY <2>10 DEF Slice, len
<1>11. DigitsEnd(s, at + y + 5) = at + end
  <2> DEFINE i == at + y + 5
             j == at + end
  <2>1. i \in 0 .. Len(s) /\ j \in i .. Len(s)
    BY <1>n, <1>4, <1>8 DEF L
  <2>2. \A k \in i + 1 .. j : s[k] \in Digit
    <3> SUFFICES ASSUME NEW k \in i + 1 .. j PROVE s[k] \in Digit
      OBVIOUS
    <3>1. k - at \in y + 6 .. end /\ k - at \in 1 .. L - at /\ at + (k - at) = k
      BY <1>n, <1>4, <1>8
    <3> QED
      BY <1>b, <1>7, <3>1
  <2>3. j < Len(s) => s[j + 1] \notin Digit
    <3> SUFFICES ASSUME j < L PROVE s[j + 1] \notin Digit
      BY DEF L
    <3>1. end < L - at /\ end + 1 \in 1 .. L - at /\ at + (end + 1) = j + 1
      BY <1>n, <1>8
    <3> QED
      BY <1>b, <1>7, <3>1
  <2> HIDE DEF i, j
  <2>4. DigitsEnd(s, i) = j
    BY <2>1, <2>2, <2>3, DigitsEndOnly
  <2> QED
    BY <2>4 DEF i, j
<1>12. out = Slice(s, at + y + 5, at + end)
  <2> DEFINE i == at + y + 5
             j == at + end
             w == end - y
  <2>1. i \in 0 .. Len(s) /\ j \in i .. Len(s) /\ w \in Nat /\ 5 \in 0 .. Len(match) /\ w \in 5 .. Len(match)
    BY <1>n, <1>4, <1>8, <1>9 DEF L
  <2>2. w - 5 = j - i
    BY <1>n, <1>4, <1>8
  <2> HIDE DEF i, j, w, out
  <2>3. out = Slice(match, 5, w)
    BY <1>10 DEF w
  <2>4. out \in Seq(B) /\ Len(out) = w - 5 /\ \A k \in 1 .. w - 5 : out[k] = match[5 + k]
    <3>1. /\ Slice(match, 5, w) \in Seq(B) /\ Len(Slice(match, 5, w)) = w - 5
          /\ \A k \in 1 .. w - 5 : Slice(match, 5, w)[k] = match[5 + k]
      <4>1. match \in Seq(B) /\ 5 \in 0 .. Len(match) /\ w \in 5 .. Len(match)
        BY <1>9, <2>1
      <4> HIDE DEF cut
      <4> QED
        BY <4>1, SliceOf
    <3> QED
      BY <2>3, <3>1
  <2>5. \A k \in 1 .. j - i : out[k] = s[i + k]
    <3> SUFFICES ASSUME NEW k \in 1 .. j - i PROVE out[k] = s[i + k]
      OBVIOUS
    <3>1. /\ k \in 1 .. w - 5 /\ 5 + k \in 1 .. end - y /\ y + (5 + k) \in 1 .. L - at
          /\ at + (y + (5 + k)) = i + k
      BY <1>n, <1>4, <1>8, <2>2 DEF w, i
    <3>2. out[k] = match[5 + k] /\ match[5 + k] = b[y + (5 + k)]
      BY <1>9, <2>4, <3>1
    <3>3. b[y + (5 + k)] = s[at + (y + (5 + k))]
      BY <1>b, <3>1
    <3> QED
      BY <3>1, <3>2, <3>3
  <2>6. Len(out) = j - i
    BY <2>2, <2>4
  <2>7. out = Slice(s, i, j)
    BY <2>1, <2>4, <2>5, <2>6, SliceIs
  <2> QED
    BY <2>7 DEF i, j
<1>13. YearOn(s) = Number(Slice(s, at + y + 5, at + end))
  <2>1. YearOn(s) = LET i == Max(Years(s)) + 5 IN Number(Slice(s, i, DigitsEnd(s, i)))
    BY DEF YearOn
  <2> QED
    BY <1>6, <1>11, <2>1
<1> HIDE DEF out
<1> QED
  BY <1>2, <1>12, <1>13

-----------------------------------------------------------------------------
(* The exchanges *)

\* Where an exchange stands decides what it wants and what it has asked for so far.
PlaceInv ==
  /\ pc \in {"years", "name", "year"} => want = "student"
  /\ pc \in {"first", "more"} => want = "marks"
  /\ pc # "done" => result = "none"
  /\ pc = "years" => sent = <<>>
  /\ pc \in {"years", "render"} => sheet = <<>> /\ asked = <<>>
  /\ want = "student" /\ pc = "render" => sent # <<>>
  /\ want = "marks" => sent = <<>>

\* The years are those engage listed, behind as many zeros.
YearsInv ==
  /\ sent = <<>> \/ sent \in YearLists \ {<<>>}
  /\ sent # <<>> => years = Listed(0, sent)
  /\ sent # <<>> => asked \in {<<>>, <<Last(sent)>>}

\* No mark has been read.
SheetInv == marks = <<>> /\ pc # "more" /\ result # "marks"

IInv == TypeOK /\ PlaceInv /\ YearsInv /\ SheetInv /\ ParsersReturn

\* The zeros change neither the last year nor, a year being none, who attends.
LEMMA ListedYears ==
  ASSUME NEW l \in Seq(Nat \ {0}), l # <<>>
  PROVE  /\ Last(Listed(0, l)) = Last(l)
         /\ \A y \in Nat \ {0} :
              (\E i \in DOMAIN Listed(0, l) : Listed(0, l)[i] = y) <=> y \in Range(l)
<1> DEFINE n == Len(l)
           z == [i \in DOMAIN l |-> 0]
           both == z \o l
<1>1. n \in Nat /\ n > 0 /\ DOMAIN l = 1..n /\ \A i \in 1..n : l[i] \in Nat \ {0}
  OBVIOUS
<1>2. z \in Seq(Nat) /\ Len(z) = n /\ \A i \in 1..n : z[i] = 0
  BY <1>1
<1>3. /\ both \in Seq(Nat) /\ Len(both) = n + n /\ DOMAIN both = 1..(n + n)
      /\ \A i \in 1..n : both[i] = 0 /\ both[n + i] = l[i]
  <2>1. l \in Seq(Nat)
    OBVIOUS
  <2> HIDE DEF z
  <2> QED
    BY <1>1, <1>2, <2>1
<1>4. Listed(0, l) = both
  BY DEF Listed
<1>5. Last(both) = Last(l)
  BY <1>1, <1>3 DEF Last
<1>6. ASSUME NEW y \in Nat \ {0}
      PROVE  (\E i \in DOMAIN both : both[i] = y) <=> y \in Range(l)
  <2> HIDE DEF both
  <2>1. ASSUME NEW i \in 1..(n + n), both[i] = y PROVE y \in Range(l)
    <3>1. i \notin 1..n
      BY <1>3, <2>1
    <3>2. i - n \in 1..n /\ n + (i - n) = i
      BY <1>1, <3>1
    <3>3. l[i - n] = y
      BY <1>3, <2>1, <3>2
    <3> QED
      BY <1>1, <3>2, <3>3 DEF Range
  <2>2. ASSUME NEW i \in 1..n, l[i] = y PROVE n + i \in DOMAIN both /\ both[n + i] = y
    BY <1>1, <1>3, <2>2
  <2> QED
    BY <1>1, <1>3, <2>1, <2>2 DEF Range
<1> QED
  BY <1>4, <1>5, <1>6

\* Only the error codes of csb are refusals.
LEMMA RefusalCodes == Refusals \subseteq Code /\ "not_found" \in Code /\ "internal" \in Code /\ "marks" \notin Code
BY DEF Refusals, FromStatusToErrorCode, Code, codes

\* The year a marksheet is asked for.
LEMMA YearAsked ==
  ASSUME TypeOK, PlaceInv, YearsInv, pc = "render"
  PROVE  /\ sent # <<>> => Concat(Asked) = <<Last(sent)>> /\ Last(sent) \in Nat
         /\ sent = <<>> => Concat(Asked) = <<CurrentAcademicYear>>
<1> USE EngageAssumption DEF PlaceInv, YearsInv
<1>w. want \in {"student", "marks"}
  BY DEF TypeOK
<1>1. CASE sent # <<>>
  <2>1. sent \in Seq(Nat \ {0}) /\ years = Listed(0, sent) /\ want = "student"
    BY <1>1, <1>w
  <2>2. Last(years) = Last(sent) /\ Last(sent) \in Nat
    BY <1>1, <2>1, ListedYears DEF Last
  <2>3. Asked = <<Last(sent)>> /\ Len(<<Last(sent)>>) = 1
    BY <2>1, <2>2 DEF Asked
  <2> QED
    BY <1>1, <2>2, <2>3 DEF Concat
<1>2. CASE sent = <<>>
  <2>1. Asked = <<CurrentAcademicYear>> /\ Len(<<CurrentAcademicYear>>) = 1
    BY <1>2, <1>w DEF Asked
  <2> QED
    BY <1>2, <2>1 DEF Concat
<1> QED
  BY <1>1, <1>2

\* Every step keeps the types.
LEMMA TypePreserved == TypeOK /\ PlaceInv /\ YearsInv /\ SheetInv /\ [Next]_vars => TypeOK'
<1> SUFFICES ASSUME TypeOK, PlaceInv, YearsInv, SheetInv, [Next]_vars PROVE TypeOK'
  OBVIOUS
<1> USE EngageAssumption, RefusalCodes DEF TypeOK, End, GoTo, history, read
<1>1. CASE AskYears
  <2>1. PICK l \in YearLists \ {<<>>} : sent' = l /\ years' = Listed(0, l)
    BY <1>1 DEF AskYears
  <2>2. l \in Seq(Nat) /\ Listed(0, l) \in Seq(Nat)
    <3>1. l \in Seq(Nat) /\ [i \in DOMAIN l |-> 0] \in Seq(Nat)
      OBVIOUS
    <3> QED
      BY <3>1 DEF Listed
  <2> QED
    BY <1>1, <2>1, <2>2 DEF AskYears
<1>2. CASE YearsRefused \/ YearsNull
  BY <1>2 DEF YearsRefused, YearsNull
<1>a. pc = "render" => Concat(Asked) \in Seq(Nat)
  <2> SUFFICES ASSUME pc = "render" PROVE Concat(Asked) \in Seq(Nat)
    OBVIOUS
  <2>1. PICK y \in Nat : Concat(Asked) = <<y>>
    BY YearAsked
  <2>2. <<y>> \in Seq(Nat)
    OBVIOUS
  <2> QED
    BY <2>1, <2>2
<1>3. CASE AskRender
  <2>1. PICK s \in Sheets, n \in Nat : buf' = Received(s, n) /\ sheet' = s /\ whole' = (n = Len(s))
    BY <1>3 DEF AskRender
  <2>2. Len(s) \in Nat /\ DOMAIN s = 1..Len(s) /\ (\A i \in 1..Len(s) : s[i] \in STRING) /\ s \in Seq(Byte)
    BY DEF Byte
  <2>3. buf' \in Seq(Byte)
    <3>1. \A i \in 1..Len(s) : (IF i <= n THEN s[i] ELSE "NUL") \in Byte
      BY <2>2 DEF Byte
    <3>2. Received(s, n) = [i \in 1..Len(s) |-> IF i <= n THEN s[i] ELSE "NUL"]
      BY <2>2 DEF Received
    <3>3. Received(s, n) \in Seq(Byte)
      BY <2>2, <3>1, <3>2
    <3> QED
      BY <2>1, <3>3
  <2>4. /\ UNCHANGED <<want, years, read, sent>> /\ asked' \in Seq(Nat)
        /\ \/ pc' = "done" /\ result' = "internal"
           \/ pc' \in {"name", "first"} /\ UNCHANGED result
    BY <1>3, <1>a DEF AskRender
  <2> QED
    BY <2>1, <2>2, <2>3, <2>4
<1>4. CASE RenderRefused \/ RenderWithoutLength
  <2>1. /\ UNCHANGED <<want, years, buf, read, sent, sheet, whole>> /\ asked' \in Seq(Nat)
        /\ \/ pc' = "done" /\ result' \in {"panic"} \cup Code
           \/ pc' = "first" /\ UNCHANGED result
    BY <1>4, <1>a DEF RenderRefused, RenderWithoutLength
  <2> QED
    BY <2>1
<1>5. CASE ReadName
  <2>1. /\ name' \in Seq(Byte) /\ buf' \in Seq(Byte) /\ UNCHANGED <<want, years, year, marks, history>>
        /\ pc' \in {"year", "done"} /\ result' \in {result, "not_found", "student"}
    BY <1>5, NameParser DEF ReadName, NotFound
  <2> QED
    BY <2>1
<1>6. CASE ReadYear
  <2>1. /\ year' \in Nat /\ UNCHANGED <<want, years, buf, name, marks, history>>
        /\ pc' = "done" /\ result' \in {"student", "not_found", "internal"}
    <3> DEFINE p == CurrentYearFromRender(buf)
    <3>1. p.is \in {"text", "not_found", "error"} /\ (p.is = "text" => p.text \in Nat)
      BY YearParser DEF NotFound, Failed
    <3>2. /\ year' = (IF p.is = "text" THEN p.text ELSE year) /\ pc' = "done"
          /\ result' = (IF p.is = "text" THEN "student" ELSE ErrorCode(p))
          /\ UNCHANGED <<want, years, buf, name, marks, history>>
      BY <1>6 DEF ReadYear
    <3> HIDE DEF p
    <3> QED
      BY <3>1, <3>2 DEF ErrorCode
  <2> QED
    BY <2>1
<1>7. CASE ReadMark
  <2>1. GetMarkFromRender(buf).is \in {"not_found", "error"}
    BY MarkParser DEF NotFound, Failed
  <2>2. /\ UNCHANGED <<want, years, buf, read, history>>
        /\ pc' = "done" /\ result' \in {"marks", "not_found", "internal"}
    BY <1>7, <2>1 DEF ReadMark, ErrorCode
  <2> QED
    BY <2>2
<1>8. CASE UNCHANGED vars
  BY <1>8 DEF vars
<1> QED
  BY <1>1, <1>2, <1>3, <1>4, <1>5, <1>6, <1>7, <1>8 DEF Next

\* The parts hold at the start and every step keeps them, together.
LEMMA Inductive == Spec => []IInv
<1>1. Init => IInv
  <2> SUFFICES ASSUME Init PROVE IInv
    OBVIOUS
  <2>1. TypeOK
    <3>1. /\ <<>> \in Seq(Nat) /\ <<>> \in Seq(Byte)
          /\ <<>> \in Seq([percentage : Nat, subject : Seq(Byte), teacher : Seq(Byte)])
      OBVIOUS
    <3> QED
      BY <3>1 DEF Init, TypeOK
  <2> QED
    BY <2>1 DEF Init, IInv, PlaceInv, YearsInv, SheetInv, ParsersReturn
<1>2. IInv /\ [Next]_vars => IInv'
  <2> SUFFICES ASSUME IInv, [Next]_vars PROVE IInv'
    OBVIOUS
  <2>t. TypeOK /\ TypeOK'
    BY TypePreserved DEF IInv
  <2>w. want \in {"student", "marks"}
    BY <2>t DEF TypeOK
  <2> SUFFICES PlaceInv' /\ YearsInv' /\ SheetInv' /\ ParsersReturn'
    BY <2>t DEF IInv
  <2> USE EngageAssumption DEF IInv, PlaceInv, YearsInv, SheetInv, ParsersReturn, End, GoTo, history, read
  <2>1. CASE AskYears
    BY <2>1 DEF AskYears
  <2>2. CASE YearsRefused \/ YearsNull
    BY <2>2, RefusalCodes DEF YearsRefused, YearsNull
  <2>a. pc = "render" /\ sent # <<>> => Concat(Asked) = <<Last(sent)>>
    BY <2>t, YearAsked
  <2>3. CASE AskRender
    <3>4. /\ pc = "render" /\ UNCHANGED <<want, years, read, sent>> /\ asked' = Concat(Asked)
          /\ \/ pc' = "done" /\ result' = "internal" /\ want = "student"
             \/ pc' = (IF want = "student" THEN "name" ELSE "first") /\ UNCHANGED result
      BY <2>3, <2>w DEF AskRender, ReadErrorEnds
    <3>5. PlaceInv' /\ YearsInv'
      BY <2>a, <2>w, <3>4
    <3> QED
      BY <3>4, <3>5
  <2>4. CASE RenderRefused \/ RenderWithoutLength
    <3>1. /\ pc = "render" /\ UNCHANGED <<want, years, buf, read, sent, sheet>> /\ asked' = Concat(Asked)
          /\ \/ pc' = "done" /\ (want = "student" \/ result' = "panic") /\ result' # "marks"
             \/ pc' = "first" /\ want = "marks" /\ UNCHANGED result
      BY <2>4, <2>w, RefusalCodes DEF RenderRefused, RenderWithoutLength, ReadErrorEnds
    <3>2. PlaceInv' /\ YearsInv'
      BY <2>a, <2>w, <3>1
    <3> QED
      BY <3>1, <3>2
  <2>5. CASE ReadName
    BY <2>5 DEF ReadName
  <2>6. CASE ReadYear
    <3>1. CurrentYearFromRender(buf).is \in {"text", "not_found", "error"}
      BY DEF CurrentYearFromRender, NotFound, Failed, Text
    <3>2. /\ pc = "year" /\ pc' = "done" /\ result' \notin {"panic", "marks"}
          /\ UNCHANGED <<want, years, buf, name, marks, sent, asked, sheet, whole>>
      BY <2>6, <3>1 DEF ReadYear, ErrorCode
    <3> QED
      BY <3>2
  <2>7. CASE ReadMark
    <3>1. pc = "first" /\ want = "marks" /\ buf \in Seq(Byte)
      BY <2>t, <2>7 DEF ReadMark, TypeOK
    <3>2. GetMarkFromRender(buf).is = IF Percentages(buf) = {} THEN "not_found" ELSE "error"
      BY <3>1, MarkParser DEF NotFound, Failed
    <3>3. /\ pc' = "done" /\ result' = IF Percentages(buf) = {} THEN "not_found" ELSE "internal"
          /\ UNCHANGED <<want, years, buf, name, year, marks, sent, asked, sheet, whole>>
      BY <2>7, <3>1, <3>2 DEF ReadMark, ErrorCode
    <3> QED
      BY <3>1, <3>3 DEF Percentages
  <2>8. CASE UNCHANGED vars
    BY <2>8 DEF vars, Percentages
  <2> QED
    BY <2>1, <2>2, <2>3, <2>4, <2>5, <2>6, <2>7, <2>8 DEF Next
<1> QED
  BY <1>1, <1>2, PTL DEF Spec

\* A sheet that has a link at all has one at its first "<a>": nothing before the name of
\* the pupil opens a link that another line closes.
FirstNamed == \A s \in Sheets : \A l \in Links(s) : \E k \in Links(s) : \A i \in Places(s, Open) : k[1] <= i

\* What is left of the sheet, and what has been read out of it.
StudentInv ==
  /\ pc \in {"name", "year"} \/ result = "student" => sheet \in Sheets
  /\ pc = "name" => \E n \in 0 .. Len(sheet) : buf = Received(sheet, n) /\ (whole => n = Len(sheet))
  /\ pc = "year" /\ whole => \E at \in 0 .. Len(sheet) : buf = From(sheet, at)
  /\ pc = "year" \/ result = "student" =>
       LET t == NameOn(sheet) IN
         /\ \E i, j \in 0 .. Len(t) : name = Slice(t, i, j)
         /\ t # <<>> /\ Head(t) \notin Letters /\ Last(t) \notin Letters => name = t
  /\ result = "student" /\ whole /\ Attends => year = YearOn(sheet)

\* Reading the name and then the year keeps both to those of the sheet.
LEMMA StudentStep ==
  ASSUME FirstNamed, IInv, IInv', StudentInv, [Next]_vars
  PROVE  StudentInv'
<1>t. TypeOK /\ TypeOK'
  BY DEF IInv
<1>r. (pc # "done" => result = "none") /\ (pc' # "done" => result' = "none")
  BY DEF IInv, PlaceInv
<1>1. CASE AskYears \/ YearsRefused \/ YearsNull \/ RenderRefused \/ RenderWithoutLength \/ ReadMark
  <2>1. pc' \notin {"name", "year"} /\ result' # "student"
    <3>1. CASE AskYears \/ YearsNull \/ RenderWithoutLength
      BY <1>r, <3>1 DEF AskYears, YearsNull, RenderWithoutLength, GoTo, End
    <3>2. CASE YearsRefused \/ RenderRefused
      <4>1. \A c \in Refusals \cup {"not_found"} : c # "student"
        <5>1. "student" \notin Code
          BY DEF Code, codes
        <5> QED
          BY <5>1, RefusalCodes
      <4>2. /\ pc # "done" /\ pc' \in {"done", "first"}
            /\ result' \in Refusals \cup {"not_found"} \/ UNCHANGED result
        BY <3>2 DEF YearsRefused, RenderRefused, GoTo, End
      <4> QED
        BY <1>r, <4>1, <4>2
    <3>3. CASE ReadMark
      <4>1. buf \in Seq(Byte)
        BY <1>t DEF TypeOK
      <4>2. GetMarkFromRender(buf).is \in {"not_found", "error"}
        BY <4>1, MarkParser DEF NotFound, Failed
      <4> QED
        BY <1>r, <3>3, <4>2 DEF ReadMark, GoTo, End, ErrorCode
    <3> QED
      BY <1>1, <3>1, <3>2, <3>3
  <2> QED
    BY <2>1 DEF StudentInv
<1>2. CASE AskRender
  <2>1. /\ \E s \in Sheets : \E n \in 0 .. Len(s) :
             sheet' = s /\ whole' = (n = Len(s)) /\ buf' = Received(s, n)
        /\ pc' \in {"name", "first", "done"} /\ result' # "student"
    BY <1>2, <1>r DEF AskRender, GoTo, End
  <2> QED
    BY <2>1 DEF StudentInv
<1>3. CASE ReadName
  <2> DEFINE r == NameFromRender(buf)
             t == NameOn(sheet)
  <2>1. /\ pc = "name" /\ UNCHANGED <<years, sheet, whole>>
        /\ IF r.is = "text"
           THEN /\ name' = r.text /\ buf' = From(buf, r.at)
                /\ (pc' = "year" /\ result' = "none") \/ (pc' = "done" /\ ~Attends)
           ELSE pc' = "done" /\ result' = "not_found"
    <3>1. /\ pc = "name" /\ UNCHANGED <<years, sheet, whole>>
          /\ name' = (IF r.is = "text" THEN r.text ELSE name)
          /\ buf' = (IF r.is = "text" THEN From(buf, r.at) ELSE buf)
          /\ IF r.is # "text" THEN pc' = "done" /\ result' = "not_found"
             ELSE IF Attends THEN pc' = "year" /\ UNCHANGED result ELSE pc' = "done" /\ result' = "student"
      BY <1>3 DEF ReadName, GoTo, End, history
    <3> HIDE DEF r
    <3>2. result = "none"
      BY <1>r, <3>1
    <3>3. CASE r.is = "text"
      BY <3>1, <3>2, <3>3
    <3>4. CASE r.is # "text"
      BY <3>1, <3>4
    <3> QED
      BY <3>3, <3>4
  <2>2. /\ sheet \in Sheets /\ sheet \in Seq(Byte) /\ buf \in Seq(Byte)
        /\ \A l \in Links(sheet) : \E k \in Links(sheet) : \A i \in Places(sheet, Open) : k[1] <= i
    BY <1>t, <2>1 DEF StudentInv, FirstNamed, TypeOK
  <2>3. PICK n \in 0 .. Len(sheet) : buf = Received(sheet, n) /\ (whole => n = Len(sheet))
    BY <2>1 DEF StudentInv
  <2>4. /\ Len(buf) = Len(sheet) /\ \A k \in 1 .. n : buf[k] = sheet[k]
        /\ \A k \in n + 1 .. Len(sheet) : buf[k] = "NUL"
    <3>1. DOMAIN buf = DOMAIN sheet /\ \A k \in DOMAIN sheet : buf[k] = IF k <= n THEN sheet[k] ELSE "NUL"
      BY <2>3 DEF Received
    <3>2. DOMAIN sheet = 1 .. Len(sheet) /\ DOMAIN buf = 1 .. Len(buf) /\ Len(buf) \in Nat /\ Len(sheet) \in Nat
      BY <2>2
    <3>3. Len(buf) = Len(sheet)
      <4> DEFINE x == Len(buf)
                 z == Len(sheet)
      <4>1. x \in Nat /\ z \in Nat /\ 1 .. x = 1 .. z
        BY <3>1, <3>2
      <4> HIDE DEF x, z
      <4>2. ~(x < z)
        <5> SUFFICES ASSUME x < z PROVE FALSE
          OBVIOUS
        <5>1. z \in 1 .. z /\ z \notin 1 .. x
          BY <4>1
        <5> QED
          BY <4>1, <5>1
      <4>3. ~(z < x)
        <5> SUFFICES ASSUME z < x PROVE FALSE
          OBVIOUS
        <5>1. x \in 1 .. x /\ x \notin 1 .. z
          BY <4>1
        <5> QED
          BY <4>1, <5>1
      <4>4. x = z
        BY <4>1, <4>2, <4>3
      <4> QED
        BY <4>4 DEF x, z
    <3> QED
      BY <3>1, <3>2, <3>3
  <2>5. CASE r.is = "text"
    <3>1. /\ \E i, j \in 0 .. Len(t) : r.text = Slice(t, i, j)
          /\ t # <<>> /\ Head(t) \notin Letters /\ Last(t) \notin Letters => r.text = t
          /\ r.at \in 0 .. Len(sheet)
      BY <2>2, <2>4, <2>5, NameOfSheet
    <3>2. whole => buf = sheet
      <4> SUFFICES ASSUME whole PROVE buf = sheet
        OBVIOUS
      <4>1. \A k \in 1 .. Len(sheet) : buf[k] = sheet[k]
        BY <2>3, <2>4
      <4> QED
        BY <2>2, <2>4, <4>1
    <3>3. whole => \E at \in 0 .. Len(sheet) : buf' = From(sheet, at)
      BY <2>1, <2>5, <3>1, <3>2
    <3> HIDE DEF r
    <3>4. /\ sheet' = sheet /\ whole' = whole /\ years' = years /\ name' = r.text
          /\ (pc' = "year" /\ result' = "none") \/ (pc' = "done" /\ ~Attends)
      BY <2>1, <2>5
    <3> QED
      BY <2>2, <3>1, <3>3, <3>4 DEF StudentInv, Attends
  <2>6. CASE r.is # "text"
    BY <2>1, <2>6 DEF StudentInv
  <2> QED
    BY <2>5, <2>6
<1>4. CASE ReadYear
  <2> DEFINE r == CurrentYearFromRender(buf)
  <2>1. /\ pc = "year" /\ pc' = "done" /\ UNCHANGED <<years, sheet, whole, name>>
        /\ IF r.is = "text" THEN year' = r.text ELSE result' # "student"
    <3>1. r.is \in {"text", "not_found", "error"}
      BY DEF CurrentYearFromRender, NotFound, Failed, Text
    <3>2. /\ pc = "year" /\ pc' = "done" /\ UNCHANGED <<years, sheet, whole, name>>
          /\ year' = (IF r.is = "text" THEN r.text ELSE year)
          /\ result' = (IF r.is = "text" THEN "student" ELSE ErrorCode(r))
      BY <1>4 DEF ReadYear, End, history
    <3> HIDE DEF r
    <3> QED
      BY <3>1, <3>2 DEF ErrorCode
  <2>2. r.is = "text" /\ whole => r.text = YearOn(sheet)
    <3> SUFFICES ASSUME r.is = "text", whole PROVE r.text = YearOn(sheet)
      OBVIOUS
    <3>1. PICK at \in 0 .. Len(sheet) : buf = From(sheet, at)
      BY <2>1 DEF StudentInv
    <3>2. sheet \in Seq(Byte)
      BY <1>t DEF TypeOK
    <3> QED
      BY <3>1, <3>2, YearOfSheet
  <2> HIDE DEF r
  <2> QED
    BY <2>1, <2>2 DEF StudentInv
<1>5. CASE UNCHANGED vars
  BY <1>5 DEF vars, read, history, StudentInv, Attends
<1> QED
  BY <1>1, <1>2, <1>3, <1>4, <1>5 DEF Next

-----------------------------------------------------------------------------
\* Every variable of an exchange keeps to its Go type, whatever engage answers: what the
\* parsers read out of a render are names of its bytes and years that are naturals (TypeOK).
THEOREM TypeCorrect == Spec => []TypeOK
BY Inductive, PTL DEF IInv

\* The year a marksheet is asked for is the last one engage listed, and who attends is
\* who has the current one among them, whatever engage lists (YearsAsListed).
THEOREM LatestYearAsked == Spec => []YearsAsListed
<1>1. IInv => YearsAsListed
  <2> SUFFICES ASSUME IInv, sent # <<>> PROVE YearsAsListed
    BY DEF YearsAsListed
  <2>1. sent \in Seq(Nat \ {0}) /\ years = Listed(0, sent)
    BY EngageAssumption DEF IInv, YearsInv
  <2>2. Attends <=> CurrentAcademicYear \in Range(sent)
    BY <2>1, ListedYears, EngageAssumption DEF Attends
  <2> QED
    BY <2>2 DEF IInv, YearsInv, YearsAsListed
<1> QED
  BY <1>1, Inductive, PTL

\* No render makes the parsers of a mark slice out of bounds (ParsersReturn).
THEOREM NoParserPanics == Spec => []ParsersReturn
BY Inductive, PTL DEF IInv

\* A student that is found has the name on the sheet, but for letters of the tag at its
\* ends, and the last year of a sheet that was all read, if the first "<a>" of a sheet
\* is the pupil's (StudentAsOnSheet).
THEOREM StudentFound ==
  ASSUME FirstNamed
  PROVE  Spec => []StudentAsOnSheet
<1>1. Init => StudentInv
  BY DEF Init, StudentInv
<1>2. IInv /\ IInv' /\ StudentInv /\ [Next]_vars => StudentInv'
  BY StudentStep
<1>3. StudentInv => StudentAsOnSheet
  BY DEF StudentInv, StudentAsOnSheet
<1> QED
  BY <1>1, <1>2, <1>3, Inductive, PTL DEF Spec

\* No marksheet, whatever engage renders, yields a mark: every percentage that is found
\* fails to convert (engage/engage.go:159-176, sqlite/mark.go:295-306).
THEOREM NothingRead == Spec => [](marks = <<>> /\ result # "marks")
<1>1. IInv => marks = <<>>
  BY DEF IInv, SheetInv
<1>2. IInv => result # "marks"
  BY DEF IInv, SheetInv
<1> QED
  BY <1>1, <1>2, Inductive, PTL
=============================================================================
