----------------------------- MODULE MarksProofs -----------------------------
(***************************************************************************)
(* Machine-checked theorems about Marks, for any subjects, sheets, periods *)
(* and concurrent calls.                                                   *)
(***************************************************************************)
EXTENDS Marks, FiniteSetTheorems, WellFoundedInduction, TLAPS

Places == {"idle", "period", "lookup", "delete", "commit", "pupil", "local", "engage", "diff",
           "wait", "answer", "returned"}
Tables == [student : BOOLEAN, marks : SUBSET Row]

Running(c) == pc[c] \notin {"idle", "returned"}

\* The places of each method; only a call that has returned has a result.
PlaceInv ==
  /\ \A c \in Find : pc[c] \in {"idle", "period", "engage", "diff", "answer", "returned"}
  /\ \A c \in Delete : pc[c] \in {"idle", "lookup", "delete", "commit", "returned"}
  /\ \A c \in Refresh : pc[c] \in {"idle", "pupil", "local", "engage", "diff", "wait", "returned"}
  /\ \A c \in Call : pc[c] # "returned" => result[c] = "none"

\* A pupil has finitely many marks.
FiniteInv == IsFiniteSet(marks) /\ \A c \in Call : IsFiniteSet(tab[c].marks)

\* What a refresh does with a period: the marks of engage are held against all that its
\* transaction has stored in the period.
DiffInv(c) ==
  /\ pc[c] \in {"local", "engage", "diff", "wait"} =>
       base[c] # 0 /\ "findMarks" \in Written /\ todo[c] # <<>>
  /\ pc[c] \in {"engage", "diff"} => had[c] = InPeriod(tab[c].marks, Head(todo[c]))
  /\ pc[c] = "wait" =>
       LET kept == InPeriod(tab[c].marks, Head(todo[c])) IN
         /\ had[c] \subseteq kept
         /\ Cardinality(kept \ had[c]) = Cardinality(New(c))
         /\ SubjectsOf(kept \ had[c]) = {ans[c][i].subject : i \in New(c)}

\* What the other calls have seen in their transaction: the pupil, the mark to delete.
SeenInv ==
  /\ \A c \in Find : /\ pc[c] \in {"engage", "diff", "answer"} => base[c] # 0
                     /\ pc[c] = "answer" => tab[c].student
  /\ \A c \in Delete : pc[c] = "delete" => base[c] # 0 /\ \E m \in tab[c].marks : m.id = target[c]
  /\ \A c \in Refresh : DiffInv(c)

\* As in Students: the holder of the lock reads the newest version, who has seen it and
\* not written has a true copy, and a commit is for the holder of the lock.
LockInv ==
  /\ version > 0
  /\ \A c \in Call :
       /\ base[c] <= version
       /\ pc[c] \in {"idle", "lookup", "returned"} => base[c] = 0
       /\ base[c] = version /\ writer # c => tab[c] = [student |-> student, marks |-> marks]
       /\ writer = c => base[c] = version /\ Running(c)
       /\ pc[c] = "commit" => writer = c
  /\ \A c \in Delete : writer = c => pc[c] = "commit"

\* What is about to be committed is the table without the one mark, which is there.
DeleteInv ==
  \A c \in Delete : pc[c] = "commit" =>
    /\ \E m \in marks : m.id = target[c]
    /\ tab[c].marks = {m \in marks : m.id # target[c]}

\* A refresh that has written would commit every mark there is.
KeptInv == \A c \in Refresh : writer = c => marks \subseteq tab[c].marks

IInv == TypeOK /\ FiniteInv /\ PlaceInv /\ SeenInv /\ LockInv /\ DeleteInv /\ KeptInv

-----------------------------------------------------------------------------
\* A set of naturals has a least element, a finite one a greatest.
LEMMA Extremes ==
  ASSUME NEW S, S \subseteq Nat, S # {}
  PROVE  /\ \E x \in S : \A y \in S : x <= y
         /\ IsFiniteSet(S) => \E x \in S : \A y \in S : x >= y
<1> DEFINE R == {ss \in Nat \X Nat : ss[1] < ss[2]}
<1>1. IsWellFoundedOn(R, Nat)
  BY NatLessThanWellFounded DEF OpToRel
<1>2. ASSUME NEW T, T \subseteq Nat, T # {} PROVE \E x \in T : \A y \in T : x <= y
  <2>1. PICK x \in T : \A y \in T : ~(<<y, x>> \in R)
    <3> HIDE DEF R
    <3> QED
      BY <1>1, <1>2, WFMin
  <2>2. ASSUME NEW y \in T PROVE x <= y
    <3>1. x \in Nat /\ y \in Nat /\ ~(<<y, x>> \in R)
      BY <1>2, <2>1
    <3>2. ~(y < x)
      BY <3>1
    <3> HIDE DEF R
    <3> QED
      BY <3>1, <3>2
  <2> QED
    BY <2>2
<1> HIDE DEF R
<1>3. ASSUME IsFiniteSet(S) PROVE \E x \in S : \A y \in S : x >= y
\* A sequence of its elements is bounded: no shortest part of it is not.
  <2>1. PICK q \in Seq(S) : \A x \in S : \E n \in 1..Len(q) : q[n] = x
    BY <1>3 DEF IsFiniteSet
  <2>2. Len(q) \in Nat /\ \A i \in 1..Len(q) : q[i] \in Nat
    <3>1. Len(q) \in Nat /\ \A i \in 1..Len(q) : q[i] \in S
      BY <2>1
    <3> QED
      BY <3>1
  <2> DEFINE Bounded(k) == \E u \in Nat : \A i \in 1..k : q[i] <= u
             T == {j \in 0..Len(q) : ~Bounded(j)}
  <2>3. Bounded(Len(q))
    <3> SUFFICES ASSUME ~Bounded(Len(q)) PROVE FALSE
      OBVIOUS
    <3>1. T \subseteq Nat /\ Len(q) \in T
      BY <2>2
    <3>2. PICK k \in T : \A j \in T : k <= j
      BY <1>2, <3>1
    <3>3. k \in 0..Len(q) /\ ~Bounded(k) /\ k # 0
      BY <3>2
    <3>4. k - 1 \in 0..Len(q) /\ ~(k <= k - 1)
      BY <2>2, <3>3
    <3>5. Bounded(k - 1)
      BY <3>2, <3>4
    <3>6. PICK b \in Nat : \A i \in 1..(k - 1) : q[i] <= b
      BY <3>5
    <3>7. q[k] \in Nat
      BY <2>2, <3>3
    <3> HIDE DEF T, Bounded
    <3>8. b + q[k] \in Nat /\ \A i \in 1..k : q[i] <= b + q[k]
      <4>1. k \in Nat
        BY <2>2, <3>3
      <4>2. ASSUME NEW i \in 1..k PROVE q[i] <= b + q[k]
        <5>1. i \in 1..Len(q) /\ q[i] \in Nat
          BY <2>2, <3>3, <4>1
        <5>2. i \in 1..(k - 1) \/ i = k
          BY <4>1
        <5> QED
          BY <3>6, <3>7, <5>1, <5>2
      <4> QED
        BY <3>6, <3>7, <4>2
    <3> USE DEF Bounded
    <3> QED
      BY <3>3, <3>8
  <2>4. PICK u \in Nat : \A x \in S : x <= u
    BY <2>1, <2>3
  <2>5. PICK top \in Nat : (\A x \in S : x <= top) /\ \A v \in Nat : (\A x \in S : x <= v) => top <= v
    <3> DEFINE B == {v \in Nat : \A x \in S : x <= v}
    <3>1. B \subseteq Nat /\ B # {}
      BY <2>4
    <3>2. PICK v \in B : \A w \in B : v <= w
      BY <1>2, <3>1
    <3> QED
      BY <3>2
  <2>6. top \in S
    <3>1. CASE top = 0
      <4>1. PICK x \in S : x \in Nat /\ x <= 0
        BY <2>5, <3>1
      <4> QED
        BY <3>1, <4>1
    <3>2. CASE top # 0
      <4>1. top - 1 \in Nat /\ ~(top <= top - 1)
        BY <3>2
      <4>2. PICK x \in S : ~(x <= top - 1)
        BY <2>5, <4>1
      <4> QED
        BY <2>5, <4>1, <4>2
    <3> QED
      BY <3>1, <3>2
  <2> QED
    BY <2>5, <2>6
<1> QED
  BY <1>2, <1>3

\* The ids there are have a greatest one.
LEMMA LastIdIsNatural ==
  ASSUME TypeOK, FiniteInv, NEW c \in Call
  PROVE  LastId(tab[c].marks) \in Nat
<1> DEFINE S == {0} \cup {m.id : m \in tab[c].marks}
<1>1. (\A m \in tab[c].marks : m.id \in Nat) /\ IsFiniteSet(tab[c].marks)
  BY DEF TypeOK, Row, FiniteInv
<1>2. IsFiniteSet(S)
  <2> DEFINE f == [m \in tab[c].marks |-> m.id]
  <2>1. f \in Surjection(tab[c].marks, {m.id : m \in tab[c].marks})
    BY DEF Surjection
  <2>2. IsFiniteSet({m.id : m \in tab[c].marks})
    BY <1>1, <2>1, FS_Surjection
  <2>3. IsFiniteSet({0})
    BY FS_Singleton
  <2> QED
    BY <2>2, <2>3, FS_Union
<1>3. S \subseteq Nat /\ S # {} /\ LastId(tab[c].marks) = Max(S)
  BY <1>1 DEF LastId
<1> HIDE DEF S
<1>4. \E x \in S : \A y \in S : x >= y
  BY <1>2, <1>3, Extremes
<1>5. Max(S) \in S
  BY <1>4 DEF Max
<1> QED
  BY <1>3, <1>5

\* Finitely many marks of a sheet are new, each with its number among them.
LEMMA NewPlaces ==
  ASSUME TypeOK, NEW c \in Call
  PROVE  /\ New(c) \subseteq Nat /\ IsFiniteSet(New(c))
         /\ \A i \in New(c) : Cardinality({j \in New(c) : j <= i}) \in Nat
<1> USE MarksAssumption
<1>2. New(c) \subseteq DOMAIN ans[c] /\ IsFiniteSet(DOMAIN ans[c]) /\ DOMAIN ans[c] \subseteq Nat
  <2>1. ans[c] \in Seq([subject : STRING, valid : BOOLEAN])
    <3>1. ans[c] \in Sheets \/ ans[c] = <<>>
      BY DEF TypeOK
    <3>2. <<>> \in Seq([subject : STRING, valid : BOOLEAN])
      OBVIOUS
    <3> QED
      BY <3>1, <3>2
  <2>2. DOMAIN ans[c] = 1..Len(ans[c]) /\ Len(ans[c]) \in Nat
    BY <2>1
  <2> QED
    BY <2>2, FS_Interval DEF New
<1>3. IsFiniteSet(New(c)) /\ \A i \in New(c) : Cardinality({j \in New(c) : j <= i}) \in Nat
  <2>1. IsFiniteSet(New(c))
    BY <1>2, FS_Subset
  <2>2. \A i : {j \in New(c) : j <= i} \in SUBSET New(c)
    OBVIOUS
  <2> QED
    BY <2>1, <2>2, FS_Subset, FS_CardinalityType
<1>4. New(c) \subseteq Nat
  BY <1>2
<1> QED
  BY <1>3, <1>4

\* Each of them gets an id of its own, so as many marks are made, a subject listed twice
\* included.
LEMMA CreatedForEach ==
  ASSUME TypeOK, FiniteInv, NEW c \in Call
  PROVE  Cardinality(Created(c)) = Cardinality(New(c))
<1> DEFINE place(i) == Cardinality({j \in New(c) : j <= i})
           made(i) == [id |-> LastId(tab[c].marks) + place(i), period |-> Period(c), subject |-> ans[c][i].subject]
           f == [i \in New(c) |-> made(i)]
<1>1. /\ LastId(tab[c].marks) \in Nat /\ New(c) \subseteq Nat /\ IsFiniteSet(New(c))
      /\ \A i \in New(c) : place(i) \in Nat
  BY LastIdIsNatural, NewPlaces
<1>2. ASSUME NEW i \in New(c), NEW k \in New(c), i < k PROVE place(i) # place(k)
  <2> DEFINE S == {j \in New(c) : j <= k}
             T == {j \in New(c) : j <= i}
  <2>1. IsFiniteSet(S)
    <3>1. S \in SUBSET New(c)
      OBVIOUS
    <3> HIDE DEF S
    <3> QED
      BY <1>1, <3>1, FS_Subset
  <2>2. T \in SUBSET S /\ k \in S /\ k \notin T
    BY <1>1, <1>2
  <2>3. Cardinality(S) # Cardinality(T)
    <3> HIDE DEF S, T
    <3> QED
      BY <2>1, <2>2, FS_Subset
  <2> QED
    BY <2>3
<1>3. \A i, k \in New(c) : place(i) = place(k) => i = k
  BY <1>1, <1>2
<1> HIDE DEF place
<1>4. ASSUME NEW i \in New(c), NEW k \in New(c), made(i) = made(k) PROVE i = k
  <2>1. made(i).id = made(k).id
    BY <1>4
  <2>2. LastId(tab[c].marks) + place(i) = LastId(tab[c].marks) + place(k)
    BY <2>1
  <2> QED
    BY <1>1, <1>3, <2>2
<1>5. Created(c) = {made(i) : i \in New(c)}
  BY DEF Created, place
<1> HIDE DEF made
<1>6. f \in Bijection(New(c), Created(c))
  <2>1. f \in [New(c) -> Created(c)]
    BY <1>5
  <2>2. \A i, k \in New(c) : f[i] = f[k] => i = k
    BY <1>4
  <2>3. \A m \in Created(c) : \E i \in New(c) : f[i] = m
    BY <1>5
  <2> QED
    BY <2>1, <2>2, <2>3 DEF Bijection, Injection, IsInjective, Surjection
<1> QED
  BY <1>1, <1>6, FS_Bijection DEF ExistsBijection

\* The steps that end a call without a commit.
Ends(c) ==
  \/ Fails(c) \/ PeriodInvalid(c) \/ YearOnly(c) \/ FindLocal(c) \/ FindAnswers(c)
  \/ NoMark(c) \/ PupilEnds(c) \/ WaitEnds(c) \/ AskEngageFails(c) \/ DiffFails(c)

\* All of them give back what the call has, and answer.
LEMMA EndsGiveBack ==
  ASSUME NEW c \in Call, Ends(c)
  PROVE  \E r \in {"nil", "marks", "notFound", "invalid", "error", "panic"} : GiveBack(c, r)
BY DEF Ends, Fails, PeriodInvalid, YearOnly, FindLocal, FindAnswers, NoMark,
       PupilEnds, WaitEnds, AskEngageFails, DiffFails

\* Every step keeps the types, and the tables finite.
LEMMA TypePreserved ==
  TypeOK /\ FiniteInv /\ PlaceInv /\ SeenInv /\ [Next]_vars => TypeOK' /\ FiniteInv'
<1> SUFFICES ASSUME TypeOK, FiniteInv, PlaceInv, SeenInv, [Next]_vars PROVE TypeOK' /\ FiniteInv'
  OBVIOUS
<1> USE MarksAssumption
<1>n. Nothing \in Tables /\ IsFiniteSet(Nothing.marks)
  BY FS_EmptySet DEF Nothing, Tables
<1>s. \A c \in Call : Snapshot(c) \in Tables /\ IsFiniteSet(Snapshot(c).marks)
  BY DEF TypeOK, FiniteInv, Snapshot, Tables
<1>c. Find \subseteq Call /\ Delete \subseteq Call /\ Refresh \subseteq Call
  BY DEF Call
<1>1. ASSUME NEW c \in Call, NEW r \in {"nil", "marks", "notFound", "invalid", "error", "panic"}, Return(c, r)
      PROVE  /\ writer' \in Call \cup {NoOne} /\ UNCHANGED <<asked, target, ctxDone>>
             /\ pc' \in [Call -> Places] /\ base' \in [Call -> Nat]
             /\ tab' \in [Call -> Tables] /\ todo' \in [Call -> Seq(Periods)]
             /\ had' \in [Call -> SUBSET Row] /\ ans' \in [Call -> Sheets \cup {<<>>}]
             /\ result' \in [Call -> {"none", "nil", "marks", "notFound", "invalid", "error", "panic"}]
             /\ \A d \in Call : IsFiniteSet(tab'[d].marks)
  <2>1. /\ writer' \in Call \cup {NoOne} /\ UNCHANGED <<asked, target, ctxDone>>
        /\ pc' \in [Call -> Places] /\ base' \in [Call -> Nat]
        /\ had' \in [Call -> SUBSET Row] /\ ans' \in [Call -> Sheets \cup {<<>>}]
        /\ result' \in [Call -> {"none", "nil", "marks", "notFound", "invalid", "error", "panic"}]
    BY <1>1 DEF TypeOK, Return, Places, args
  <2>2. tab' \in [Call -> Tables] /\ \A d \in Call : IsFiniteSet(tab'[d].marks)
    BY <1>1, <1>n DEF TypeOK, FiniteInv, Return, Tables
  <2>3. todo' \in [Call -> Seq(Periods)]
    <3>1. <<>> \in Seq(Periods)
      OBVIOUS
    <3> QED
      BY <1>1, <3>1 DEF TypeOK, Return
  <2> QED
    BY <2>1, <2>2, <2>3
<1>2. ASSUME NEW c \in Call, Ends(c) PROVE TypeOK' /\ FiniteInv'
  <2>1. PICK r \in {"nil", "marks", "notFound", "invalid", "error", "panic"} : GiveBack(c, r)
    BY <1>2, EndsGiveBack
  <2>2. Return(c, r) /\ UNCHANGED <<student, marks, version>>
    BY <2>1 DEF GiveBack
  <2> QED
    BY <1>1, <2>2 DEF TypeOK, FiniteInv, Tables, Places
<1>3. ASSUME NEW c \in Call, Commit(c) PROVE TypeOK' /\ FiniteInv'
  <2>1. Return(c, "nil") /\ UNCHANGED student /\ marks' = tab[c].marks /\ version' = version + 1
    BY <1>3 DEF Commit
  <2>2. tab[c].marks \subseteq Row /\ IsFiniteSet(tab[c].marks)
    BY DEF TypeOK, FiniteInv
  <2> QED
    BY <1>1, <2>1, <2>2 DEF TypeOK, FiniteInv, Tables, Places
<1>4. ASSUME NEW c \in Call, NEW place \in Places, GoTo(c, place),
             UNCHANGED dbVars, base' \in [Call -> Nat], tab' \in [Call -> Tables],
             \A d \in Call : IsFiniteSet(tab'[d].marks),
             todo' \in [Call -> Seq(Periods)], had' \in [Call -> SUBSET Row],
             ans' \in [Call -> Sheets \cup {<<>>}]
      PROVE  TypeOK' /\ FiniteInv'
  BY <1>4 DEF TypeOK, FiniteInv, GoTo, dbVars, args, Places, Tables
<1>5. ASSUME NEW c \in Call, See(c)
      PROVE  /\ base' \in [Call -> Nat] /\ tab' \in [Call -> Tables]
             /\ \A d \in Call : IsFiniteSet(tab'[d].marks)
  BY <1>5, <1>s DEF See, TypeOK, FiniteInv, Tables
<1>t. tab \in [Call -> Tables] /\ pc \in [Call -> Places]
  BY DEF TypeOK, Tables, Places
<1>6. ASSUME NEW c \in Call, Begin(c) PROVE TypeOK' /\ FiniteInv'
  <2>1. PICK place \in {"period", "lookup", "pupil"} : GoTo(c, place)
    BY <1>6 DEF Begin, Call
  <2> QED
    BY <1>4, <1>6, <1>t, <2>1, ZenonT(60) DEF Begin, locals, TypeOK, FiniteInv, Places
<1>7. ASSUME NEW c \in Call, FindBoth(c) PROVE TypeOK' /\ FiniteInv'
  <2>1. had' \in [Call -> SUBSET Row]
    BY <1>7, <1>s DEF FindBoth, Stored, InPeriod, TypeOK, Tables
  <2> QED
    BY <1>4, <1>5, <1>7, <2>1 DEF FindBoth, TypeOK, Places
<1>8. ASSUME NEW c \in Call, LookMark(c) PROVE TypeOK' /\ FiniteInv'
  BY <1>4, <1>5, <1>8 DEF LookMark, TypeOK, Places
<1>9. ASSUME NEW c \in Call, Pupil(c) PROVE TypeOK' /\ FiniteInv'
  <2>1. PICK r \in Ranges : todo' = [todo EXCEPT ![c] = r]
    BY <1>9 DEF Pupil
  <2>2. r \in Seq(Periods)
    <3>1. r \in Seq({p \in ToSet(r) : Full(p)}) /\ ToSet(r) \subseteq Periods
      BY DEF Periods
    <3> QED
      BY <3>1
  <2>3. todo' \in [Call -> Seq(Periods)]
    BY <2>1, <2>2 DEF TypeOK
  <2> QED
    BY <1>4, <1>5, <1>9, <2>3 DEF Pupil, TypeOK, Places
<1>10. ASSUME NEW c \in Call, Local(c) PROVE TypeOK' /\ FiniteInv'
  <2>1. had' \in [Call -> SUBSET Row]
    BY <1>10, <1>s DEF Local, Stored, InPeriod, TypeOK, Tables
  <2> QED
    BY <1>4, <1>10, <1>t, <2>1 DEF Local, TypeOK, FiniteInv, Places
<1>11. ASSUME NEW c \in Call, Wait(c) PROVE TypeOK' /\ FiniteInv'
  <2>1. Tail(todo[c]) \in Seq(Periods)
    BY <1>11 DEF Wait, TypeOK
  <2>2. todo' \in [Call -> Seq(Periods)]
    BY <1>11, <2>1 DEF Wait, TypeOK
  <2> QED
    BY <1>4, <1>11, <1>t, <2>2 DEF Wait, TypeOK, FiniteInv, Places
<1>12. ASSUME NEW c \in Call, AskEngage(c) PROVE TypeOK' /\ FiniteInv'
  <2>1. ans' \in [Call -> Sheets \cup {<<>>}]
    BY <1>12 DEF AskEngage, TypeOK
  <2> QED
    BY <1>4, <1>12, <1>t, <2>1 DEF AskEngage, TypeOK, FiniteInv, Places
<1>13. ASSUME NEW c \in Call, NoDiff(c) PROVE TypeOK' /\ FiniteInv'
  BY <1>4, <1>13, <1>t DEF NoDiff, AfterDiff, TypeOK, FiniteInv, Places
\* A write of finitely many rows into the transaction's copy.
<1>14. ASSUME NEW c \in Call, NEW rows \in SUBSET Row, IsFiniteSet(rows), Write(c, rows),
              NEW place \in Places, GoTo(c, place), UNCHANGED <<todo, had, ans>>
       PROVE  TypeOK' /\ FiniteInv'
  <2>1. tab' \in [Call -> Tables] /\ \A d \in Call : IsFiniteSet(tab'[d].marks)
    <3>1. tab' = [tab EXCEPT ![c] = [tab[c] EXCEPT !.marks = rows]]
      BY <1>14, <1>t DEF Write, Tables
    <3>2. [tab[c] EXCEPT !.marks = rows] \in Tables /\ [tab[c] EXCEPT !.marks = rows].marks = rows
      BY <1>t DEF Tables
    <3> QED
      BY <1>14, <1>t, <3>1, <3>2 DEF FiniteInv
  <2> QED
    BY <1>14, <2>1 DEF Write, GoTo, args, TypeOK, FiniteInv, Tables, Places
<1>15. ASSUME NEW c \in Call, DeleteRow(c) PROVE TypeOK' /\ FiniteInv'
  <2> DEFINE rows == {m \in tab[c].marks : m.id # target[c]}
  <2>1. rows \in SUBSET Row /\ IsFiniteSet(rows)
    BY FS_Subset DEF TypeOK, FiniteInv
  <2> QED
    BY <1>14, <1>15, <2>1 DEF DeleteRow, Places
<1>16. ASSUME NEW c \in Call, Diff(c) PROVE TypeOK' /\ FiniteInv'
  <2> DEFINE made(i) == [id      |-> LastId(tab[c].marks) + Cardinality({j \in New(c) : j <= i}),
                         period  |-> Period(c), subject |-> ans[c][i].subject]
  <2>1. LastId(tab[c].marks) \in Nat
    BY LastIdIsNatural
  <2>2. New(c) \subseteq DOMAIN ans[c]
    BY DEF New
  <2>3. IsFiniteSet(New(c)) /\ \A i \in New(c) : Cardinality({j \in New(c) : j <= i}) \in Nat
    BY NewPlaces
  <2>4. Period(c) \in Asked \cup Periods
    <3>1. CASE c \in Find
      BY <3>1 DEF Period, TypeOK
    <3>2. CASE c \notin Find
      <4>1. c \in Refresh /\ todo[c] # <<>> /\ todo[c] \in Seq(Periods)
        BY <1>16, <3>2 DEF Diff, PlaceInv, SeenInv, DiffInv, TypeOK, Call
      <4> QED
        BY <3>2, <4>1 DEF Period
    <3> QED
      BY <3>1, <3>2
  <2>5. \A i \in New(c) : ans[c][i].subject \in Subjects
    BY <1>16, <2>2 DEF Diff, CanAttach
  <2>6. Created(c) = {made(i) : i \in New(c)}
    BY DEF Created
  <2>7. \A i \in New(c) : made(i) \in Row
    BY <2>1, <2>3, <2>4, <2>5 DEF Row
  <2>8. IsFiniteSet(Created(c))
    <3> DEFINE f == [i \in New(c) |-> made(i)]
    <3>1. f \in Surjection(New(c), {made(i) : i \in New(c)})
      BY DEF Surjection
    <3> QED
      BY <2>3, <2>6, <3>1, FS_Surjection
  <2>9. tab[c].marks \cup Created(c) \in SUBSET Row /\ IsFiniteSet(tab[c].marks \cup Created(c))
    <3>1. Created(c) \subseteq Row
      BY <2>6, <2>7
    <3> QED
      BY <3>1, <2>8, FS_Union DEF TypeOK, FiniteInv
  <2>10. PICK place \in {"answer", "wait"} : GoTo(c, place)
    BY <1>16 DEF Diff, AfterDiff
  <2> QED
    BY <1>14, <1>16, <2>9, <2>10 DEF Diff, AfterDiff, Places
<1>17. ASSUME NEW c \in Call, Cancel(c) PROVE TypeOK' /\ FiniteInv'
  BY <1>17 DEF Cancel, dbVars, args, locals, TypeOK, FiniteInv
<1>18. CASE DeleteStudent
  <2>1. IsFiniteSet(marks') /\ marks' = {}
    BY <1>18, FS_EmptySet DEF DeleteStudent
  <2> QED
    <3>1. /\ UNCHANGED <<writer, asked, target, pc, ctxDone, base, tab, todo, had, ans, result>>
          /\ version' = version + 1 /\ student' \in BOOLEAN
      BY <1>18 DEF DeleteStudent, args, locals
    <3> QED
      BY <2>1, <3>1 DEF TypeOK, FiniteInv
<1>19. CASE UNCHANGED vars
  BY <1>19 DEF vars, dbVars, args, locals, TypeOK, FiniteInv
<1> QED
  BY <1>2, <1>3, <1>6, <1>7, <1>8, <1>9, <1>10, <1>11, <1>12, <1>13, <1>15, <1>16, <1>17, <1>18, <1>19
     DEF Next, Step, Ends

\* Only calls that may stand at a place get there.
LEMMA PlacePreserved == TypeOK /\ PlaceInv /\ [Next]_vars => PlaceInv'
<1> SUFFICES ASSUME TypeOK, PlaceInv, [Next]_vars PROVE PlaceInv'
  OBVIOUS
<1> USE MarksAssumption
<1>t. /\ pc \in [Call -> Places] /\ result \in [Call -> {"none", "nil", "marks", "notFound", "invalid", "error", "panic"}]
      /\ Find \subseteq Call /\ Delete \subseteq Call /\ Refresh \subseteq Call
  BY DEF TypeOK, Places, Call
<1>1. ASSUME NEW c \in Call, Ends(c) \/ Commit(c) PROVE PlaceInv'
  <2>1. \E r : Return(c, r)
    BY <1>1, EndsGiveBack DEF GiveBack, Commit
  <2> QED
    BY <1>t, <2>1 DEF Return, PlaceInv
<1>2. ASSUME NEW c \in Call, NEW place, GoTo(c, place), pc[c] # "returned", place # "returned",
             c \in Find => place \in {"period", "engage", "diff", "answer"},
             c \in Delete => place \in {"lookup", "delete", "commit"},
             c \in Refresh => place \in {"pupil", "local", "engage", "diff", "wait"}
      PROVE  PlaceInv'
  BY <1>t, <1>2 DEF GoTo, PlaceInv
<1>3. ASSUME NEW c \in Call, Begin(c) PROVE PlaceInv'
  BY <1>2, <1>3 DEF Begin, Call
<1>4. ASSUME NEW c \in Call, FindBoth(c) \/ LookMark(c) \/ Pupil(c) PROVE PlaceInv'
  BY <1>2, <1>4, <1>t DEF FindBoth, LookMark, Pupil, PlaceInv
<1>5. ASSUME NEW c \in Call, DeleteRow(c) \/ Local(c) \/ Wait(c) \/ AskEngage(c) PROVE PlaceInv'
  BY <1>2, <1>5, <1>t DEF DeleteRow, Local, Wait, AskEngage, PlaceInv
<1>6. ASSUME NEW c \in Call, Diff(c) \/ NoDiff(c) PROVE PlaceInv'
  BY <1>2, <1>6, <1>t DEF Diff, NoDiff, AfterDiff, PlaceInv
<1>7. CASE DeleteStudent \/ UNCHANGED vars \/ \E c \in Call : Cancel(c)
  BY <1>7 DEF DeleteStudent, Cancel, vars, PlaceInv
<1> QED
  BY <1>1, <1>3, <1>4, <1>5, <1>6, <1>7 DEF Next, Step, Ends

\* A call that takes the write lock has the newest tables.
LEMMA LockPreserved == TypeOK /\ PlaceInv /\ LockInv /\ [Next]_vars => LockInv'
<1> SUFFICES ASSUME TypeOK, PlaceInv, LockInv, [Next]_vars PROVE LockInv'
  OBVIOUS
<1> USE MarksAssumption DEF LockInv, Running
<1>t. /\ version \in Nat /\ base \in [Call -> Nat] /\ tab \in [Call -> Tables] /\ pc \in [Call -> Places]
      /\ Find \subseteq Call /\ Delete \subseteq Call /\ Refresh \subseteq Call /\ NoOne \notin Call
      /\ Find \cap Delete = {} /\ Delete \cap Refresh = {}
  BY DEF TypeOK, Tables, Places, Call
<1>1. ASSUME NEW c \in Call, Ends(c) PROVE LockInv'
  <2>1. \E r : Return(c, r) /\ UNCHANGED <<student, marks, version>>
    BY <1>1, EndsGiveBack DEF GiveBack
  <2> QED
    BY <1>t, <2>1 DEF Return
<1>2. ASSUME NEW c \in Call, Commit(c) PROVE LockInv'
  <2>1. /\ version' = version + 1 /\ pc[c] = "commit" /\ pc' = [pc EXCEPT ![c] = "returned"]
        /\ base' = [base EXCEPT ![c] = 0] /\ writer' = NoOne /\ writer = c
    BY <1>2, <1>t DEF Commit, Return
  <2> QED
    BY <1>t, <2>1
<1>3. CASE DeleteStudent
  <2>1. /\ version' = version + 1 /\ writer = NoOne /\ UNCHANGED <<writer, pc, base, tab>>
    BY <1>3 DEF DeleteStudent, locals
  <2> QED
    BY <1>t, <2>1
\* A step of a transaction that reads.
<1>4. ASSUME NEW c \in Call, NEW place, pc[c] # "returned",
             place \notin {"idle", "lookup", "commit", "returned"} \/ (place = "lookup" /\ pc[c] = "idle"),
             pc' = [pc EXCEPT ![c] = place], UNCHANGED dbVars,
             (See(c) /\ place # "lookup") \/ UNCHANGED <<base, tab>>,
             pc[c] \in {"commit", "lookup"} => c \in Delete /\ writer # c
      PROVE  LockInv'
  <2>1. CASE See(c) /\ place # "lookup"
    <3>1. /\ base' = [base EXCEPT ![c] = IF @ = 0 THEN version ELSE @]
          /\ tab' = [tab EXCEPT ![c] = Snapshot(c)] /\ UNCHANGED <<student, marks, version, writer>>
      BY <1>4, <2>1 DEF See, dbVars
    <3>2. base'[c] = version /\ writer # c => tab'[c] = [student |-> student, marks |-> marks]
      BY <1>t, <3>1 DEF Snapshot
    <3> QED
      BY <1>t, <1>4, <2>1, <3>1, <3>2
  <2>2. CASE UNCHANGED <<base, tab>>
    BY <1>t, <1>4, <2>2 DEF dbVars
  <2> QED
    BY <1>4, <2>1, <2>2
<1>5. ASSUME NEW c \in Call, Begin(c) PROVE LockInv'
  <2>1. PICK place \in {"period", "lookup", "pupil"} : pc' = [pc EXCEPT ![c] = place]
    BY <1>5 DEF Begin, GoTo, Call
  <2> QED
    BY <1>4, <1>5, <2>1 DEF Begin, locals
<1>6. ASSUME NEW c \in Call, FindBoth(c) \/ LookMark(c) \/ Pupil(c) PROVE LockInv'
  <2>1. /\ See(c) /\ UNCHANGED dbVars /\ pc[c] \in {"period", "lookup", "pupil"}
        /\ \E place \in {"engage", "delete", "local"} : pc' = [pc EXCEPT ![c] = place]
    BY <1>6 DEF FindBoth, LookMark, Pupil, GoTo
  <2>2. pc[c] = "lookup" => c \in Delete /\ writer # c
    BY <1>t DEF PlaceInv, Call
  <2> QED
    BY <1>4, <2>1, <2>2, ZenonT(60)
<1>7. ASSUME NEW c \in Call, Local(c) \/ Wait(c) \/ AskEngage(c) \/ NoDiff(c) PROVE LockInv'
  <2>1. /\ UNCHANGED <<base, tab>> /\ UNCHANGED dbVars /\ pc[c] \in {"local", "wait", "engage", "diff"}
        /\ \E place \in {"engage", "local", "diff", "answer", "wait"} : pc' = [pc EXCEPT ![c] = place]
    BY <1>7 DEF Local, Wait, AskEngage, NoDiff, AfterDiff, GoTo
  <2> QED
    BY <1>4, <2>1, ZenonT(60)
\* A step that writes: the version it has seen is the newest.
<1>8. ASSUME NEW c \in Call, DeleteRow(c) \/ Diff(c) PROVE LockInv'
  <2>1. /\ writer' = c /\ UNCHANGED <<student, marks, version, base>> /\ (writer = c \/ (writer = NoOne /\ base[c] = version))
        /\ \A d \in Call \ {c} : tab'[d] = tab[d]
        /\ \E place \in {"commit", "answer", "wait"} : pc' = [pc EXCEPT ![c] = place] /\ (c \in Delete => place = "commit")
    BY <1>8, <1>t DEF DeleteRow, Diff, AfterDiff, Write, GoTo, CanWrite, PlaceInv
  <2> QED
    BY <1>t, <2>1
<1>9. CASE UNCHANGED vars \/ \E c \in Call : Cancel(c)
  BY <1>9 DEF Cancel, vars, dbVars, locals
<1> QED
  BY <1>1, <1>2, <1>3, <1>5, <1>6, <1>7, <1>8, <1>9 DEF Next, Step, Ends

\* What a refresh has done depends on nothing but these.
LEMMA DiffKept ==
  ASSUME NEW d, pc'[d] = pc[d], base'[d] = base[d], tab'[d] = tab[d], todo'[d] = todo[d],
         had'[d] = had[d], ans'[d] = ans[d], DiffInv(d)
  PROVE  DiffInv(d)'
<1>1. New(d)' = New(d)
  BY DEF New
<1>2. {ans'[d][i].subject : i \in New(d)'} = {ans[d][i].subject : i \in New(d)}
  BY <1>1
<1> QED
  BY <1>1, <1>2 DEF DiffInv

\* What a call sees of the old marks is what was committed.
LEMMA SeenPreserved == TypeOK /\ FiniteInv /\ PlaceInv /\ LockInv /\ SeenInv /\ [Next]_vars => SeenInv'
<1> SUFFICES ASSUME TypeOK, FiniteInv, PlaceInv, LockInv, SeenInv, [Next]_vars PROVE SeenInv'
  OBVIOUS
<1> USE MarksAssumption
<1>t. /\ base \in [Call -> Nat] /\ tab \in [Call -> Tables] /\ pc \in [Call -> Places]
      /\ todo \in [Call -> Seq(Periods)] /\ had \in [Call -> SUBSET Row] /\ ans \in [Call -> Sheets \cup {<<>>}]
      /\ Find \subseteq Call /\ Delete \subseteq Call /\ Refresh \subseteq Call
      /\ Find \cap Delete = {} /\ Delete \cap Refresh = {} /\ Find \cap Refresh = {}
      /\ version \in Nat /\ version # 0
  BY DEF TypeOK, Tables, Places, Call, LockInv
<1> DEFINE Seen(c) == /\ c \in Find => /\ pc[c] \in {"engage", "diff", "answer"} => base[c] # 0
                                       /\ pc[c] = "answer" => tab[c].student
                      /\ c \in Delete => (pc[c] = "delete" => base[c] # 0 /\ \E m \in tab[c].marks : m.id = target[c])
                      /\ c \in Refresh => DiffInv(c)
<1>s. \A c \in Call : Seen(c)
  BY DEF SeenInv
<1>d. (\A c \in Call : Seen(c)') => SeenInv'
  BY <1>t DEF SeenInv
\* A step of one call leaves what the others have seen.
<1>1. ASSUME NEW c \in Call, Seen(c)', target' = target,
             \A d \in Call \ {c} : /\ pc'[d] = pc[d] /\ base'[d] = base[d] /\ tab'[d] = tab[d]
                                   /\ todo'[d] = todo[d] /\ had'[d] = had[d] /\ ans'[d] = ans[d]
      PROVE  SeenInv'
  <2>1. ASSUME NEW d \in Call, d # c PROVE Seen(d)'
    <3>1. DiffInv(d) => DiffInv(d)'
      BY <1>1, <2>1, DiffKept
    <3> QED
      BY <1>1, <1>s, <2>1, <3>1
  <2> QED
    BY <1>1, <1>d, <2>1
<1>2. ASSUME NEW c \in Call, NEW r, Return(c, r) PROVE SeenInv'
  <2>1. pc'[c] = "returned"
    BY <1>t, <1>2 DEF Return
  <2>2. Seen(c)'
    BY <2>1 DEF DiffInv
  <2>3. /\ target' = target
        /\ \A d \in Call \ {c} : /\ pc'[d] = pc[d] /\ base'[d] = base[d] /\ tab'[d] = tab[d]
                                 /\ todo'[d] = todo[d] /\ had'[d] = had[d] /\ ans'[d] = ans[d]
    BY <1>t, <1>2 DEF Return, args
  <2> QED
    BY <1>1, <2>2, <2>3
<1>3. ASSUME NEW c \in Call, See(c)
      PROVE  /\ base'[c] # 0 /\ tab'[c] = Snapshot(c)
             /\ \A d \in Call \ {c} : base'[d] = base[d] /\ tab'[d] = tab[d]
  BY <1>t, <1>3 DEF See
<1>4. ASSUME NEW c \in Call, Begin(c) PROVE SeenInv'
  <2>1. PICK place \in {"period", "lookup", "pupil"} : GoTo(c, place)
    BY <1>4 DEF Begin, Call
  <2>2. Seen(c)'
    BY <1>t, <2>1 DEF GoTo, DiffInv
  <2> QED
    BY <1>1, <1>4, <1>t, <2>1, <2>2 DEF Begin, GoTo, args, locals
<1>5. ASSUME NEW c \in Call, FindBoth(c) PROVE SeenInv'
  <2>1. c \in Find /\ pc'[c] = "engage"
    BY <1>5, <1>t DEF FindBoth, GoTo, PlaceInv, Call
  <2>2. Seen(c)'
    BY <1>3, <1>5, <1>t, <2>1 DEF FindBoth
  <2> QED
    BY <1>1, <1>3, <1>5, <1>t, <2>2 DEF FindBoth, GoTo, args
<1>6. ASSUME NEW c \in Call, LookMark(c) PROVE SeenInv'
  <2>1. c \in Delete /\ pc'[c] = "delete" /\ target' = target
    BY <1>6, <1>t DEF LookMark, GoTo, PlaceInv, Call, args
  <2>2. \E m \in Snapshot(c).marks : m.id = target[c]
    BY <1>6 DEF LookMark, Stored
  <2>3. Seen(c)'
    BY <1>3, <1>6, <1>t, <2>1, <2>2 DEF LookMark
  <2> QED
    BY <1>1, <1>3, <1>6, <1>t, <2>3 DEF LookMark, GoTo, args
<1>7. ASSUME NEW c \in Call, DeleteRow(c) PROVE SeenInv'
  <2>1. c \in Delete /\ pc'[c] = "commit"
    BY <1>7, <1>t DEF DeleteRow, GoTo, PlaceInv, Call
  <2>2. Seen(c)'
    BY <1>t, <2>1
  <2> QED
    BY <1>1, <1>7, <1>t, <2>2 DEF DeleteRow, Write, GoTo, args
<1>8. ASSUME NEW c \in Call, Pupil(c) PROVE SeenInv'
  <2>1. c \in Refresh /\ pc'[c] = "local"
    BY <1>8, <1>t DEF Pupil, GoTo, PlaceInv, Call
  <2>2. todo'[c] # <<>> /\ "findMarks" \in Written
    BY <1>8, <1>t DEF Pupil, HasPupil, FindsPupil
  <2>3. Seen(c)'
    BY <1>3, <1>8, <1>t, <2>1, <2>2 DEF Pupil, DiffInv
  <2> QED
    BY <1>1, <1>3, <1>8, <1>t, <2>3 DEF Pupil, GoTo, args
<1>9. ASSUME NEW c \in Call, Local(c) PROVE SeenInv'
  <2>1. c \in Refresh /\ DiffInv(c) /\ pc[c] = "local" /\ pc'[c] = "engage" /\ UNCHANGED <<base, tab, todo>>
    BY <1>9, <1>s, <1>t DEF Local, GoTo, PlaceInv, Call
  <2>2. had'[c] = InPeriod(tab[c].marks, Head(todo[c]))
    BY <1>9, <1>t, <2>1 DEF Local, Stored, Snapshot, DiffInv
  <2>3. Seen(c)'
    BY <1>t, <2>1, <2>2 DEF DiffInv
  <2> QED
    BY <1>1, <1>9, <1>t, <2>3 DEF Local, GoTo, args
<1>10. ASSUME NEW c \in Call, Wait(c) PROVE SeenInv'
  <2>1. c \in Refresh /\ DiffInv(c) /\ pc[c] = "wait" /\ pc'[c] = "local" /\ UNCHANGED <<base, tab>>
    BY <1>10, <1>s, <1>t DEF Wait, GoTo, PlaceInv, Call
  <2>2. todo'[c] # <<>>
    <3> DEFINE s == todo[c]
    <3>1. todo'[c] = Tail(s) /\ s \in Seq(Periods) /\ Len(s) > 1
      BY <1>10, <1>t DEF Wait
    <3> DEFINE k == Len(s)
               n == Len(Tail(s))
    <3> HIDE DEF s
    <3>2. k \in Nat /\ k > 1 /\ n = k - 1
      BY <3>1
    <3> HIDE DEF k, n
    <3>3. n # 0
      BY <3>2
    <3>4. Len(<<>>) = 0
      OBVIOUS
    <3>5. Tail(s) # <<>>
      BY <3>3, <3>4, Zenon DEF n
    <3> QED
      BY <3>1, <3>5
  <2>3. Seen(c)'
    BY <1>t, <2>1, <2>2 DEF DiffInv
  <2> QED
    BY <1>1, <1>10, <1>t, <2>3 DEF Wait, GoTo, args
<1>11. ASSUME NEW c \in Call, AskEngage(c) PROVE SeenInv'
  <2>1. pc[c] = "engage" /\ pc'[c] = "diff" /\ UNCHANGED <<base, tab, todo, had>>
    BY <1>11, <1>t DEF AskEngage, GoTo
  <2>2. Seen(c)'
    BY <1>s, <1>t, <2>1 DEF DiffInv, PlaceInv
  <2> QED
    BY <1>1, <1>11, <1>t, <2>2 DEF AskEngage, GoTo, args
\* The sheet has been gone through.
<1>12. ASSUME NEW c \in Call, Diff(c) \/ NoDiff(c) PROVE SeenInv'
  <2>1. /\ pc[c] = "diff" /\ UNCHANGED <<base, todo, had, ans>> /\ target' = target
        /\ pc' = [pc EXCEPT ![c] = IF c \in Find THEN "answer" ELSE "wait"]
        /\ \A d \in Call \ {c} : tab'[d] = tab[d]
        /\ tab'[c].student = tab[c].student /\ tab'[c].marks = tab[c].marks \cup Created(c)
    <3>1. CASE Diff(c)
      BY <1>t, <3>1 DEF Diff, AfterDiff, GoTo, Write, args, Tables
    <3>2. CASE NoDiff(c)
      BY <1>t, <3>2 DEF NoDiff, AfterDiff, GoTo, args, Created
    <3> QED
      BY <1>12, <3>1, <3>2
  <2>2. CASE c \in Find
    <3>1. base[c] # 0 /\ Snapshot(c).student
      BY <1>12, <1>s, <2>1, <2>2 DEF Diff, NoDiff, CanAttach, HasPupil, FindsPupil
    <3>2. Seen(c)'
      BY <1>t, <2>1, <2>2, <3>1 DEF Snapshot
    <3> QED
      BY <1>1, <1>t, <2>1, <3>2
  <2>3. CASE c \notin Find
    <3>1. c \in Refresh /\ pc'[c] = "wait" /\ DiffInv(c)
      BY <1>s, <1>t, <2>1, <2>3 DEF PlaceInv, Call
    <3> DEFINE rows == InPeriod(tab[c].marks \cup Created(c), Head(todo[c]))
               made(i) == [id      |-> LastId(tab[c].marks) + Cardinality({j \in New(c) : j <= i}),
                           period  |-> Period(c), subject |-> ans[c][i].subject]
    <3>m. Created(c) = {made(i) : i \in New(c)}
      BY DEF Created
    <3>p. \A i : made(i).period = Period(c) /\ made(i).subject = ans[c][i].subject
      OBVIOUS
    <3> HIDE DEF made
    <3>2. \A m \in Created(c) : m.period = Head(todo[c]) /\ m.subject \notin SubjectsOf(had[c])
      BY <2>3, <3>m, <3>p DEF Period, New
    <3>3. had[c] = InPeriod(tab[c].marks, Head(todo[c]))
      BY <2>1, <3>1 DEF DiffInv
    <3>4. rows = had[c] \cup Created(c) /\ rows \ had[c] = Created(c)
      BY <3>2, <3>3 DEF InPeriod, SubjectsOf
    <3>5. /\ SubjectsOf(Created(c)) = {ans[c][i].subject : i \in New(c)}
          /\ Cardinality(Created(c)) = Cardinality(New(c))
      BY <3>m, <3>p, CreatedForEach DEF SubjectsOf
    <3>6. DiffInv(c)'
      <4>1. base'[c] # 0 /\ "findMarks" \in Written /\ todo'[c] # <<>>
        BY <2>1, <3>1 DEF DiffInv
      <4>2. /\ InPeriod(tab'[c].marks, Head(todo'[c])) = rows /\ had'[c] = had[c] /\ ans'[c] = ans[c]
            /\ New(c)' = New(c)
        BY <2>1 DEF New
      <4> HIDE DEF rows
      <4>3. /\ had'[c] \subseteq rows
            /\ Cardinality(rows \ had'[c]) = Cardinality(New(c)')
            /\ SubjectsOf(rows \ had'[c]) = {ans'[c][i].subject : i \in New(c)'}
        <5>1. {ans'[c][i].subject : i \in New(c)'} = {ans[c][i].subject : i \in New(c)}
          BY <4>2
        <5>2. rows \ had'[c] = Created(c) /\ had'[c] \subseteq rows
          BY <3>4, <4>2
        <5> QED
          BY <3>5, <4>2, <5>1, <5>2
      <4> QED
        BY <3>1, <4>1, <4>2, <4>3 DEF DiffInv
    <3>7. Seen(c)'
      BY <1>t, <3>1, <3>6
    <3> QED
      BY <1>1, <1>t, <2>1, <3>7
  <2> QED
    BY <2>2, <2>3
<1>13. ASSUME NEW c \in Call, Ends(c) \/ Commit(c) PROVE SeenInv'
  BY <1>2, <1>13, EndsGiveBack DEF GiveBack, Commit
<1>14. CASE DeleteStudent \/ UNCHANGED vars \/ \E c \in Call : Cancel(c)
  <2>1. UNCHANGED <<target, pc, base, tab, todo, had, ans>>
    BY <1>14 DEF DeleteStudent, Cancel, vars, locals, args
  <2> QED
    BY <2>1, DiffKept DEF SeenInv
<1> QED
  BY <1>4, <1>5, <1>6, <1>7, <1>8, <1>9, <1>10, <1>11, <1>12, <1>13, <1>14 DEF Next, Step, Ends

\* A refresh takes the lock with a true copy, and only adds to it.
LEMMA KeptPreserved == TypeOK /\ PlaceInv /\ LockInv /\ KeptInv /\ [Next]_vars => KeptInv'
<1> SUFFICES ASSUME TypeOK, PlaceInv, LockInv, KeptInv, [Next]_vars PROVE KeptInv'
  OBVIOUS
<1> USE MarksAssumption
<1>t. /\ version \in Nat \ {0} /\ base \in [Call -> Nat] /\ tab \in [Call -> Tables]
      /\ Refresh \subseteq Call /\ NoOne \notin Call
  BY DEF TypeOK, Tables, Call, LockInv
\* A step of c that commits nothing.
<1>1. ASSUME NEW c \in Call, marks' = marks,
             \A d \in Call \ {c} : tab'[d] = tab[d] /\ (writer' = d => writer = d),
             c \in Refresh /\ writer' = c => marks \subseteq tab'[c].marks
      PROVE  KeptInv'
  BY <1>t, <1>1 DEF KeptInv
<1>2. ASSUME NEW c \in Call, Ends(c) PROVE KeptInv'
  <2>1. \E r : Return(c, r) /\ marks' = marks
    BY <1>2, EndsGiveBack DEF GiveBack
  <2> QED
    BY <1>t, <1>1, <2>1 DEF Return
<1>3. CASE DeleteStudent \/ \E c \in Call : Commit(c)
  <2>1. writer' = NoOne
    BY <1>3 DEF DeleteStudent, Commit, Return, LockInv
  <2> QED
    BY <1>t, <2>1 DEF KeptInv
<1>4. ASSUME NEW c \in Call, FindBoth(c) \/ LookMark(c) \/ Pupil(c) PROVE KeptInv'
  <2>1. See(c) /\ UNCHANGED <<marks, writer>>
    BY <1>4 DEF FindBoth, LookMark, Pupil, dbVars
  <2>2. writer = c => Snapshot(c) = tab[c]
    BY <1>t DEF LockInv, Snapshot
  <2> QED
    BY <1>t, <1>1, <2>1, <2>2 DEF See, KeptInv
<1>5. ASSUME NEW c \in Call, Begin(c) \/ Local(c) \/ Wait(c) \/ AskEngage(c) \/ NoDiff(c) PROVE KeptInv'
  <2>1. UNCHANGED <<marks, writer, tab>>
    BY <1>5 DEF Begin, Local, Wait, AskEngage, NoDiff, dbVars, locals
  <2> QED
    BY <2>1 DEF KeptInv
<1>6. ASSUME NEW c \in Call, DeleteRow(c) PROVE KeptInv'
  <2>1. c \notin Refresh
    BY <1>6, <1>t DEF DeleteRow, PlaceInv
  <2> QED
    BY <1>t, <1>1, <1>6, <2>1 DEF DeleteRow, Write
<1>7. ASSUME NEW c \in Call, Diff(c) PROVE KeptInv'
  <2>1. c \in Refresh => marks \subseteq tab[c].marks
    BY <1>7, <1>t DEF Diff, CanWrite, LockInv, KeptInv
  <2>2. tab'[c].marks = tab[c].marks \cup Created(c)
    BY <1>7, <1>t DEF Diff, Write, Tables
  <2> QED
    BY <1>t, <1>1, <1>7, <2>1, <2>2 DEF Diff, Write
<1>8. CASE UNCHANGED vars \/ \E c \in Call : Cancel(c)
  BY <1>8 DEF Cancel, vars, dbVars, locals, KeptInv
<1> QED
  BY <1>2, <1>3, <1>4, <1>5, <1>6, <1>7, <1>8 DEF Next, Step, Ends

\* A delete is about to commit the tables without its mark.
LEMMA DeletePreserved ==
  TypeOK /\ PlaceInv /\ LockInv /\ SeenInv /\ DeleteInv /\ [Next]_vars => DeleteInv'
<1> SUFFICES ASSUME TypeOK, PlaceInv, LockInv, SeenInv, DeleteInv, [Next]_vars PROVE DeleteInv'
  OBVIOUS
<1> USE MarksAssumption
<1>t. /\ base \in [Call -> Nat] /\ tab \in [Call -> Tables] /\ pc \in [Call -> Places]
      /\ Find \subseteq Call /\ Delete \subseteq Call /\ Refresh \subseteq Call /\ NoOne \notin Call
  BY DEF TypeOK, Tables, Places, Call
\* Whoever is at its commit holds the lock, so no one else changes the table.
<1>1. ASSUME NEW c \in Call, NEW r, Return(c, r), marks' = marks \/ writer = c PROVE DeleteInv'
  <2>1. /\ pc' = [pc EXCEPT ![c] = "returned"] /\ target' = target
        /\ \A d \in Call \ {c} : tab'[d] = tab[d]
    BY <1>1, <1>t DEF Return, args
  <2>2. ASSUME NEW d \in Delete, pc'[d] = "commit"
        PROVE  d # c /\ pc[d] = "commit" /\ tab'[d] = tab[d] /\ writer = d
    BY <1>t, <2>1, <2>2 DEF LockInv
  <2>3. ASSUME NEW d \in Delete, pc'[d] = "commit" PROVE marks' = marks
    BY <1>1, <2>2, <2>3
  <2> QED
    BY <2>1, <2>2, <2>3 DEF DeleteInv
<1>2. ASSUME NEW c \in Call, NEW place \in Places \ {"commit"}, pc' = [pc EXCEPT ![c] = place],
             UNCHANGED <<marks, target>>, \A d \in Call \ {c} : tab'[d] = tab[d]
      PROVE  DeleteInv'
  BY <1>2, <1>t DEF DeleteInv
<1>3. ASSUME NEW c \in Call, Ends(c) PROVE DeleteInv'
  BY <1>1, <1>3, EndsGiveBack DEF GiveBack
<1>4. ASSUME NEW c \in Call, Commit(c) PROVE DeleteInv'
  BY <1>1, <1>4 DEF Commit, LockInv
<1>5. ASSUME NEW c \in Call, DeleteRow(c) PROVE DeleteInv'
  <2>1. c \in Delete /\ pc[c] = "delete" /\ target' = target /\ marks' = marks
    BY <1>5, <1>t DEF DeleteRow, CanWrite, Write, GoTo, args, PlaceInv, Call
  <2>2. writer # c /\ writer = NoOne /\ base[c] = version
    BY <1>5, <1>t, <2>1 DEF DeleteRow, CanWrite, LockInv
  <2>3. tab[c].marks = marks /\ \E m \in tab[c].marks : m.id = target[c]
    BY <1>t, <2>1, <2>2 DEF LockInv, SeenInv
  <2>4. tab'[c].marks = {m \in marks : m.id # target[c]}
    BY <1>5, <1>t, <2>3 DEF DeleteRow, Write, Tables
  <2>5. ASSUME NEW d \in Delete, d # c PROVE pc'[d] # "commit"
    BY <1>5, <1>t, <2>2, <2>5 DEF DeleteRow, GoTo, LockInv
  <2> QED
    BY <2>1, <2>3, <2>4, <2>5 DEF DeleteInv
<1>6. ASSUME NEW c \in Call, Begin(c) PROVE DeleteInv'
  <2>1. PICK place \in {"period", "lookup", "pupil"} : GoTo(c, place)
    BY <1>6 DEF Begin, Call
  <2> QED
    BY <1>2, <1>6, <2>1 DEF Begin, GoTo, dbVars, args, locals, Places
<1>7. ASSUME NEW c \in Call, FindBoth(c) \/ LookMark(c) \/ Pupil(c) PROVE DeleteInv'
  <2>1. /\ See(c) /\ UNCHANGED <<marks, target>>
        /\ \E place \in {"engage", "delete", "local"} : pc' = [pc EXCEPT ![c] = place]
    BY <1>7 DEF FindBoth, LookMark, Pupil, GoTo, dbVars, args
  <2> QED
    BY <1>2, <1>t, <2>1 DEF See, Places
<1>8. ASSUME NEW c \in Call, Local(c) \/ Wait(c) \/ AskEngage(c) \/ NoDiff(c) PROVE DeleteInv'
  <2>1. /\ UNCHANGED <<marks, target, tab>>
        /\ \E place \in {"engage", "local", "diff", "answer", "wait"} : pc' = [pc EXCEPT ![c] = place]
    BY <1>8 DEF Local, Wait, AskEngage, NoDiff, AfterDiff, GoTo, dbVars, args
  <2> QED
    BY <1>2, <2>1 DEF Places
<1>9. ASSUME NEW c \in Call, Diff(c) PROVE DeleteInv'
  <2>1. /\ UNCHANGED <<marks, target>> /\ \A d \in Call \ {c} : tab'[d] = tab[d]
        /\ \E place \in {"answer", "wait"} : pc' = [pc EXCEPT ![c] = place]
    BY <1>9, <1>t DEF Diff, AfterDiff, GoTo, Write, args
  <2> QED
    BY <1>2, <2>1 DEF Places
<1>10. CASE DeleteStudent
  BY <1>10, <1>t DEF DeleteStudent, DeleteInv, LockInv
<1>11. CASE UNCHANGED vars \/ \E c \in Call : Cancel(c)
  <2>1. UNCHANGED <<target, pc, marks, tab>>
    BY <1>11 DEF Cancel, vars, dbVars, locals, args
  <2> QED
    BY <2>1 DEF DeleteInv
<1> QED
  BY <1>3, <1>4, <1>5, <1>6, <1>7, <1>8, <1>9, <1>10, <1>11 DEF Next, Step, Ends

\* The parts hold at the start and every step keeps them, together.
LEMMA Inductive == Spec => []IInv
<1>1. Init => IInv
  <2> SUFFICES ASSUME Init PROVE IInv
    OBVIOUS
  <2> USE MarksAssumption DEF Init
  <2>1. TypeOK
    <3>1. marks \subseteq Row
      BY DEF Row
    <3>2. Nothing \in [student : BOOLEAN, marks : SUBSET Row] /\ <<>> \in Seq(Periods)
      BY DEF Nothing
    <3> QED
      BY <3>1, <3>2 DEF TypeOK
  <2>2. FiniteInv
    BY FS_EmptySet DEF FiniteInv, Nothing
  <2>3. PlaceInv /\ SeenInv
    BY DEF PlaceInv, SeenInv, DiffInv, Call
  <2>4. LockInv /\ DeleteInv /\ KeptInv
    BY DEF LockInv, DeleteInv, KeptInv, Call
  <2> QED
    BY <2>1, <2>2, <2>3, <2>4 DEF IInv
<1>2. IInv /\ [Next]_vars => IInv'
  BY TypePreserved, PlacePreserved, LockPreserved, SeenPreserved, DeletePreserved, KeptPreserved DEF IInv
<1> QED
  BY <1>1, <1>2, PTL DEF Spec

-----------------------------------------------------------------------------
\* Every variable of the mark service keeps to what the schema and the calls allow, the
\* ids of the marks a call makes included (TypeOK).
THEOREM TypeCorrect == Spec => []TypeOK
BY Inductive, PTL DEF IInv

\* Once a refresh is done with a period its transaction has the marks the period had and
\* exactly one more for each row of engage's sheet whose subject had none, and while it
\* holds the write lock it lacks no mark of the database, whatever the sheets, the
\* periods and the other calls (MarkForEachNewRow, sqlite/mark.go:198-248, 385-404).  A
\* subject the sheet lists twice gets two.
THEOREM OneForEachNewRow == Spec => []MarkForEachNewRow
<1>1. IInv => MarkForEachNewRow
  BY DEF IInv, SeenInv, DiffInv, KeptInv, New, MarkForEachNewRow
<1> QED
  BY <1>1, Inductive, PTL

\* A DeleteMark that says it has deleted the mark has: the look-up is of the version it
\* commits on (DeletedByTheCall).
THEOREM DeletedOnce == Spec => DeletedByTheCall
<1>1. ASSUME IInv, [Next]_vars, NEW d \in Delete, pc[d] # "returned", result'[d] = "nil"
      PROVE  (\E m \in marks : m.id = target[d]) /\ marks' = {m \in marks : m.id # target[d]}
  <2> USE <1>1, MarksAssumption
  <2>t. /\ result \in [Call -> {"none", "nil", "marks", "notFound", "invalid", "error", "panic"}]
        /\ d \in Call /\ d \notin Find /\ d \notin Refresh /\ result[d] = "none"
    BY DEF IInv, TypeOK, PlaceInv, Call
  <2>1. PICK c \in Call : \E r \in {"nil", "marks", "notFound", "invalid", "error", "panic"} : Return(c, r) /\ (Ends(c) \/ Commit(c))
    <3>1. ASSUME NEW c \in Call, Ends(c) \/ Commit(c)
          PROVE  \E r \in {"nil", "marks", "notFound", "invalid", "error", "panic"} : Return(c, r)
      BY <3>1, EndsGiveBack DEF GiveBack, Commit
    <3>2. ASSUME NEW c \in Call, Step(c), ~Ends(c), ~Commit(c) PROVE result' = result
      BY <3>2 DEF Step, Ends, Begin, FindBoth, LookMark, DeleteRow, Pupil, Local, Wait, AskEngage,
                  Diff, NoDiff, AfterDiff, GoTo
    <3>3. result' # result
      BY <2>t
    <3> QED
      BY <3>1, <3>2, <3>3 DEF Next, DeleteStudent, Cancel, vars
  <2>2. c = d
    BY <2>1, <2>t DEF Return
  <2>3. Commit(d)
    <3>1. ASSUME Ends(d) PROVE result'[d] # "nil"
      <4>1. ASSUME NEW r, GiveBack(d, r) PROVE result'[d] = r
        BY <2>t, <4>1 DEF GiveBack, Return
      <4>2. pc[d] \in {"idle", "lookup", "delete", "commit"}
        BY DEF IInv, PlaceInv
      <4> QED
        BY <3>1, <4>1, <4>2 DEF Ends, Fails, PeriodInvalid, YearOnly, FindLocal, FindAnswers,
             NoMark, PupilEnds, WaitEnds, AskEngageFails, DiffFails
    <3> QED
      BY <2>1, <2>2, <3>1
  <2> QED
    BY <2>3 DEF Commit, IInv, DeleteInv
<1>2. IInv /\ [Next]_vars =>
        [\A c \in Delete : pc[c] # "returned" /\ result'[c] = "nil" =>
           /\ \E m \in marks : m.id = target[c]
           /\ marks' = {m \in marks : m.id # target[c]}]_vars
  BY <1>1
<1> QED
  BY <1>2, Inductive, PTL DEF Spec, DeletedByTheCall

\* Who is given marks was told of a pupil that was there, whatever becomes of the pupil
\* while engage is asked (MarksOfSomebody).
THEOREM SomebodysMarks == Spec => MarksOfSomebody
<1>1. ASSUME IInv, [Next]_vars, NEW f \in Find, pc[f] # "returned", result'[f] = "marks"
      PROVE  Snapshot(f).student
  <2> USE <1>1, MarksAssumption
  <2>t. /\ result \in [Call -> {"none", "nil", "marks", "notFound", "invalid", "error", "panic"}]
        /\ f \in Call /\ f \notin Delete /\ f \notin Refresh /\ result[f] = "none"
    BY DEF IInv, TypeOK, PlaceInv, Call
  <2>1. PICK c \in Call : Ends(c) \/ Commit(c)
    <3>1. ASSUME NEW c \in Call, Step(c), ~Ends(c), ~Commit(c) PROVE result' = result
      BY <3>1 DEF Step, Ends, Begin, FindBoth, LookMark, DeleteRow, Pupil, Local, Wait, AskEngage,
                  Diff, NoDiff, AfterDiff, GoTo
    <3>2. result' # result
      BY <2>t
    <3> QED
      BY <3>1, <3>2 DEF Next, DeleteStudent, Cancel, vars
  <2>2. \E r : Return(c, r)
    BY <2>1, EndsGiveBack DEF GiveBack, Commit
  <2>3. c = f
    BY <2>2, <2>t DEF Return
  <2>4. pc[f] \in {"idle", "period", "engage", "diff", "answer"}
    BY DEF IInv, PlaceInv
  <2>5. ASSUME NEW r, GiveBack(f, r) PROVE result'[f] = r
    BY <2>t, <2>5 DEF GiveBack, Return
  <2>6. FindAnswers(f) \/ (FindLocal(f) /\ HasPupil(f))
    BY <2>1, <2>3, <2>4, <2>5 DEF Ends, Commit, Fails, PeriodInvalid, YearOnly, FindLocal,
         NoMark, PupilEnds, WaitEnds, AskEngageFails, DiffFails
  <2> QED
    BY <2>6 DEF FindAnswers, HasPupil, FindsPupil, IInv, SeenInv, Snapshot
<1>2. IInv /\ [Next]_vars =>
        [\A c \in Find : pc[c] # "returned" /\ result'[c] = "marks" => Snapshot(c).student]_vars
  BY <1>1
<1> QED
  BY <1>2, Inductive, PTL DEF Spec, MarksOfSomebody
=============================================================================
