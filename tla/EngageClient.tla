---------------------------- MODULE EngageClient ----------------------------
(***************************************************************************)
(* The requests of engage/client.go and the two exchanges built from them: *)
(* findStudentByPIDEngage (sqlite/student.go) asks for the academic years  *)
(* and then for a marksheet, findMarksByFullPeriodEngage (sqlite/mark.go)  *)
(* for a marksheet that it reads mark by mark.                             *)
(*                                                                         *)
(* engage and net/http are external: a request may fail, be refused with a *)
(* status, or be answered; the body of an answer may be null, its length   *)
(* may be unknown, and one Read may return a part of it, an error too.     *)
(***************************************************************************)
EXTENDS Render, Errors

CONSTANTS
  CurrentAcademicYear,
  YearLists,   \* the academic years engage may list for a pupil
  Sheets,      \* the marksheets engage may render
  Statuses     \* the statuses other than 200 engage may answer with

ASSUME EngageAssumption ==
  /\ CurrentAcademicYear \in Nat \ {0}
  /\ YearLists \subseteq Seq(Nat \ {0})
  /\ Sheets \subseteq Seq(STRING) \ {<<>>}
  /\ Statuses \subseteq Nat

VARIABLES
  want,      \* "student" or "marks"
  pc,        \* where the exchange stands
  years,     \* what GetAcademicYears returned
  buf,       \* the render, as far as it is still to be read
  name, year, marks,    \* what has been read out of it
  result,    \* "student", "marks", the code of an error, or "panic"
  sent, asked, sheet, whole   \* history: the years engage listed, the years the marksheet
                              \* was asked for, what engage rendered, and if it was all read

read    == <<name, year, marks>>
history == <<sent, asked, sheet, whole>>
vars    == <<want, pc, years, buf, read, result, history>>

-----------------------------------------------------------------------------
(* client.go *)

\* Mutant of Listed: the zero values come last.
ListedFirst(zero, data) == data \o [i \in DOMAIN data |-> zero]

\* make with a length, then append: as many zero values as there is data come first.
Listed(zero, data) == [i \in DOMAIN data |-> zero] \o data

\* concatAcademicYears, concatSubjects: of two and more the first is written twice.
Concat(list) == IF Len(list) <= 1 THEN list ELSE <<Head(list)>> \o list

\* A request that fails, a status that is not 200 (decodeError), a body that is not
\* what was asked for.
Refusals == {FromStatusToErrorCode(s) : s \in Statuses} \cup {"internal"}

End(r) == pc' = "done" /\ result' = r
GoTo(place) == pc' = place /\ UNCHANGED result

-----------------------------------------------------------------------------
(* GetAcademicYears *)

AskYears ==
  /\ pc = "years"
  /\ \E l \in YearLists \ {<<>>} :
       /\ sent' = l
       /\ years' = Listed(0, l)
  /\ GoTo("render")
  /\ UNCHANGED <<want, buf, read, asked, sheet, whole>>

\* post: an answer without data is an invalid pupil id.
YearsRefused ==
  /\ pc = "years"
  /\ \E r \in Refusals \cup (IF <<>> \in YearLists THEN {"not_found"} ELSE {}) : End(r)
  /\ UNCHANGED <<want, years, buf, read, history>>

\* A body that is null decodes into a nil response.
YearsNull ==
  /\ pc = "years"
  /\ End("panic")
  /\ UNCHANGED <<want, years, buf, read, history>>

-----------------------------------------------------------------------------
(* GetMarksheetRender *)

\* The slice of the last academic year; a period has one.
Asked == IF want = "student" THEN <<Last(years)>> ELSE <<CurrentAcademicYear>>

\* One Read fills the first n bytes of the buffer; what it does not reach stays zero.
Received(s, n) == [i \in DOMAIN s |-> IF i <= n THEN s[i] ELSE "NUL"]

\* findMarksByFullPeriodEngage overwrites the error.
ReadErrorEnds == want = "student"

AskRender ==
  /\ pc = "render"
  /\ asked' = Concat(Asked)
  /\ \E s \in Sheets :
       /\ sheet' = s
       /\ \E n \in 0 .. Len(s), failed \in BOOLEAN :
            /\ whole' = (n = Len(s))
            /\ buf' = Received(s, n)
            /\ IF failed /\ ReadErrorEnds THEN End("internal")
               ELSE GoTo(IF want = "student" THEN "name" ELSE "first")
  /\ UNCHANGED <<want, years, read, sent>>

\* Refused, or the 9200 bytes of a pupil that is not there.
RenderRefused ==
  /\ pc = "render"
  /\ asked' = Concat(Asked)
  /\ \E r \in Refusals \cup {"not_found"} :
       IF ReadErrorEnds THEN End(r) ELSE GoTo("first")
  /\ UNCHANGED <<want, years, buf, read, sent, sheet, whole>>

\* A chunked or compressed body has length -1, which is no length for make.
RenderWithoutLength ==
  /\ pc = "render"
  /\ asked' = Concat(Asked)
  /\ End("panic")
  /\ UNCHANGED <<want, years, buf, read, sent, sheet, whole>>

-----------------------------------------------------------------------------
(* Reading the render *)

Attends == \E i \in DOMAIN years : years[i] = CurrentAcademicYear

\* Who does not attend has no current year.
ReadName ==
  /\ pc = "name"
  /\ \E r \in {NameFromRender(buf)} :
       /\ name' = IF r.is = "text" THEN r.text ELSE name
       /\ buf' = IF r.is = "text" THEN From(buf, r.at) ELSE buf
       /\ IF r.is # "text" THEN End("not_found")
          ELSE IF Attends THEN GoTo("year") ELSE End("student")
  /\ UNCHANGED <<want, years, year, marks, history>>

\* Mutant of ErrorCode: an error that is not one of csb's has no code.
ErrorCodeRaw(r) == r.is

\* An error that is not one of csb's is internal.
ErrorCode(r) == IF r.is = "error" THEN "internal" ELSE r.is

ReadYear ==
  /\ pc = "year"
  /\ \E r \in {CurrentYearFromRender(buf)} :
       /\ year' = IF r.is = "text" THEN r.text ELSE year
       /\ End(IF r.is = "text" THEN "student" ELSE ErrorCode(r))
  /\ UNCHANGED <<want, years, buf, name, marks, history>>

\* The first mark has to be there; after it ENOTFOUND is the end of the sheet.
ReadMark ==
  /\ pc \in {"first", "more"}
  /\ \E r \in {GetMarkFromRender(buf)} :
       IF r.is = "mark"
       THEN /\ marks' = Append(marks, r.mark)
            /\ buf' = From(buf, r.at)
            /\ GoTo("more")
       ELSE /\ UNCHANGED <<marks, buf>>
            /\ End(IF pc = "more" /\ r.is = "not_found" THEN "marks" ELSE ErrorCode(r))
  /\ UNCHANGED <<want, years, name, year, history>>

-----------------------------------------------------------------------------
Init ==
  /\ want \in {"student", "marks"}
  /\ pc = IF want = "student" THEN "years" ELSE "render"
  /\ years = <<>> /\ buf = <<>>
  /\ name = <<>> /\ year = 0 /\ marks = <<>>
  /\ result = "none"
  /\ sent = <<>> /\ asked = <<>> /\ sheet = <<>> /\ whole = FALSE

Next ==
  \/ AskYears \/ YearsRefused \/ YearsNull
  \/ AskRender \/ RenderRefused \/ RenderWithoutLength
  \/ ReadName \/ ReadYear \/ ReadMark

Spec == Init /\ [][Next]_vars

-----------------------------------------------------------------------------
\* What a buffer holds: what engage sent, and zeros.
Byte == STRING \cup {"NUL"}

\* Every variable ranges over what its Go type and the program counter allow.
TypeOK ==
  /\ want \in {"student", "marks"}
  /\ pc \in {"years", "render", "name", "year", "first", "more", "done"}
  /\ years \in Seq(Nat) /\ sent \in Seq(Nat) /\ asked \in Seq(Nat)
  /\ buf \in Seq(Byte) /\ sheet \in Seq(Byte) /\ name \in Seq(Byte)
  /\ year \in Nat /\ whole \in BOOLEAN
  /\ marks \in Seq([percentage : Nat, subject : Seq(Byte), teacher : Seq(Byte)])
  /\ result \in {"none", "student", "marks", "panic"} \cup Code

\* The zero values GetAcademicYears puts before the years (engage/client.go:38) change
\* neither who attends nor the year whose marksheet is asked for, the latest one
\* engage listed (sqlite/student.go:209-216).
YearsAsListed ==
  sent # <<>> =>
    /\ Attends <=> CurrentAcademicYear \in Range(sent)
    /\ asked \in {<<>>, <<Last(sent)>>}

\* What stands between the first "<a>" of a sheet and the next "</a>", and the number
\* behind its last "Year".
NameOn(s) ==
  LET i == Min(Places(s, Open)) IN Slice(s, i + 3, Min({j \in Places(s, Close) : j > i}))
YearOn(s) ==
  LET i == Max(Years(s)) + 5 IN Number(Slice(s, i, DigitsEnd(s, i)))

Letters == {"<", "/", "a", ">"}

\* A student that is found has the name on the sheet, but for letters of the tag at
\* its ends, and the year on the sheet if it was all read (engage/engage.go:112-144,
\* sqlite/student.go:221-237).
StudentAsOnSheet ==
  result = "student" =>
    LET t == NameOn(sheet) IN
      /\ \E i, j \in 0 .. Len(t) : name = Slice(t, i, j)
      /\ t # <<>> /\ Head(t) \notin Letters /\ Last(t) \notin Letters => name = t
      /\ whole /\ Attends => year = YearOn(sheet)

\* The index arithmetic of the parsers does not panic, whatever engage rendered: only a
\* null body and a render without a length do (engage/engage.go:148-212).
ParsersReturn == result = "panic" => sheet = <<>>

-----------------------------------------------------------------------------
\* A percentage, and behind it a subject between two commas and a teacher before a "<".
HasMark(s) ==
  \E i \in Percentages(s), j, k, l \in 0 .. Len(s) - 1 :
    /\ i < j /\ j + 2 < k /\ k + 2 < l
    /\ s[j + 1] = "," /\ s[k + 1] = "," /\ s[l + 1] = "<"

\* "GetMarkFromRender returns the first mark populated with the subject name, teacher
\* name and percentage" (engage/engage.go:146-147).
MarksRead ==
  want = "marks" /\ pc = "done" /\ whole /\ HasMark(sheet) => marks # <<>>

\* "returns any error in the exchange" (mark.go:87): a request that was refused is not
\* a sheet without marks.
RefusalReported ==
  [][ want = "marks" /\ pc = "first" /\ sheet = <<>> => result' # "not_found" ]_vars
=============================================================================
