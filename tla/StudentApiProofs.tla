-------------------------- MODULE StudentApiProofs --------------------------
(***************************************************************************)
(* Machine-checked theorems about StudentApi, for any requests and any     *)
(* refreshes: what the answers of the handlers mean.  The calls behind the *)
(* requests are those of Students, so their inductive invariant is had     *)
(* from StudentsProofs.                                                    *)
(***************************************************************************)
EXTENDS StudentApi, StudentsProofs

\* Who got a transaction is past its beginning, and every call that runs got one.
BegunInv ==
  \A c \in Request : /\ pc[c] = "idle" => c \notin begun
                     /\ pc[c] \notin {"idle", "returned"} => c \in begun

\* A DeleteStudent that got a transaction and returned nil has taken the row away.
RemovedInv ==
  \A c \in Delete \cap begun : pc[c] = "returned" /\ result[c] = "nil" => c \in removed

\* Who goes on to engage, and who returns that the student was not found, had found none.
MissedInv ==
  "findStudents" \in Written =>
    \A c \in Request : \/ pc[c] = "engage" /\ c \in Find
                       \/ pc[c] = "returned" /\ result[c] = "notFound"
                       => c \in missed

\* The success and the not found of an answer are those of the result.
AnswerInv ==
  \A c \in Request :
    /\ status[c] = 204 => pc[c] = "returned" /\ result[c] = "nil"
    /\ status[c] = 404 => pc[c] = "returned" /\ result[c] = "notFound"

ApiInv == ApiTypeOK /\ BegunInv /\ RemovedInv /\ MissedInv /\ AnswerInv

-----------------------------------------------------------------------------
\* Only not_found is a 404, and no error is a success.
LEMMA ErrorStatuses ==
  \A code \in E!Code : /\ E!FromErrorCodeToStatus(code) \notin {0, 200, 204}
                       /\ E!FromErrorCodeToStatus(code) = 404 => code = "not_found"
BY DEF E!Code, E!codes, E!FromErrorCodeToStatus

\* What the API does to the students is what the calls of the student service do.
LEMMA ServiceInvariant == ApiSpec => []IInv
<1>1. ApiInit => Init
  BY DEF ApiInit
<1>2. [ApiNext]_apiVars => [Next]_vars
  BY DEF ApiNext, apiVars, Refuse, Respond, Serve, Next, Request, Call
<1> QED
  BY <1>1, <1>2, Inductive, PTL DEF ApiSpec, Spec

\* A step of a call is its own, from a place before its return; only the last gives a result.
LEMMA StepOfOne ==
  ASSUME TypeOK, NEW c \in Call, Step(c)
  PROVE  /\ pc[c] # "returned" /\ pc'[c] # "idle" /\ ctxDone' = ctxDone
         /\ \A d \in Call \ {c} : pc'[d] = pc[d] /\ result'[d] = result[d] /\ at'[d] = at[d]
         /\ pc'[c] # "returned" => result' = result
<1>t. /\ pc \in [Call -> Places] /\ at \in [Call -> Pid]
      /\ result \in [Call -> {"none", "nil", "student", "notFound", "error", "panic"}]
  BY DEF TypeOK, Places
<1>1. CASE Ends(c) \/ Commit(c)
  <2>1. PICK r : Return(c, r)
    BY <1>1, EndsGiveBack DEF GiveBack, Commit
  <2>2. pc[c] # "returned"
    BY <1>1 DEF Ends, BeginFails, LookupEnds, AskEngageEnds, AskEngagePanics, StepFails, CreateFails,
                UpdateFails, UpdatePanics, DeleteFails, CommitFails, WaitEnds, Commit
  <2> QED
    BY <1>t, <2>1, <2>2 DEF Return
<1>2. CASE Begin(c) \/ Lookup(c) \/ AskEngage(c) \/ WaitNext(c)
  BY <1>t, <1>2 DEF Begin, Lookup, AskEngage, WaitNext, GoTo, workVars
<1>4. CASE Local(c)
  <2>1. Choice(c, had'[c], ans[c]) \in {"wait", "create", "update", "delete"}
    BY DEF Choice, TypeOK, Answer, Nobody
  <2> QED
    BY <1>t, <1>4, <2>1 DEF Local, GoTo
<1>3. CASE Create(c) \/ Update(c) \/ DeleteRow(c)
  BY <1>t, <1>3 DEF Create, Update, DeleteRow, Write, GoTo
<1> QED
  BY <1>1, <1>2, <1>3, <1>4 DEF Step, Ends

\* The parts hold at the start and every step keeps them, over the invariant of the service.
LEMMA ApiInductive == ApiSpec => []ApiInv
<1>1. ApiInit => ApiInv
  BY DEF ApiInit, Init, ApiInv, ApiTypeOK, BegunInv, RemovedInv, MissedInv, AnswerInv, Request, Call
<1>2. IInv /\ ApiInv /\ [ApiNext]_apiVars => ApiInv'
  <2> SUFFICES ASSUME IInv, ApiInv, [ApiNext]_apiVars PROVE ApiInv'
    OBVIOUS
  <2> USE StudentsAssumption, StudentApiAssumption
  <2>t. /\ TypeOK /\ PlaceInv /\ LockInv /\ ChangeInv
        /\ pc \in [Call -> Places] /\ at \in [Call -> Pid] /\ ctxDone \subseteq Call
        /\ result \in [Call -> {"none", "nil", "student", "notFound", "error", "panic"}]
        /\ Find \subseteq Call /\ Delete \subseteq Call /\ Find \cap Delete = {} /\ Request \subseteq Call
        /\ Find \cap Refresh = {} /\ Delete \cap Refresh = {}
        /\ status \in [Request -> {0, 200, 204} \cup {E!FromErrorCodeToStatus(c) : c \in E!Code}]
    BY DEF IInv, TypeOK, Places, Request, Call, ApiInv, ApiTypeOK
  \* What is remembered is not forgotten.
  <2>m. ASSUME Remember
        PROVE  /\ begun' = begun \cup {c \in Request : pc'[c] \notin {"idle", "returned"}} /\ begun \subseteq Request
               /\ removed \subseteq removed' /\ removed' \subseteq Delete
               /\ missed \subseteq missed' /\ missed' \subseteq Request
    BY <2>m DEF Remember, ApiInv, ApiTypeOK
  \* An answer.
  <2>1. ASSUME NEW c \in Request, NEW code, status[c] = 0, Remember, UNCHANGED vars,
               status' = [status EXCEPT ![c] = code], pc[c] \in {"idle", "returned"},
               code \in {200, 204} \cup {E!FromErrorCodeToStatus(e) : e \in E!Code},
               code = 204 => pc[c] = "returned" /\ result[c] = "nil",
               code = 404 => pc[c] = "returned" /\ result[c] = "notFound"
        PROVE  ApiInv'
    <3>1. UNCHANGED <<pc, result, ctxDone>>
      BY <2>1 DEF vars
    <3>2. ApiTypeOK'
      BY <2>1, <2>m, <2>t, <3>1 DEF ApiInv, ApiTypeOK
    <3>3. BegunInv' /\ RemovedInv' /\ MissedInv'
      BY <2>1, <2>m, <3>1 DEF ApiInv, BegunInv, RemovedInv, MissedInv
    <3>4. AnswerInv'
      BY <2>1, <2>t, <3>1 DEF ApiInv, AnswerInv
    <3> QED
      BY <3>2, <3>3, <3>4 DEF ApiInv
  <2>2. ASSUME NEW c \in Request, Refuse(c), Remember PROVE ApiInv'
    <3>1. "invalid" \in E!Code
      BY DEF E!Code, E!codes
    <3>2. E!FromErrorCodeToStatus("invalid") \notin {204, 404}
      BY <3>1, ErrorStatuses
    <3> QED
      BY <2>1, <2>2, <3>1, <3>2, ZenonT(60) DEF Refuse
  <2>3. ASSUME NEW c \in Request, Respond(c), Remember PROVE ApiInv'
    <3>1. PICK code \in Answers(c) : status' = [status EXCEPT ![c] = code]
      BY <2>3 DEF Respond
    <3> DEFINE Statuses == {200, 204} \cup {E!FromErrorCodeToStatus(e) : e \in E!Code}
    <3>2. ASSUME result[c] = "student" \/ result[c] = "nil"
          PROVE  code \in Statuses /\ (code = 204 => result[c] = "nil") /\ (code = 404 => result[c] = "notFound")
      <4>1. code \in {200, 204} /\ (code = 204 => result[c] = "nil")
        BY <3>1, <3>2 DEF Answers
      <4>2. code \in Statuses /\ (code = 204 => result[c] = "nil") /\ (code = 404 => result[c] = "notFound")
        BY <4>1
      <4> QED
        BY <4>2
    <3>3. ASSUME result[c] # "student", result[c] # "nil"
          PROVE  code \in Statuses /\ (code = 204 => result[c] = "nil") /\ (code = 404 => result[c] = "notFound")
      <4>1. PICK e \in ErrorCodes(c, result[c]) : code = E!FromErrorCodeToStatus(e)
        BY <3>1, <3>3 DEF Answers
      <4>2. "not_found" \in E!Code /\ "internal" \in E!Code
        BY DEF E!Code, E!codes
      <4>3. e \in E!Code /\ (e = "not_found" => result[c] = "notFound")
        BY <4>1, <4>2 DEF ErrorCodes
      <4>4. code \in Statuses /\ code \notin {0, 200, 204} /\ (code = 404 => result[c] = "notFound")
        BY <4>1, <4>3, ErrorStatuses
      <4> QED
        BY <4>4
    <3>4. status[c] = 0 /\ pc[c] = "returned" /\ UNCHANGED vars
      BY <2>3 DEF Respond
    <3> QED
      BY <2>1, <2>3, <3>1, <3>2, <3>3, <3>4
  \* A step of a call.
  <2>4. ASSUME NEW c \in Call, Serve(c), Remember PROVE ApiInv'
    <3>1. /\ Step(c) /\ UNCHANGED status /\ (c \in Request => status[c] = 0)
          /\ pc[c] # "returned" /\ pc'[c] # "idle" /\ ctxDone' = ctxDone
          /\ \A d \in Call \ {c} : pc'[d] = pc[d] /\ result'[d] = result[d] /\ at'[d] = at[d]
          /\ pc'[c] # "returned" => result' = result
      BY <2>4, <2>t, StepOfOne DEF Serve
    <3>2. ApiTypeOK'
      BY <2>4, <2>m, <2>t, <3>1 DEF ApiInv, ApiTypeOK
    <3>r. c \in Delete \cap begun /\ pc'[c] = "returned" /\ result'[c] = "nil" => c \in removed'
      <4> SUFFICES ASSUME c \in Delete \cap begun, pc'[c] = "returned", result'[c] = "nil"
                   PROVE  c \in removed'
        OBVIOUS
      <4>1. pc[c] \in {"lookup", "delete", "commit"} /\ c \notin Find
        BY <2>t, <3>1 DEF PlaceInv, ApiInv, BegunInv, Request
      <4>2. \A r : GiveBack(c, r) => r = "nil"
        BY <2>t DEF GiveBack, Return
      <4>3. Commit(c)
        <5>1. ~Lookup(c) /\ ~DeleteRow(c)
          BY <2>t, <4>1 DEF Lookup, DeleteRow, GoTo
        <5> QED
          BY <3>1, <4>1, <4>2, <5>1 DEF Step, Begin, BeginFails, LookupEnds, Local, AskEngage, AskEngageEnds, AskEngagePanics, StepFails,
             Create, CreateFails, Update, UpdateFails, UpdatePanics, DeleteFails, CommitFails,
             WaitNext, WaitEnds
      <4>4. pc[c] = "commit" /\ row' = tab[c].row /\ Removes(c)
        BY <2>t, <4>3 DEF Commit, ChangeInv
      <4>5. row \in [Pid -> {"none", "attends", "left"}] /\ row[at[c]] # "none" /\ row'[at[c]] = "none"
        BY <2>t, <4>4 DEF Removes, TypeOK
      <4> QED
        BY <2>4, <4>4, <4>5 DEF Remember
    <3>3. BegunInv' /\ RemovedInv'
      <4>1. BegunInv'
        BY <2>4, <2>m, <2>t, <3>1 DEF ApiInv, BegunInv
      <4>2. RemovedInv'
        BY <2>4, <2>m, <2>t, <3>1, <3>r DEF ApiInv, RemovedInv
      <4> QED
        BY <4>1, <4>2
    \* A call that finds no row does so in the version that is the newest.
    <3>m. ASSUME "findStudents" \in Written, c \in Request,
                 \/ pc'[c] = "engage" /\ c \in Find
                 \/ pc'[c] = "returned" /\ result'[c] = "notFound"
          PROVE  c \in missed'
      <4>1. CASE pc[c] = "lookup"
        <5>1. base[c] = 0
          BY <2>t, <4>1 DEF LockInv
        <5>2. Found(c) = row[at[c]]
          BY <3>m, <5>1 DEF Found, Snapshot
        <5>3. Found(c) = "none"
          <6>1. \A r : GiveBack(c, r) => r = result'[c] /\ pc'[c] = "returned"
            BY <2>t DEF GiveBack, Return
          <6>2. Lookup(c) \/ LookupEnds(c)
            BY <3>1, <3>m, <4>1, <6>1 DEF Step, Begin, BeginFails, Local, AskEngage, AskEngageEnds, AskEngagePanics, StepFails,
               Create, CreateFails, Update, UpdateFails, UpdatePanics, DeleteRow, DeleteFails, Commit,
               CommitFails, WaitNext, WaitEnds
          <6> QED
            BY <2>t, <3>m, <6>1, <6>2 DEF Lookup, LookupEnds, GoTo, Request
        <5> QED
          BY <2>4, <3>m, <4>1, <5>2, <5>3 DEF Remember
      <4>2. CASE pc[c] # "lookup"
        <5>0. \A r : GiveBack(c, r) \/ Return(c, r) => r = result'[c] /\ pc'[c] = "returned"
          BY <2>t DEF GiveBack, Return
        <5>1. c \in Find /\ pc[c] = "engage"
          <6>1. pc[c] # "idle" /\ c \notin Refresh
            <7>1. ~Begin(c) /\ ~BeginFails(c)
              BY <2>t, <3>m, <5>0 DEF Begin, BeginFails, Request
            <7> QED
              BY <2>t, <3>1, <3>m, <7>1 DEF Step, Lookup, LookupEnds, Local, AskEngage, AskEngageEnds, AskEngagePanics, StepFails,
                 Create, CreateFails, Update, UpdateFails, UpdatePanics, DeleteRow, DeleteFails, Commit,
                 CommitFails, WaitNext, WaitEnds, Request
          <6>2. AskEngageEnds(c)
            BY <2>t, <3>1, <3>m, <4>2, <5>0, <6>1 DEF Step, Begin, BeginFails, Lookup, LookupEnds, Local,
               AskEngage, AskEngagePanics, StepFails, Create, CreateFails, Update, UpdateFails, UpdatePanics, DeleteRow,
               DeleteFails, Commit, CommitFails, WaitNext, WaitEnds, GoTo, Write, Request, PlaceInv
          <6> QED
            BY <6>2 DEF AskEngageEnds
        <5> QED
          BY <2>m, <2>4, <3>m, <5>1 DEF ApiInv, MissedInv
      <4> QED
        BY <4>1, <4>2
    <3>4. MissedInv'
      BY <2>4, <2>m, <2>t, <3>1, <3>m DEF ApiInv, MissedInv
    <3>5. AnswerInv'
      BY <2>t, <3>1 DEF ApiInv, AnswerInv
    <3> QED
      BY <3>2, <3>3, <3>4, <3>5 DEF ApiInv
  <2>5. ASSUME NEW c \in Call, Cancel(c), UNCHANGED status, Remember PROVE ApiInv'
    BY <2>5, <2>m, <2>t DEF Cancel, ApiInv, ApiTypeOK, BegunInv, RemovedInv, MissedInv, AnswerInv
  <2>6. CASE UNCHANGED apiVars
    BY <2>6 DEF apiVars, vars, ApiInv, ApiTypeOK, BegunInv, RemovedInv, MissedInv, AnswerInv
  <2> QED
    BY <2>2, <2>3, <2>4, <2>5, <2>6 DEF ApiNext
<1> QED
  BY <1>1, <1>2, ServiceInvariant, PTL DEF ApiSpec

-----------------------------------------------------------------------------
\* Every answer is a status of the API, none is given before the call has returned
\* (ApiTypeOK).
THEOREM ApiTypeCorrect == ApiSpec => []ApiTypeOK
BY ApiInductive, PTL DEF ApiInv

\* A DELETE that got its transaction and is answered 204 has deleted the row by its own
\* request, whatever else deletes or saves the student (BegunDeleteDeletes).  Of one that
\* got none this is false (NoContentMeansDeleted).
THEOREM DeletedOnceBegun == ApiSpec => []BegunDeleteDeletes
<1>1. ApiInv => BegunDeleteDeletes
  BY DEF ApiInv, AnswerInv, RemovedInv, BegunDeleteDeletes, Request
<1> QED
  BY <1>1, ApiInductive, PTL

\* Once findStudents reads the rows, who is told 404 had no row at some moment of the
\* request (NotFoundMeansMissing).
THEOREM MissingWhenTold ==
  ASSUME "findStudents" \in Written
  PROVE  ApiSpec => []NotFoundMeansMissing
<1>1. ApiInv => NotFoundMeansMissing
  BY DEF ApiInv, AnswerInv, MissedInv, NotFoundMeansMissing
<1> QED
  BY <1>1, ApiInductive, PTL
=============================================================================
