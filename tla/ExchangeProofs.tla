--------------------------- MODULE ExchangeProofs ---------------------------
(***************************************************************************)
(* Proofs about Exchange, for any statuses that an answer may have.        *)
(*                                                                         *)
(* The request, the head and the body stay as they are once the service    *)
(* has answered, so the invariant says how the result follows from them    *)
(* (Followed) and what an honest answer looks like (Answered).  The        *)
(* properties are then facts about one state.                              *)
(***************************************************************************)
EXTENDS Exchange, TLAPS

Deferred == {"need_error_body", "need_result_body"}

\* An honest answer calls its cause by its name, under a status of its own or,
\* of an operation that answers early, under 200.
Calls(what) ==
  /\ body = Doc("error", body.code)
  /\ head = Head(head.status, head.code, "result")
  /\ head.code \in {"absent", body.code}
  /\ service # "azure" => head.code = "absent"
  /\ \/ <<head.status, body.code>> \in CalledBy(what)
     \/ /\ AnswersEarly /\ head.status = 200
        /\ \E status \in 100..599 : <<status, body.code>> \in CalledBy(what)

Answered ==
  /\ cause = "done" =>
       /\ head.code = "absent" /\ head.states = "result" /\ body = Doc("result", "absent")
       /\ head.status \in Successes
       /\ op = "restore" => head.status = 200
  /\ cause = "started" =>
       /\ head.code = "absent" /\ body = Doc("unread", "absent")
       /\ head.status = 202
       /\ head.states = IF op = "copy" THEN "pending" ELSE "result"
  /\ cause \in Causes \ {"done", "started"} => Calls(cause)
  /\ cause \in Causes => Happens(cause)

Followed ==
  /\ phase = "error_body" => AcceptHead.verdict = "need_error_body"
  /\ phase = "result_body" => AcceptHead.verdict = "need_result_body"
  /\ phase = "ended" =>
       \/ /\ reading = "none"
          /\ AcceptHead.verdict \notin Deferred
          /\ result = AcceptHead
       \/ /\ reading # "none"
          /\ AcceptHead.verdict = "need_error_body"
          /\ \E got \in Bodies : Arrives(got, reading) /\ result = AcceptErrorBody(got)
       \/ /\ reading # "none"
          /\ AcceptHead.verdict = "need_result_body"
          /\ \E got \in Bodies : Arrives(got, reading) /\ result = AcceptResultBody(got)

Inductive == TypeOK /\ Answered /\ Followed

-----------------------------------------------------------------------------
(* What is called how. *)

\* Every cause but a success has a status and a code that the crate reads.
LEMMA CalledByType ==
  ASSUME NEW what \in Causes \ {"done", "started"}, NEW called \in CalledBy(what)
  PROVE  /\ called = <<called[1], called[2]>>
         /\ called[1] \in (300..599) \ {416}
         /\ called[2] \in Codes \ {"absent"}
BY SMT DEF Causes, CalledBy, Codes, Kinds

\* What Serve picks is what Answered says.
LEMMA AnswersShape ==
  ASSUME NEW what \in Causes, NEW answer \in Answers(what)
  PROVE  /\ answer = <<answer[1], answer[2]>>
         /\ what = "done" =>
              /\ \E status \in Successes :
                   /\ answer[1] = Head(status, "absent", "result")
                   /\ op = "restore" => status = 200
              /\ answer[2] = Doc("result", "absent")
         /\ what = "started" =>
              /\ answer[1] = Head(202, "absent", IF op = "copy" THEN "pending" ELSE "result")
              /\ answer[2] = Doc("unread", "absent")
         /\ what \notin {"done", "started"} =>
              \E called \in CalledBy(what) :
                /\ answer[2] = Doc("error", called[2])
                /\ \/ answer[1] \in Named(called[1], called[2])
                   \/ AnswersEarly /\ answer[1] = Head(200, "absent", "result")
<1>1. CASE what = "done"
  BY <1>1, SMT DEF Answers, Successes, AzureSuccesses, S3Successes
<1>2. CASE what = "started"
  BY <1>2, SMT DEF Answers
<1>3. CASE what \notin {"done", "started"}
  <2>1. \/ answer \in UNION {Named(called[1], called[2]) \X {Doc("error", called[2])} :
                              called \in CalledBy(what)}
        \/ AnswersEarly /\ answer \in {<<Head(200, "absent", "result"), Doc("error", called[2])>> :
                                      called \in CalledBy(what)}
    BY <1>3, Zenon DEF Answers
  <2>2. CASE answer \in UNION {Named(called[1], called[2]) \X {Doc("error", called[2])} :
                               called \in CalledBy(what)}
    <3>1. PICK called \in CalledBy(what) :
            answer \in Named(called[1], called[2]) \X {Doc("error", called[2])}
      BY <2>2, Zenon
    <3> QED BY <1>3, <3>1
  <2>3. CASE /\ AnswersEarly
             /\ answer \in {<<Head(200, "absent", "result"), Doc("error", called[2])>> :
                             called \in CalledBy(what)}
    BY <1>3, <2>3
  <2> QED BY <2>1, <2>2, <2>3
<1> QED BY <1>1, <1>2, <1>3

-----------------------------------------------------------------------------
(* What depends on the request and on the answer alone. *)

\* The same request is answered and read in the same way.
LEMMA SameRequest ==
  ASSUME UNCHANGED request
  PROVE  /\ AnswersEarly' = AnswersEarly
         /\ Successes' = Successes
         /\ \A what : Happens(what)' = Happens(what)
         /\ \A what : CalledBy(what)' = CalledBy(what)
<1> USE DEF request
<1>1. AnswersEarly' = AnswersEarly
  BY DEF AnswersEarly
<1>2. Successes' = Successes
  BY DEF Successes, AzureSuccesses, S3Successes
<1>3. ASSUME NEW what PROVE Happens(what)' = Happens(what)
  BY DEF Happens
<1>4. ASSUME NEW what PROVE CalledBy(what)' = CalledBy(what)
  BY DEF CalledBy, FailsAsNotModified
<1> QED BY <1>1, <1>2, <1>3, <1>4

\* Answered stays as it is while the answer does.
LEMMA SameAnswer ==
  ASSUME UNCHANGED <<request, cause, head, body>>, Answered
  PROVE  Answered'
<1>1. UNCHANGED request
  OBVIOUS
<1>2. service' = service /\ op' = op
  BY DEF request
<1>3. cause' = cause /\ head' = head /\ body' = body
  OBVIOUS
<1>4. CalledBy(cause)' = CalledBy(cause) /\ AnswersEarly' = AnswersEarly
  BY <1>1, <1>2, <1>3 DEF CalledBy, FailsAsNotModified, AnswersEarly, request
<1>5. Calls(cause) => Calls(cause)'
  BY <1>2, <1>3, <1>4 DEF Calls, Doc, Head
<1>6. Happens(cause) => Happens(cause)'
  BY <1>1, <1>3, SameRequest
<1>7. Successes' = Successes
  BY <1>1, SameRequest
<1> QED BY <1>2, <1>3, <1>5, <1>6, <1>7 DEF Answered, Doc, Head

\* The same answer is read in the same way.
LEMMA SameReading ==
  ASSUME UNCHANGED <<request, cause, head, body>>
  PROVE  /\ AcceptHead' = AcceptHead
         /\ \A got : AcceptErrorBody(got)' = AcceptErrorBody(got)
         /\ \A got : AcceptResultBody(got)' = AcceptResultBody(got)
         /\ \A got, how : Arrives(got, how)' = Arrives(got, how)
<1> USE DEF request
<1>1. /\ NamesNoObject' = NamesNoObject
      /\ Conditional' = Conditional
      /\ Refusable' = Refusable
      /\ FailsAsNotModified' = FailsAsNotModified
      /\ Known' = Known
      /\ Late' = Late
  BY DEF NamesNoObject, Conditional, Refusable, FailsAsNotModified, Known, Late
<1>2. /\ \A status, kind : FinishWithBody(status, kind)' = FinishWithBody(status, kind)
      /\ \A code : KindFor(code)' = KindFor(code)
      /\ \A status, kind : NamesFailedCondition(status, kind)' = NamesFailedCondition(status, kind)
      /\ AcceptSuccess' = AcceptSuccess
      /\ Unsatisfiable' = Unsatisfiable
  BY <1>1, SMTT(30) DEF FinishWithBody, KindFor, NamesFailedCondition, AcceptSuccess, Unsatisfiable,
     NotFound, ServiceFailure, Class, ClassOfStatus, Verdict, Bare
<1>3. AcceptHead' = AcceptHead
  BY <1>1, <1>2, SMTT(30) DEF AcceptHead, AcceptS3Head, AcceptAzureHead, AzureFailureHead,
     S3Successes, AzureSuccesses, Verdict
<1>4. ASSUME NEW got PROVE AcceptErrorBody(got)' = AcceptErrorBody(got)
  BY <1>1, <1>2, SMTT(30) DEF AcceptErrorBody, Verdict
<1>5. ASSUME NEW got PROVE AcceptResultBody(got)' = AcceptResultBody(got)
  BY <1>1, <1>2, SMTT(30) DEF AcceptResultBody, Verdict, NotFound, LateNotFound
<1>6. ASSUME NEW got, NEW how PROVE Arrives(got, how)' = Arrives(got, how)
  BY DEF Arrives, Cut
<1> QED BY <1>3, <1>4, <1>5, <1>6

-----------------------------------------------------------------------------
(* The invariant is inductive. *)

\* Whatever a head is read as is a verdict, or asks for a body.
LEMMA HeadVerdict ==
  ASSUME head.status \in 100..599, head.states \in {"result", "pending", "less"}
  PROVE  /\ AcceptHead.verdict \in Verdicts \cup Deferred
         /\ AcceptHead.kind \in Known \cup {None}
<1>1. /\ AcceptSuccess.verdict \in Verdicts \cup Deferred
      /\ AcceptSuccess.kind = None
  BY DEF AcceptSuccess, Verdict, Verdicts, Deferred
<1>2. \A status, kind : kind \in Known \cup {None} =>
        /\ FinishWithBody(status, kind).verdict \in Verdicts
        /\ FinishWithBody(status, kind).kind \in Known \cup {None}
  BY DEF FinishWithBody, NotFound, ServiceFailure, Verdicts
<1>3. KindFor(head.code) \in Known \cup {None}
  BY DEF KindFor
<1>4. Unsatisfiable.verdict \in Verdicts /\ Unsatisfiable.kind = None
  BY DEF Unsatisfiable, Verdict, Verdicts
<1>5. CASE service = "azure"
  BY <1>1, <1>2, <1>3, <1>4, <1>5 DEF AcceptHead, AcceptAzureHead, AzureFailureHead, Verdict,
     Verdicts, Deferred
<1>6. CASE service # "azure"
  BY <1>1, <1>2, <1>4, <1>6 DEF AcceptHead, AcceptS3Head, Verdict, Verdicts, Deferred
<1> QED BY <1>5, <1>6

\* A body is read as a verdict: no second one is asked for.
LEMMA BodyVerdict ==
  ASSUME NEW got \in Bodies
  PROVE  /\ AcceptErrorBody(got).verdict \in Verdicts
         /\ AcceptErrorBody(got).kind \in Known \cup {None}
         /\ AcceptResultBody(got).verdict \in Verdicts
         /\ AcceptResultBody(got).kind \in Known \cup {None}
<1>1. \A status, kind : kind \in Known \cup {None} =>
        /\ FinishWithBody(status, kind).verdict \in Verdicts
        /\ FinishWithBody(status, kind).kind \in Known \cup {None}
  BY DEF FinishWithBody, NotFound, ServiceFailure, Verdicts
<1>2. KindFor(got.code) \in Known \cup {None}
  BY DEF KindFor
<1>3. got.doc \in {"error", "result", "unread"}
  BY DEF Bodies
<1> QED BY <1>1, <1>2, <1>3 DEF AcceptErrorBody, AcceptResultBody, Verdict, NotFound, Verdicts

LEMMA Initially == Init => Inductive
<1> SUFFICES ASSUME Init PROVE Inductive
  OBVIOUS
<1>1. TypeOK
  BY DEF Init, TypeOK, Ended, Head, Doc, Bodies, Codes, Verdict
<1>2. Answered
  BY DEF Init, Answered, Causes
<1>3. Followed
  BY DEF Init, Followed
<1> QED BY <1>1, <1>2, <1>3 DEF Inductive

\* The service acts, and its answer calls what happened by its name.
LEMMA ServeKeeps == Inductive /\ Serve => Inductive'
<1> SUFFICES ASSUME Inductive, Serve PROVE Inductive'
  OBVIOUS
<1>1. PICK what \in Causes : cause' = what /\ Happens(what)
  BY DEF Serve
<1>2. PICK answer \in Answers(what) : head' = answer[1] /\ body' = answer[2]
  BY <1>1 DEF Serve
<1>3. service' = service /\ op' = op /\ condition' = condition /\ phase = "sent"
      /\ phase' = "answered" /\ reading' = reading /\ result' = result
  BY DEF Serve, request
<1>4. UNCHANGED request
  BY <1>3 DEF request
<1>5. CASE what = "done"
  <2>1. PICK status \in Successes :
          /\ answer[1] = Head(status, "absent", "result")
          /\ op = "restore" => status = 200
    BY <1>5, AnswersShape
  <2>2. body' = Doc("result", "absent")
    BY <1>2, <1>5, AnswersShape
  <2>3. status \in 200..299
    BY <2>1 DEF Successes, AzureSuccesses, S3Successes
  <2>4. TypeOK'
    BY <1>1, <1>2, <1>3, <1>5, <2>1, <2>2, <2>3
    DEF Inductive, TypeOK, Ended, Head, Doc, Bodies, Codes, Verdict, Causes
  <2>5. Answered'
    BY <1>1, <1>2, <1>3, <1>4, <1>5, <2>1, <2>2, SameRequest DEF Answered, Head, Causes, Happens
  <2> QED BY <1>3, <2>4, <2>5 DEF Inductive, Followed
<1>6. CASE what = "started"
  <2>1. /\ answer[1] = Head(202, "absent", IF op = "copy" THEN "pending" ELSE "result")
        /\ answer[2] = Doc("unread", "absent")
    BY <1>6, AnswersShape
  <2>2. TypeOK'
    BY <1>1, <1>2, <1>3, <1>6, <2>1
    DEF Inductive, TypeOK, Ended, Head, Doc, Bodies, Codes, Verdict, Causes
  <2>3. Answered'
    BY <1>1, <1>2, <1>3, <1>6, <2>1 DEF Answered, Head, Causes, Happens
  <2> QED BY <1>3, <2>2, <2>3 DEF Inductive, Followed
<1>7. CASE what \notin {"done", "started"}
  <2>1. PICK called \in CalledBy(what) :
          /\ answer[2] = Doc("error", called[2])
          /\ \/ answer[1] \in Named(called[1], called[2])
             \/ AnswersEarly /\ answer[1] = Head(200, "absent", "result")
    BY <1>7, AnswersShape
  <2>2. called = <<called[1], called[2]>> /\ called[1] \in (300..599) \ {416}
        /\ called[2] \in Codes \ {"absent"}
    BY <1>7, <2>1, CalledByType
  <2>3. /\ head' = Head(head'.status, head'.code, "result")
        /\ head'.code \in {"absent", called[2]}
        /\ service # "azure" => head'.code = "absent"
        /\ head'.status = called[1] \/ (AnswersEarly /\ head'.status = 200)
    BY <1>2, <2>1, <2>2 DEF Named, Head, Codes, Kinds
  <2>4. TypeOK'
    BY <1>1, <1>2, <1>3, <1>7, <2>1, <2>2, <2>3
    DEF Inductive, TypeOK, Ended, Head, Doc, Bodies, Codes, Verdict, Causes
  <2>5. CalledBy(cause)' = CalledBy(what)
    BY <1>1, <1>3 DEF CalledBy, FailsAsNotModified
  <2>6. AnswersEarly' = AnswersEarly
    BY <1>4, SameRequest
  <2>7. body' = Doc("error", called[2]) /\ body'.code = called[2]
    BY <1>2, <2>1 DEF Doc
  <2>8. <<called[1], called[2]>> \in CalledBy(what)
    BY <2>1, <2>2, Zenon
  <2>9. Calls(cause)'
    <3>1. /\ body' = Doc("error", body'.code)
          /\ head'.code \in {"absent", body'.code}
      BY <2>3, <2>7
    <3>2. <<called[1], body'.code>> \in CalledBy(cause)'
      BY <2>5, <2>7, <2>8, Zenon
    <3>3. CASE head'.status = called[1]
      BY <1>3, <2>3, <3>1, <3>2, <3>3 DEF Calls, Head, Doc
    <3>4. CASE AnswersEarly /\ head'.status = 200
      <4>1. \E status \in 100..599 : <<status, body'.code>> \in CalledBy(cause)'
        <5>1. called[1] \in 100..599
          BY <2>2
        <5> QED BY <3>2, <5>1, Zenon
      <4> QED BY <1>3, <2>3, <2>6, <3>1, <3>4, <4>1 DEF Calls, Head, Doc
    <3> QED BY <2>3, <3>3, <3>4
  <2>10. Happens(cause)'
    BY <1>1, <1>3 DEF Happens
  <2>11. Answered'
    BY <1>1, <1>7, <2>9, <2>10 DEF Answered
  <2> QED BY <1>3, <2>4, <2>11 DEF Inductive, Followed
<1> QED BY <1>5, <1>6, <1>7

\* Any head at all.
LEMMA AnswerKeeps == Inductive /\ Answer => Inductive'
<1> SUFFICES ASSUME Inductive, Answer PROVE Inductive'
  OBVIOUS
<1>1. head' \in Heads(Codes)
  BY DEF Answer, Heads, Codes
<1>2. head'.status \in 100..599 /\ head'.code \in Codes
      /\ head'.states \in {"result", "pending", "less"}
  BY <1>1, ExchangeAssumption DEF Heads
<1>3. TypeOK'
  BY <1>2 DEF Inductive, TypeOK, Answer, request, Ended, Bodies, Codes
<1>4. Answered'
  BY DEF Answer, Answered, Causes
<1>5. Followed'
  BY DEF Answer, Followed
<1> QED BY <1>3, <1>4, <1>5 DEF Inductive

\* The head is read, and decides or asks for a body.
LEMMA ReadHeadKeeps == Inductive /\ ReadHead => Inductive'
<1> SUFFICES ASSUME Inductive, ReadHead PROVE Inductive'
  OBVIOUS
<1>1. UNCHANGED <<request, cause, head, body>> /\ UNCHANGED request /\ reading' = reading
  BY DEF ReadHead
<1>2. service' = service /\ op' = op /\ condition' = condition /\ Known' = Known
      /\ cause' = cause /\ head' = head /\ body' = body
  BY <1>1 DEF request, Known
<1>3. AcceptHead.verdict \in Verdicts \cup Deferred /\ AcceptHead.kind \in Known \cup {None}
  BY HeadVerdict DEF Inductive, TypeOK
<1>4. /\ phase = "answered" /\ reading = "none"
      /\ phase' = CASE AcceptHead.verdict = "need_error_body"  -> "error_body"
                    [] AcceptHead.verdict = "need_result_body" -> "result_body"
                    [] OTHER                                   -> "ended"
      /\ result' = IF phase' = "ended" THEN AcceptHead ELSE result
  BY DEF ReadHead, Told, Inductive, TypeOK, Ended
<1>5. TypeOK'
  <2>1. Ended' => result'.verdict \in Verdicts /\ result'.kind \in Known \cup {None}
    BY <1>3, <1>4 DEF Ended, Deferred
  <2>2. ~Ended' => result' = Verdict("none") /\ reading' = "none"
    BY <1>1, <1>4 DEF Inductive, TypeOK, Ended, Verdict
  <2>3. phase' \in {"error_body", "result_body", "ended"}
    BY <1>4
  <2> QED BY <1>1, <1>2, <1>4, <2>1, <2>2, <2>3
      DEF Inductive, TypeOK, Ended, Verdict, Bodies, Codes
<1>6. Answered'
  BY <1>1, SameAnswer DEF Inductive
<1>7. AcceptHead' = AcceptHead
  BY <1>1, SameReading
<1>8. Followed'
  BY <1>1, <1>4, <1>7 DEF Followed, Deferred
<1> QED BY <1>5, <1>6, <1>8 DEF Inductive

\* The body of an error is read, and decides.
LEMMA ReadErrorBodyKeeps == Inductive /\ ReadErrorBody => Inductive'
<1> SUFFICES ASSUME Inductive, ReadErrorBody PROVE Inductive'
  OBVIOUS
<1>1. UNCHANGED <<request, cause, head, body>> /\ UNCHANGED request
  BY DEF ReadErrorBody
<1>2. service' = service /\ op' = op /\ condition' = condition /\ Known' = Known
      /\ cause' = cause /\ head' = head /\ body' = body
  BY <1>1 DEF request, Known
<1>3. PICK got \in Bodies, how \in {"whole", "cut"} :
        Arrives(got, how) /\ Told(AcceptErrorBody(got)) /\ reading' = how
  BY DEF ReadErrorBody
<1>4. AcceptErrorBody(got).verdict \in Verdicts /\ AcceptErrorBody(got).kind \in Known \cup {None}
  BY BodyVerdict
<1>5. phase = "error_body" /\ phase' = "ended" /\ result' = AcceptErrorBody(got)
  BY <1>3, <1>4 DEF ReadErrorBody, Told, Verdicts
<1>6. TypeOK'
  BY <1>1, <1>2, <1>3, <1>4, <1>5 DEF Inductive, TypeOK, Ended, Bodies, Codes
<1>7. Answered'
  BY <1>1, SameAnswer DEF Inductive
<1>8. /\ AcceptHead' = AcceptHead
      /\ AcceptErrorBody(got)' = AcceptErrorBody(got)
      /\ Arrives(got, how)' = Arrives(got, how)
  BY <1>1, SameReading
<1>9. AcceptHead.verdict = "need_error_body"
  BY <1>5 DEF Inductive, Followed
<1>10. Followed'
  <2>1. Arrives(got, reading)'
    BY <1>3, <1>8
  <2> QED BY <1>3, <1>5, <1>8, <1>9, <2>1 DEF Followed
<1> QED BY <1>6, <1>7, <1>10 DEF Inductive

\* The body of a result is read, and decides.
LEMMA ReadResultBodyKeeps == Inductive /\ ReadResultBody => Inductive'
<1> SUFFICES ASSUME Inductive, ReadResultBody PROVE Inductive'
  OBVIOUS
<1>1. UNCHANGED <<request, cause, head, body>> /\ UNCHANGED request
  BY DEF ReadResultBody
<1>2. service' = service /\ op' = op /\ condition' = condition /\ Known' = Known
      /\ cause' = cause /\ head' = head /\ body' = body
  BY <1>1 DEF request, Known
<1>3. PICK got \in Bodies, how \in {"whole", "cut"} :
        Arrives(got, how) /\ Told(AcceptResultBody(got)) /\ reading' = how
  BY DEF ReadResultBody
<1>4. AcceptResultBody(got).verdict \in Verdicts /\ AcceptResultBody(got).kind \in Known \cup {None}
  BY BodyVerdict
<1>5. phase = "result_body" /\ phase' = "ended" /\ result' = AcceptResultBody(got)
  BY <1>3, <1>4 DEF ReadResultBody, Told, Verdicts
<1>6. TypeOK'
  BY <1>1, <1>2, <1>3, <1>4, <1>5 DEF Inductive, TypeOK, Ended, Bodies, Codes
<1>7. Answered'
  BY <1>1, SameAnswer DEF Inductive
<1>8. /\ AcceptHead' = AcceptHead
      /\ AcceptResultBody(got)' = AcceptResultBody(got)
      /\ Arrives(got, how)' = Arrives(got, how)
  BY <1>1, SameReading
<1>9. AcceptHead.verdict = "need_result_body"
  BY <1>5 DEF Inductive, Followed
<1>10. Followed'
  <2>1. Arrives(got, reading)'
    BY <1>3, <1>8
  <2> QED BY <1>3, <1>5, <1>8, <1>9, <2>1 DEF Followed
<1> QED BY <1>6, <1>7, <1>10 DEF Inductive

LEMMA StutterKeeps == Inductive /\ UNCHANGED vars => Inductive'
<1> SUFFICES ASSUME Inductive, UNCHANGED vars PROVE Inductive'
  OBVIOUS
<1>1. UNCHANGED <<request, cause, head, body>> /\ UNCHANGED request
      /\ phase' = phase /\ reading' = reading /\ result' = result
  BY DEF vars, request
<1>2. service' = service /\ op' = op /\ condition' = condition /\ Known' = Known
      /\ cause' = cause /\ head' = head /\ body' = body
  BY <1>1 DEF request, Known
<1>3. TypeOK'
  BY <1>1, <1>2 DEF Inductive, TypeOK, Ended, Bodies, Codes, Verdict
<1>4. Answered'
  BY <1>1, SameAnswer DEF Inductive
<1>5. Followed'
  BY <1>1, SameReading DEF Inductive, Followed
<1> QED BY <1>3, <1>4, <1>5 DEF Inductive

LEMMA Invariance == Spec => []Inductive
<1>1. Inductive /\ [Next]_vars => Inductive'
  BY ServeKeeps, AnswerKeeps, ReadHeadKeeps, ReadErrorBodyKeeps, ReadResultBodyKeeps, StutterKeeps
  DEF Next, Read
<1> QED BY Initially, <1>1, PTL DEF Spec

\* Every verdict is one of an operation's, and every kind one that the service
\* has (the match of every accept_* function).
THEOREM ExchangeTypeCorrect == Spec => []TypeOK
<1>1. Inductive => TypeOK
  BY DEF Inductive
<1> QED BY Invariance, <1>1, PTL

-----------------------------------------------------------------------------
(* What follows from the invariant in one state. *)

\* What a head asks for a body of.
LEMMA AsksForBody ==
  ASSUME Inductive
  PROVE  /\ AcceptHead.verdict = "need_result_body" => Late /\ head.status = 200
         /\ AcceptHead.verdict = "need_error_body" =>
              /\ op # "head"
              /\ head.status \notin 200..299
              /\ service # "azure" => ~(head.status = 412 /\ Conditional)
              /\ service = "azure" => head.code = "absent"
<1>1. AcceptSuccess.verdict # "need_error_body"
      /\ (AcceptSuccess.verdict = "need_result_body" => Late)
  <2>1. head.states \in {"result", "pending", "less"}
    BY DEF Inductive, TypeOK
  <2> QED BY <2>1 DEF AcceptSuccess, Verdict
<1>2. \A status, kind : FinishWithBody(status, kind).verdict \in {"not_found", "failure"}
  BY DEF FinishWithBody, NotFound, ServiceFailure
<1>3. Unsatisfiable.verdict \in {"fault", "not_satisfiable"}
  BY DEF Unsatisfiable, Verdict
<1>4. S3Successes \subseteq 200..299 /\ AzureSuccesses \subseteq 200..299
  BY DEF S3Successes, AzureSuccesses
<1>5. CASE service = "azure"
  <2>1. ~Late
    BY <1>5 DEF Late
  <2>2. AcceptHead.verdict # "need_result_body"
    BY <1>1, <1>2, <1>3, <1>5, <2>1 DEF AcceptHead, AcceptAzureHead, AzureFailureHead, Verdict
  <2>3. AcceptHead.verdict = "need_error_body" =>
          op # "head" /\ head.status \notin 200..299 /\ head.code = "absent"
    BY <1>1, <1>2, <1>3, <1>4, <1>5 DEF AcceptHead, AcceptAzureHead, AzureFailureHead, Verdict
  <2> QED BY <1>5, <2>2, <2>3
<1>6. CASE service # "azure"
  <2>1. AcceptHead.verdict = "need_result_body" => Late /\ head.status \in S3Successes
    BY <1>1, <1>2, <1>3, <1>6 DEF AcceptHead, AcceptS3Head, Verdict
  <2>2. Late => S3Successes = {200}
    BY <1>6 DEF Late, S3Successes
  <2>3. AcceptHead.verdict = "need_error_body" =>
          /\ op # "head" /\ head.status \notin 200..299
          /\ ~(head.status = 412 /\ Conditional)
    BY <1>1, <1>2, <1>3, <1>4, <1>6 DEF AcceptHead, AcceptS3Head, Verdict
  <2> QED BY <1>6, <2>1, <2>2, <2>3
<1> QED BY <1>5, <1>6

\* What ends an exchange, by where it was read.
LEMMA EndedBy ==
  ASSUME Inductive, Ended
  PROVE  \/ reading = "none" /\ result = AcceptHead /\ AcceptHead.verdict \notin Deferred
         \/ /\ reading \in {"whole", "cut"} /\ AcceptHead.verdict = "need_error_body"
            /\ \E got \in Bodies : Arrives(got, reading) /\ result = AcceptErrorBody(got)
         \/ /\ reading \in {"whole", "cut"} /\ AcceptHead.verdict = "need_result_body"
            /\ \E got \in Bodies : Arrives(got, reading) /\ result = AcceptResultBody(got)
BY DEF Inductive, TypeOK, Followed, Ended

\* No caller is told of a condition that its request did not carry (the match
\* of every accept_* function, and the late bodies of S3).
THEOREM ExchangeUnaskedIsNoOutcome == Spec => []UnaskedIsNoOutcome
<1>1. ASSUME Inductive PROVE UnaskedIsNoOutcome
  <2>1. CASE ~Ended
    BY <1>1, <2>1 DEF Inductive, TypeOK, UnaskedIsNoOutcome, Verdict
  <2>2. CASE Ended
    <3>1. \A status, kind : FinishWithBody(status, kind).verdict \in {"not_found", "failure"}
      BY DEF FinishWithBody, NotFound, ServiceFailure
    <3>2. AcceptSuccess.verdict \notin {"not_modified", "precondition_failed"}
      <4>1. head.states \in {"result", "pending", "less"}
        BY <1>1 DEF Inductive, TypeOK
      <4> QED BY <4>1 DEF AcceptSuccess, Verdict
    <3>3. Unsatisfiable.verdict \notin {"not_modified", "precondition_failed"}
      BY DEF Unsatisfiable, Verdict
    <3>4. Refusable => condition # "none" /\ (op \in Reads => condition = "IfMatch")
      BY <1>1 DEF Refusable, Inductive, TypeOK, Conditions, Reads
    <3>5. \A status, kind : NamesFailedCondition(status, kind) => Refusable
      BY DEF NamesFailedCondition, Refusable, Reads
    <3>6. CASE result = AcceptHead
      BY <3>1, <3>2, <3>3, <3>4, <3>5, <3>6
      DEF UnaskedIsNoOutcome, AcceptHead, AcceptS3Head, AcceptAzureHead, AzureFailureHead,
          FailsAsNotModified, Verdict
    <3>7. ASSUME NEW got \in Bodies, result = AcceptErrorBody(got)
          PROVE  UnaskedIsNoOutcome
      BY <3>1, <3>4, <3>5, <3>7 DEF UnaskedIsNoOutcome, AcceptErrorBody, Verdict
    <3>8. ASSUME NEW got \in Bodies, result = AcceptResultBody(got), Late
          PROVE  UnaskedIsNoOutcome
      <4>1. op \notin Reads
        BY <3>8 DEF Late, Reads
      <4>2. got.doc \in {"result", "unread", "error"}
        BY DEF Bodies
      <4> QED BY <3>1, <3>8, <4>1, <4>2 DEF UnaskedIsNoOutcome, AcceptResultBody, Verdict, NotFound
    <3> QED BY <1>1, <2>2, <3>6, <3>7, <3>8, EndedBy, AsksForBody
  <2> QED BY <2>1, <2>2
<1> QED BY Invariance, <1>1, PTL

-----------------------------------------------------------------------------
(* What is told is true: the refinement of Promise. *)

\* A status or a code that decides a verdict is called for one cause only.
LEMMA OnlyCalledFor ==
  ASSUME NEW what \in Causes \ {"done", "started"}, NEW status, NEW code,
         <<status, code>> \in CalledBy(what)
  PROVE  /\ code \in {"Precondition", "AlreadyExists"} => what = "Precondition"
         /\ code \in {"NotFound", "NoSuchUpload", "NoSuchContainer"} => what = code
         /\ status = 304 => what = "Precondition"
         /\ status = 412 => what = "Precondition" \/ service = "azure"
         /\ status = 404 => what \in {"NotFound", "NoSuchUpload", "NoSuchContainer"}
         /\ what = "NoSuchContainer" => code = "NoSuchContainer"
         /\ status \notin 200..299
BY SMT DEF Causes, CalledBy

\* A verdict of finish_with_body on an error that has a status of its own.
LEMMA TruthfulFinish ==
  ASSUME NEW what \in Causes \ {"done", "started"}, NEW status, NEW code,
         <<status, code>> \in CalledBy(what),
         NEW kind \in {None, KindFor(code)}, NEW known \in BOOLEAN,
         known => kind = KindFor(code)
  PROVE  FinishWithBody(status, kind).verdict \in P!May(what, known)
<1>1. /\ status = 404 => what \in {"NotFound", "NoSuchUpload", "NoSuchContainer"}
      /\ what = "NoSuchContainer" => code = "NoSuchContainer"
  BY OnlyCalledFor
<1>2. "NoSuchContainer" \in Known
  BY DEF Known, Kinds
<1>3. known /\ what = "NoSuchContainer" => kind = "NoSuchContainer"
  BY <1>1, <1>2 DEF KindFor
<1>4. FinishWithBody(status, kind).verdict \in {"not_found", "failure"}
      /\ (FinishWithBody(status, kind).verdict = "not_found" =>
            status = 404 /\ kind # "NoSuchContainer")
  BY DEF FinishWithBody, NotFound, ServiceFailure
<1>5. {"failure", "fault"} \subseteq P!May(what, known)
      /\ (what \in {"NotFound", "NoSuchUpload"} \/ (what = "NoSuchContainer" /\ ~known) =>
            "not_found" \in P!May(what, known))
  BY DEF P!May, Causes
<1>6. CASE FinishWithBody(status, kind).verdict = "not_found"
  <2>1. what \in {"NotFound", "NoSuchUpload", "NoSuchContainer"} /\ kind # "NoSuchContainer"
    BY <1>1, <1>4, <1>6
  <2>2. what = "NoSuchContainer" => ~known
    BY <1>3, <2>1, Zenon
  <2>3. what \in {"NotFound", "NoSuchUpload"} \/ (what = "NoSuchContainer" /\ ~known)
    BY <2>1, <2>2, Zenon
  <2>4. "not_found" \in P!May(what, known)
    BY <1>5, <2>3
  <2> QED BY <1>6, <2>4
<1>7. CASE FinishWithBody(status, kind).verdict = "failure"
  BY <1>5, <1>7, Zenon
<1> QED BY <1>4, <1>6, <1>7, Zenon

\* The verdicts of the head of an error that has a status of its own.
LEMMA TruthfulHead ==
  ASSUME Inductive, Ended, cause \in Causes \ {"done", "started"}, result = AcceptHead,
         reading = "none", <<head.status, body.code>> \in CalledBy(cause)
  PROVE  result.verdict \in P!May(cause, Heard)
<1>1. head.code \in {"absent", body.code} /\ (service # "azure" => head.code = "absent")
      /\ result.verdict \in Verdicts
  BY DEF Inductive, Answered, Calls, TypeOK
<1>2. /\ body.code \in {"Precondition", "AlreadyExists"} => cause = "Precondition"
      /\ head.status = 304 => cause = "Precondition"
      /\ head.status = 412 => cause = "Precondition" \/ service = "azure"
      /\ head.status \notin 200..299
      /\ head.status # 416
  BY OnlyCalledFor, CalledByType
<1>3. KindFor("absent") = None /\ None \notin {"Precondition", "AlreadyExists"}
  BY DEF KindFor, Known, Kinds, None
<1>4. \A kind \in {None, KindFor(body.code)} :
        (Heard => kind = KindFor(body.code)) =>
          FinishWithBody(head.status, kind).verdict \in P!May(cause, Heard)
  BY TruthfulFinish DEF Heard, Ended
<1>5. cause = "Precondition" =>
        {"not_modified", "precondition_failed", "fault"} \subseteq P!May(cause, Heard)
  BY DEF P!May
<1>6. "fault" \in P!May(cause, Heard)
  BY DEF P!May, Causes
<1>7. Heard => op # "head" \/ head.code # "absent"
  BY DEF Heard
<1>8. CASE service = "azure"
  <2>1. AzureSuccesses \subseteq 200..299
    BY DEF AzureSuccesses
  <2>2. CASE head.status = 304 /\ op \in Reads
    <3>1. AcceptHead.verdict \in {"not_modified", "fault"}
      BY <1>2, <1>8, <2>1, <2>2 DEF AcceptHead, AcceptAzureHead, Verdict
    <3> QED BY <1>2, <1>5, <2>2, <3>1
  <2>3. CASE NamesFailedCondition(head.status, KindFor(head.code))
    <3>1. KindFor(head.code) \in {"Precondition", "AlreadyExists"}
      BY <2>3 DEF NamesFailedCondition
    <3>2. head.code = body.code /\ KindFor(head.code) = head.code
      BY <1>1, <1>3, <3>1 DEF KindFor
    <3>3. cause = "Precondition"
      BY <1>2, <3>1, <3>2
    <3>4. AcceptHead.verdict \in {"not_modified", "fault", "precondition_failed"}
      BY <1>2, <1>8, <2>1, <2>3 DEF AcceptHead, AcceptAzureHead, Verdict
    <3> QED BY <1>5, <3>3, <3>4
  <2>4. CASE /\ ~(head.status = 304 /\ op \in Reads)
             /\ ~NamesFailedCondition(head.status, KindFor(head.code))
    <3>1. AcceptHead = AzureFailureHead
      BY <1>2, <1>8, <2>1, <2>4 DEF AcceptHead, AcceptAzureHead
    <3>2. CASE head.code = "absent"
      <4>1. op = "head" /\ AcceptHead = FinishWithBody(head.status, None)
        BY <1>1, <3>1, <3>2 DEF AzureFailureHead, Verdict, Verdicts
      <4> QED BY <1>4, <1>7, <3>2, <4>1
    <3>3. CASE head.code # "absent"
      BY <1>1, <1>4, <3>1, <3>3 DEF AzureFailureHead
    <3> QED BY <3>2, <3>3
  <2> QED BY <2>2, <2>3, <2>4
<1>9. CASE service # "azure"
  <2>1. S3Successes \subseteq 200..299
    BY DEF S3Successes
  <2>2. CASE head.status = 304 /\ op \in Reads
    <3>1. AcceptHead.verdict \in {"not_modified", "fault"}
      BY <1>2, <1>9, <2>1, <2>2 DEF AcceptHead, AcceptS3Head, Verdict
    <3> QED BY <1>2, <1>5, <2>2, <3>1
  <2>3. CASE head.status = 412 /\ Conditional
    <3>1. AcceptHead.verdict \in {"precondition_failed", "fault"}
      BY <1>2, <1>9, <2>1, <2>3 DEF AcceptHead, AcceptS3Head, Verdict
    <3> QED BY <1>2, <1>5, <1>9, <2>3, <3>1
  <2>4. CASE ~(head.status = 304 /\ op \in Reads) /\ ~(head.status = 412 /\ Conditional)
    <3>1. op = "head" /\ AcceptHead = FinishWithBody(head.status, None)
      BY <1>1, <1>2, <1>9, <2>1, <2>4 DEF AcceptHead, AcceptS3Head, Verdict, Verdicts
    <3> QED BY <1>1, <1>4, <1>7, <1>9, <3>1
  <2> QED BY <2>2, <2>3, <2>4
<1> QED BY <1>8, <1>9

\* The verdicts of the body of an error, whole or not.
LEMMA TruthfulBody ==
  ASSUME Inductive, Ended, cause \in Causes \ {"done", "started"},
         reading \in {"whole", "cut"}, NEW got \in Bodies, Arrives(got, reading)
  PROVE  /\ <<head.status, body.code>> \in CalledBy(cause) =>
              AcceptErrorBody(got).verdict \in P!May(cause, Heard)
         /\ head.status = 200 => AcceptResultBody(got).verdict \in P!May(cause, Heard)
<1>1. Calls(cause) /\ cause # "anything"
  BY DEF Inductive, Answered, Causes
<1>2. /\ body = Doc("error", body.code)
      /\ \E status : <<status, body.code>> \in CalledBy(cause)
  BY <1>1 DEF Calls
<1>3. /\ body.code \in {"Precondition", "AlreadyExists"} => cause = "Precondition"
      /\ body.code \in {"NotFound", "NoSuchUpload", "NoSuchContainer"} => cause = body.code
  BY <1>2, OnlyCalledFor
<1>4. got.doc \in {"error", "unread"} /\ got.code \in {"absent", body.code}
      /\ (reading = "whole" => got.code = body.code)
  <2>1. body.doc = "error"
    BY <1>2 DEF Doc
  <2>2. CASE reading = "whole"
    BY <1>1, <2>1, <2>2 DEF Arrives
  <2>3. CASE reading = "cut"
    <3>1. got \in Cut
      BY <2>3 DEF Arrives
    <3> QED BY <2>3, <3>1 DEF Cut, Doc
  <2> QED BY <2>2, <2>3
<1>5. KindFor("absent") = None /\ None \notin Kinds
  BY DEF KindFor, Known, Kinds, None
<1>6. KindFor(got.code) \in {None, KindFor(body.code)}
      /\ (Heard => KindFor(got.code) = KindFor(body.code))
  BY <1>4, <1>5 DEF Heard, Ended
<1>7. \A kind \in Kinds : KindFor(got.code) = kind => body.code = kind
  BY <1>4, <1>5 DEF KindFor
<1>8. cause = "Precondition" => "precondition_failed" \in P!May(cause, Heard)
  BY DEF P!May
<1>9. {"failure", "fault"} \subseteq P!May(cause, Heard)
      /\ (cause \in {"NotFound", "NoSuchUpload"} => "not_found" \in P!May(cause, Heard))
  BY DEF P!May, Causes
<1>10. ASSUME <<head.status, body.code>> \in CalledBy(cause)
       PROVE  AcceptErrorBody(got).verdict \in P!May(cause, Heard)
  <2>1. FinishWithBody(head.status, KindFor(got.code)).verdict \in P!May(cause, Heard)
    BY <1>6, <1>10, TruthfulFinish DEF Heard, Ended
  <2>2. NamesFailedCondition(head.status, KindFor(got.code)) => cause = "Precondition"
    BY <1>3, <1>7 DEF NamesFailedCondition, Kinds
  <2> QED BY <1>8, <2>1, <2>2 DEF AcceptErrorBody, Verdict
<1>11. ASSUME head.status = 200
       PROVE  AcceptResultBody(got).verdict \in P!May(cause, Heard)
  <2>1. FinishWithBody(200, KindFor(got.code)).verdict = "failure"
    BY DEF FinishWithBody, ServiceFailure
  <2>2. KindFor(got.code) = "Precondition" => cause = "Precondition"
    BY <1>3, <1>7 DEF Kinds
  <2>3. KindFor(got.code) = LateNotFound => cause \in {"NotFound", "NoSuchUpload"}
    BY <1>3, <1>7 DEF LateNotFound, Kinds
  <2> QED BY <1>4, <1>8, <1>9, <1>11, <2>1, <2>2, <2>3 DEF AcceptResultBody, Verdict, NotFound
<1> QED BY <1>10, <1>11

\* The verdicts of a request that did what it was to do.
LEMMA TruthfulSuccess ==
  ASSUME Inductive, Ended, cause \in {"done", "started"}
  PROVE  result.verdict \in P!May(cause, Heard)
<1>1. P!May(cause, Heard) = {cause, "fault"}
  BY DEF P!May
<1>2. /\ head.status \in 200..299 /\ head.status \in Successes
      /\ head.code = "absent"
      /\ head.states = IF cause = "started" /\ op = "copy" THEN "pending" ELSE "result"
      /\ cause = "started" => head.status = 202 /\ (op = "restore" \/ (service = "azure" /\ op = "copy"))
      /\ op = "restore" /\ cause = "done" => head.status = 200
      /\ op \in IF service = "azure" THEN AzureOperations ELSE S3Operations
  <2>1. Successes \subseteq 200..299
    BY DEF Successes, AzureSuccesses, S3Successes
  <2>2. op \in IF service = "azure" THEN AzureOperations ELSE S3Operations
    BY DEF Inductive, TypeOK
  <2>3. CASE cause = "done"
    BY <2>1, <2>2, <2>3 DEF Inductive, Answered
  <2>4. CASE cause = "started"
    <3>1. op = "restore" \/ (service = "azure" /\ op = "copy")
      BY <2>4 DEF Inductive, Answered, Happens, Causes
    <3>2. 202 \in Successes
      BY <3>1 DEF Successes, AzureSuccesses, S3Successes, Reads
    <3> QED BY <2>2, <2>4, <3>1, <3>2 DEF Inductive, Answered
  <2> QED BY <2>3, <2>4
<1>3. AcceptHead = AcceptSuccess
  BY <1>2 DEF AcceptHead, AcceptS3Head, AcceptAzureHead, Successes
<1>4. AcceptSuccess = Verdict(IF Late THEN "need_result_body" ELSE cause)
  BY <1>2 DEF AcceptSuccess, Late, Verdict
<1>5. CASE result = AcceptHead
  <2>1. result.verdict \in Verdicts
    BY DEF Inductive, TypeOK
  <2> QED BY <1>1, <1>3, <1>4, <1>5, <2>1 DEF Verdict, Verdicts
<1>6. ASSUME NEW got \in Bodies, Arrives(got, reading), reading \in {"whole", "cut"},
             result = AcceptResultBody(got), Late
      PROVE  result.verdict \in P!May(cause, Heard)
  <2>1. cause = "done" /\ body.doc = "result"
    BY <1>2, <1>6 DEF Late, Inductive, Answered, Doc
  <2>2. CASE reading = "whole"
    <3>1. got.doc = "result"
      BY <1>6, <2>1, <2>2 DEF Arrives
    <3> QED BY <1>1, <1>6, <2>1, <3>1 DEF AcceptResultBody, Verdict
  <2>3. CASE reading = "cut"
    <3>1. got \in Cut
      BY <1>6, <2>1, <2>3 DEF Arrives
    <3>2. got.doc = "unread"
      BY <2>1, <3>1 DEF Cut, Doc
    <3> QED BY <1>1, <1>6, <3>2 DEF AcceptResultBody, Verdict
  <2> QED BY <1>6, <2>2, <2>3
<1> QED BY <1>2, <1>5, <1>6, EndedBy, AsksForBody

TruthTold == Ended => result.verdict \in P!May(cause, Heard)

LEMMA Truthful == Inductive => TruthTold
<1> SUFFICES ASSUME Inductive, Ended PROVE result.verdict \in P!May(cause, Heard)
  BY DEF TruthTold
<1>1. CASE cause \in {"done", "started"}
  BY <1>1, TruthfulSuccess
<1>2. CASE cause = "anything"
  BY <1>2 DEF P!May, P!Verdicts, Inductive, TypeOK, Verdicts
<1>3. CASE cause \in Causes \ {"done", "started"}
  <2>1. Calls(cause) /\ Happens(cause)
    BY <1>3 DEF Inductive, Answered
  <2>2. CASE <<head.status, body.code>> \in CalledBy(cause)
    <3>1. head.status # 200
      BY <1>3, <2>2, CalledByType
    <3> QED BY <1>3, <2>2, <3>1, EndedBy, AsksForBody, TruthfulHead, TruthfulBody
  <2>3. CASE AnswersEarly /\ head.status = 200
    <3>1. AcceptHead.verdict = "need_result_body"
      <4>1. head.states = "result"
        BY <2>1 DEF Calls, Head
      <4> QED BY <2>3, <4>1 DEF AcceptHead, AcceptS3Head, AcceptSuccess, S3Successes, Verdict,
                Late, AnswersEarly, Bare
    <3> QED BY <1>3, <2>3, <3>1, EndedBy, TruthfulBody DEF Deferred
  <2> QED BY <2>1, <2>2, <2>3 DEF Calls
<1> QED BY <1>1, <1>2, <1>3 DEF Inductive, TypeOK, Ended

\* One step of the exchange is one step of its promise, or none.
LEMMA StepPromised ==
  Inductive /\ Inductive' /\ TruthTold' /\ [Next]_vars => [P!Next]_P!vars
<1> SUFFICES ASSUME Inductive, Inductive', TruthTold', [Next]_vars PROVE [P!Next]_P!vars
  OBVIOUS
<1>1. ~Ended => result.verdict = "none" /\ Heard = FALSE
  BY DEF Inductive, TypeOK, Verdict, Heard
<1>2. ~Ended' => result'.verdict = "none" /\ Heard' = FALSE
  BY DEF Inductive, TypeOK, Verdict, Heard
<1>3. cause = "undecided" <=> phase = "sent"
  BY DEF Inductive, TypeOK
<1>4. CASE Serve \/ Answer
  <2>1. phase = "sent" /\ phase' = "answered" /\ cause' \in Causes \cup {"anything"}
    BY <1>4 DEF Serve, Answer
  <2>2. P!Decide
    BY <1>1, <1>2, <1>3, <2>1 DEF P!Decide, P!Causes, Causes, Ended
  <2> QED BY <2>2 DEF P!Next
<1>5. CASE Read
  <2>1. ~Ended /\ phase # "sent" /\ cause' = cause
    BY <1>5 DEF Read, ReadHead, ReadErrorBody, ReadResultBody, Ended
  <2>2. CASE Ended'
    <3>1. result'.verdict \in P!May(cause, Heard)'
      BY <2>2 DEF TruthTold
    <3>2. P!Tell
      BY <1>1, <1>3, <2>1, <3>1 DEF P!Tell, P!May, Heard, Ended
    <3> QED BY <3>2 DEF P!Next
  <2>3. CASE ~Ended'
    BY <1>1, <1>2, <2>1, <2>3 DEF P!vars
  <2> QED BY <2>2, <2>3
<1>6. CASE UNCHANGED vars
  BY <1>6 DEF vars, P!vars, Heard, Ended
<1> QED BY <1>4, <1>5, <1>6 DEF Next

\* The exchange implements its promise, its liveness aside: whatever heads and
\* bodies arrive, a caller is told one thing, and nothing that did not happen
\* (every accept_* function).
THEOREM ExchangeImplementsPromise == Spec => P!Safety
<1>1. Init => P!Init
  BY DEF Init, P!Init, Verdict, Heard, Ended
<1> QED BY <1>1, Invariance, Truthful, StepPromised, PTL DEF Spec, P!Safety

-----------------------------------------------------------------------------
(* The class of a failure. *)

\* A failure is of the status of the head, and of the name that was heard.
LEMMA FailureShape ==
  ASSUME Inductive, Ended, cause \in Causes \ {"done", "started"}, result.verdict = "failure"
  PROVE  \E kind \in {None, KindFor(body.code)} :
           /\ result = ServiceFailure(head.status, kind)
           /\ Heard => kind = KindFor(body.code)
<1>1. Calls(cause) /\ cause # "anything"
  BY DEF Inductive, Answered, Causes
<1>2. head.code \in {"absent", body.code} /\ (service # "azure" => head.code = "absent")
      /\ body.doc = "error" /\ head.states = "result"
  BY <1>1 DEF Calls, Doc, Head
<1>3. \A status, kind : FinishWithBody(status, kind).verdict = "failure" =>
        FinishWithBody(status, kind) = ServiceFailure(status, kind)
  BY DEF FinishWithBody, NotFound
<1>4. CASE result = AcceptHead /\ AcceptHead.verdict \notin Deferred /\ reading = "none"
  <2>1. AcceptSuccess.verdict # "failure" /\ Unsatisfiable.verdict # "failure"
    BY <1>2 DEF AcceptSuccess, Unsatisfiable, Verdict
  <2>2. \/ AcceptHead = FinishWithBody(head.status, KindFor(head.code)) /\ head.code # "absent"
        \/ AcceptHead = FinishWithBody(head.status, None) /\ op = "head" /\ head.code = "absent"
    <3>1. AcceptHead.verdict = "failure"
      BY <1>4
    <3>2. CASE service = "azure"
      <4>1. AcceptHead = AzureFailureHead
        BY <2>1, <3>1, <3>2 DEF AcceptHead, AcceptAzureHead, Verdict
      <4> QED BY <3>1, <4>1 DEF AzureFailureHead, Verdict
    <3>3. CASE service # "azure"
      BY <1>2, <2>1, <3>1, <3>3 DEF AcceptHead, AcceptS3Head, Verdict
    <3> QED BY <3>2, <3>3
  <2>3. CASE head.code # "absent"
    BY <1>2, <1>3, <1>4, <2>2, <2>3
  <2>4. CASE head.code = "absent"
    BY <1>3, <1>4, <2>2, <2>4 DEF Heard
  <2> QED BY <2>3, <2>4
<1>5. ASSUME NEW got \in Bodies, Arrives(got, reading), reading \in {"whole", "cut"},
             result \in {AcceptErrorBody(got), AcceptResultBody(got)}
      PROVE  \E kind \in {None, KindFor(body.code)} :
               /\ result = ServiceFailure(head.status, kind)
               /\ Heard => kind = KindFor(body.code)
  <2>1. result = FinishWithBody(head.status, KindFor(got.code))
    <3>1. got.doc \in {"result", "unread", "error"}
      BY DEF Bodies
    <3> QED BY <1>5, <3>1 DEF AcceptErrorBody, AcceptResultBody, Verdict, NotFound
  <2>2. got.code \in {"absent", body.code} /\ (reading = "whole" => got.code = body.code)
    <3>1. CASE reading = "whole"
      BY <1>1, <1>5, <3>1 DEF Arrives
    <3>2. CASE reading = "cut"
      <4>1. got \in Cut
        BY <1>5, <3>2 DEF Arrives
      <4> QED BY <3>2, <4>1 DEF Cut, Doc
    <3> QED BY <1>5, <3>1, <3>2
  <2>3. KindFor("absent") = None
    BY DEF KindFor, Known, Kinds
  <2> QED BY <1>3, <1>5, <2>1, <2>2, <2>3 DEF Heard
<1> QED BY <1>4, <1>5, EndedBy

\* Which causes a code and a status of a passing failure are called for.
LEMMA PassingCalledFor ==
  ASSUME NEW what \in Causes \ {"done", "started"}, NEW status, NEW code,
         <<status, code>> \in CalledBy(what)
  PROVE  /\ what \in {"Throttled", "Timeout", "Service", "Unauthorized"} => code = what
         /\ code \in {"Throttled", "Timeout", "Service", "Unauthorized"} => what = code
         /\ status # 408
         /\ status = 429 => what = "Throttled"
BY SMT DEF Causes, CalledBy

\* A caller is told to try again only what may pass, and is told so of what
\* passes once it heard its name (FailureClass::of, and the codes of both
\* services).
THEOREM ExchangeClassIsOfTheCause == Spec => []ClassIsOfTheCause
<1>1. ASSUME Inductive PROVE ClassIsOfTheCause
  <2> SUFFICES ASSUME Honest, Ended, result.verdict = "failure"
               PROVE  /\ Heard /\ cause \in {"Throttled", "Timeout", "Service"} =>
                           result.class \in {"Throttled", "Server"}
                      /\ result.class \in {"Throttled", "Server"} =>
                           \/ cause \in {"Throttled", "Timeout", "Service"}
                           \/ head.status \in 500..599
                      /\ Heard /\ cause = "Unauthorized" => result.class = "Auth"
    BY DEF ClassIsOfTheCause
  <2>1. cause \in Causes \ {"done", "started"}
    <3>1. cause \in {"done", "started"} => result.verdict \in {cause, "fault"}
      BY <1>1, TruthfulSuccess DEF P!May
    <3> QED BY <3>1 DEF Honest
  <2>2. PICK kind \in {None, KindFor(body.code)} :
          /\ result = ServiceFailure(head.status, kind)
          /\ Heard => kind = KindFor(body.code)
    BY <1>1, <2>1, FailureShape
  <2>3. result.class = Class(head.status, kind)
    BY <2>2 DEF ServiceFailure
  <2>4. PICK status : /\ <<status, body.code>> \in CalledBy(cause)
                      /\ head.status \in {status, 200}
    BY <1>1, <2>1 DEF Inductive, Answered, Calls
  <2>5. /\ cause \in {"Throttled", "Timeout", "Service", "Unauthorized"} => body.code = cause
        /\ body.code \in {"Throttled", "Timeout", "Service", "Unauthorized"} => cause = body.code
        /\ head.status # 408
        /\ head.status = 429 => cause = "Throttled"
    BY <2>1, <2>4, PassingCalledFor
  <2>6. {"Throttled", "Timeout", "Service", "Unauthorized"} \subseteq Known /\ None \notin Known
    BY DEF Known, Kinds, None
  <2>7. Heard /\ cause \in {"Throttled", "Timeout", "Service", "Unauthorized"} => kind = cause
    BY <2>2, <2>5, <2>6 DEF KindFor
  <2>8. kind \in {"Throttled", "Timeout", "Service", "Unauthorized"} => cause = kind
    BY <2>2, <2>5, <2>6 DEF KindFor
  <2>9. Heard /\ cause \in {"Throttled", "Timeout", "Service"} =>
          result.class \in {"Throttled", "Server"}
    BY <2>3, <2>7 DEF Class
  <2>10. Heard /\ cause = "Unauthorized" => result.class = "Auth"
    BY <2>3, <2>7 DEF Class
  <2>11. result.class \in {"Throttled", "Server"} =>
           \/ cause \in {"Throttled", "Timeout", "Service"}
           \/ head.status \in 500..599
    BY <2>3, <2>5, <2>8 DEF Class, ClassOfStatus
  <2> QED BY <2>9, <2>10, <2>11
<1> QED BY Invariance, <1>1, PTL

-----------------------------------------------------------------------------
(* What is heard by name is told exactly. *)

\* A success is told as what it was.
LEMMA ExactSuccess ==
  ASSUME Inductive, Heard, cause \in {"done", "started"}
  PROVE  result = Exact
<1>1. Ended /\ (reading = "none" \/ reading = "whole")
  BY DEF Heard
<1>2. result.verdict \in {cause, "fault"}
  BY <1>1, TruthfulSuccess DEF P!May
<1>3. /\ head.status \in 200..299 /\ head.status \in Successes
      /\ head.states = IF cause = "started" /\ op = "copy" THEN "pending" ELSE "result"
      /\ cause = "started" => head.status = 202 /\ (op = "restore" \/ (service = "azure" /\ op = "copy"))
      /\ op = "restore" /\ cause = "done" => head.status = 200
  <2>1. Successes \subseteq 200..299
    BY DEF Successes, AzureSuccesses, S3Successes
  <2>2. CASE cause = "done"
    BY <2>1, <2>2 DEF Inductive, Answered
  <2>3. CASE cause = "started"
    <3>1. op = "restore" \/ (service = "azure" /\ op = "copy")
      BY <2>3 DEF Inductive, Answered, Happens, Causes
    <3>2. 202 \in Successes
      BY <3>1 DEF Successes, AzureSuccesses, S3Successes, Reads
    <3> QED BY <2>3, <3>1, <3>2 DEF Inductive, Answered
  <2> QED BY <2>2, <2>3
<1>4. AcceptHead = Verdict(IF Late THEN "need_result_body" ELSE cause)
  BY <1>3 DEF AcceptHead, AcceptS3Head, AcceptAzureHead, Successes, AcceptSuccess, Late, Verdict
<1>5. Exact = Verdict(cause)
  BY DEF Exact
<1>6. CASE result = AcceptHead
  BY <1>2, <1>4, <1>5, <1>6 DEF Verdict
<1>7. ASSUME NEW got \in Bodies, Arrives(got, reading), reading = "whole",
             result = AcceptResultBody(got), Late
      PROVE  result = Exact
  <2>1. cause = "done" /\ body.doc = "result"
    BY <1>3, <1>7 DEF Late, Inductive, Answered, Doc
  <2>2. got.doc = "result"
    BY <1>7, <2>1 DEF Arrives
  <2> QED BY <1>5, <1>7, <2>1, <2>2 DEF AcceptResultBody, Verdict
<1> QED BY <1>1, <1>3, <1>6, <1>7, EndedBy, AsksForBody

\* The codes of every cause, and the kinds of those codes.
LEMMA ExactNames ==
  ASSUME NEW what \in Causes \ {"done", "started"}, Happens(what),
         op \in IF service = "azure" THEN AzureOperations ELSE S3Operations,
         NEW status, NEW code, <<status, code>> \in CalledBy(what)
  PROVE  /\ code \in {what, "other"} \/ (what = "Precondition" /\ code = "AlreadyExists")
         /\ what = "Precondition" => code # "other"
         /\ what \in {"Precondition", "NoSuchContainer", "NoSuchUpload"} =>
              code \in {what, "AlreadyExists"}
         /\ status = 404 <=> what \in {"NotFound", "NoSuchContainer", "NoSuchUpload"}
         /\ code # "AlreadyExists" => KindFor(code) = IF code = "other" THEN None ELSE what
<1>1. /\ code \in {what, "other"} \/ (what = "Precondition" /\ code = "AlreadyExists")
      /\ what = "Precondition" => code # "other"
      /\ what \in {"Precondition", "NoSuchContainer", "NoSuchUpload"} =>
           code \in {what, "AlreadyExists"}
      /\ status = 404 <=> what \in {"NotFound", "NoSuchContainer", "NoSuchUpload"}
      /\ what = "Refused" => code = "other"
  BY SMT DEF Causes, CalledBy
<1>2. what = "NoSuchUpload" => service # "azure"
  BY DEF Happens, AzureOperations, Reads
<1>3. what # "Refused" => what \in Known
  BY <1>2 DEF Causes, Known, Kinds
<1>4. "other" \notin Known
  BY DEF Known, Kinds
<1> QED BY <1>1, <1>3, <1>4 DEF KindFor

\* An error that has a status of its own, and is not a condition's.
LEMMA ExactFinish ==
  ASSUME Inductive, cause \in Causes \ {"done", "started"},
         cause = "Precondition" => ~FailsAsNotModified /\ ~Conditional,
         <<head.status, body.code>> \in CalledBy(cause),
         result = FinishWithBody(head.status, KindFor(body.code))
  PROVE  result = Exact
<1>1. Happens(cause) /\ op \in IF service = "azure" THEN AzureOperations ELSE S3Operations
  BY DEF Inductive, TypeOK, Answered
<1>2. /\ body.code \in {cause, "other"} \/ (cause = "Precondition" /\ body.code = "AlreadyExists")
      /\ cause \in {"Precondition", "NoSuchContainer", "NoSuchUpload"} =>
           body.code \in {cause, "AlreadyExists"}
      /\ cause = "Precondition" => body.code # "other"
      /\ head.status = 404 <=> cause \in {"NotFound", "NoSuchContainer", "NoSuchUpload"}
      /\ body.code # "AlreadyExists" => KindFor(body.code) = IF body.code = "other" THEN None ELSE cause
  BY <1>1, ExactNames
<1>3. body.code # "AlreadyExists"
  <2>1. body.code = "AlreadyExists" => cause = "Precondition" /\ Conditional
    BY SMT DEF CalledBy, Causes, Conditional
  <2> QED BY <2>1
<1>4. KindFor(body.code) = IF body.code = "other" THEN None ELSE cause
  BY <1>2, <1>3
<1>5. CASE cause = "Precondition"
  BY <1>2, <1>4, <1>5 DEF Exact, FinishWithBody, ServiceFailure, NotFound
<1>6. CASE cause # "Precondition"
  <2>1. None # "NoSuchContainer"
    BY DEF None
  <2>2. result = IF cause \in {"NotFound", "NoSuchUpload"} /\ ~NamesNoObject
                   THEN NotFound(KindFor(body.code))
                   ELSE ServiceFailure(head.status, KindFor(body.code))
    BY <1>2, <1>4, <1>6, <2>1 DEF FinishWithBody
  <2>3. Exact = [verdict |-> IF cause \in {"NotFound", "NoSuchUpload"} /\ ~NamesNoObject
                               THEN "not_found" ELSE "failure",
                 kind |-> KindFor(body.code), class |-> result.class]
    BY <1>4, <1>6 DEF Exact
  <2> QED BY <2>2, <2>3 DEF NotFound, ServiceFailure
<1> QED BY <1>5, <1>6

\* A failed condition that a head or a body with its own status names.
LEMMA ExactCondition ==
  ASSUME Inductive, cause = "Precondition", <<head.status, body.code>> \in CalledBy(cause)
  PROVE  /\ condition # "none"
         /\ FailsAsNotModified => head.status = 304 /\ Exact = Verdict("not_modified")
         /\ ~FailsAsNotModified /\ Conditional => Exact = Verdict("precondition_failed")
         /\ ~FailsAsNotModified /\ Conditional /\ service = "azure" =>
              NamesFailedCondition(head.status, KindFor(body.code))
         /\ ~FailsAsNotModified => head.status \in {409, 412} /\ Refusable
         /\ service # "azure" /\ ~FailsAsNotModified => head.status = 412
         /\ ~Conditional => KindFor(body.code) = "Precondition"
<1>1. condition # "none"
  BY DEF Inductive, Answered, Happens, Causes
<1>2. "Precondition" \in Known /\ (service = "azure" => "AlreadyExists" \in Known)
  BY DEF Known, Kinds
<1>3. <<head.status, body.code>> \in
        IF FailsAsNotModified THEN {<<304, "Precondition">>}
        ELSE {<<412, "Precondition">>} \cup
          (IF service = "azure" /\ condition = "IfNoneMatch"
                /\ op \in {"put", "copy", "put_from_url", "commit_blocks"}
             THEN {<<409, "AlreadyExists">>} ELSE {})
  BY DEF CalledBy
<1>4. \/ FailsAsNotModified /\ head.status = 304 /\ body.code = "Precondition"
      \/ ~FailsAsNotModified /\ head.status = 412 /\ body.code = "Precondition"
      \/ /\ ~FailsAsNotModified /\ service = "azure" /\ condition = "IfNoneMatch"
         /\ op \in {"put", "copy", "put_from_url", "commit_blocks"}
         /\ head.status = 409 /\ body.code = "AlreadyExists"
  BY <1>3
<1>5. ~FailsAsNotModified => Refusable
  BY <1>1 DEF Refusable, FailsAsNotModified
<1>6. op \in {"put", "copy", "put_from_url", "commit_blocks"} /\ service = "azure" => Conditional
  BY DEF Conditional
<1>7. FailsAsNotModified => Conditional
  BY DEF FailsAsNotModified, Conditional
<1>8. /\ FailsAsNotModified => Exact = Verdict("not_modified")
      /\ ~FailsAsNotModified /\ Conditional => Exact = Verdict("precondition_failed")
  BY DEF Exact
<1>9. ~FailsAsNotModified /\ Conditional /\ service = "azure" =>
        NamesFailedCondition(head.status, KindFor(body.code))
  BY <1>2, <1>4, <1>5 DEF NamesFailedCondition, KindFor
<1> QED BY <1>1, <1>2, <1>4, <1>5, <1>6, <1>7, <1>8, <1>9 DEF KindFor

\* The name in a head that ends the exchange.
LEMMA ExactHead ==
  ASSUME Inductive, Heard, cause \in Causes \ {"done", "started"},
         reading = "none", result = AcceptHead, AcceptHead.verdict \notin Deferred,
         <<head.status, body.code>> \in CalledBy(cause)
  PROVE  result = Exact
<1>1. head.code \in {"absent", body.code} /\ (service # "azure" => head.code = "absent")
  BY DEF Inductive, Answered, Calls
<1>2. /\ body.code \in {"Precondition", "AlreadyExists"} => cause = "Precondition"
      /\ head.status = 304 => cause = "Precondition"
      /\ head.status = 412 => cause = "Precondition" \/ service = "azure"
      /\ head.status \notin 200..299
      /\ head.status # 416
  BY OnlyCalledFor, CalledByType
<1>3. S3Successes \subseteq 200..299 /\ AzureSuccesses \subseteq 200..299
  BY DEF S3Successes, AzureSuccesses
<1>4. op # "head" \/ head.code # "absent"
  BY DEF Heard
<1>5. CASE cause = "Precondition" /\ FailsAsNotModified
  <2>1. head.status = 304 /\ op \in Reads /\ Exact = Verdict("not_modified")
    BY <1>5, ExactCondition DEF FailsAsNotModified
  <2>2. AcceptHead = Verdict("not_modified")
    BY <1>2, <1>3, <1>5, <2>1 DEF AcceptHead, AcceptS3Head, AcceptAzureHead
  <2> QED BY <2>1, <2>2
<1>6. CASE service # "azure" /\ ~(cause = "Precondition" /\ FailsAsNotModified)
  <2>1. head.status # 304
    <3>1. head.status = 304 => cause = "Precondition"
      BY <1>2
    <3>2. cause = "Precondition" => head.status \in {409, 412}
      BY <1>6, ExactCondition
    <3> QED BY <3>1, <3>2
  <2>2. AcceptHead \in {Verdict(IF Refusable THEN "precondition_failed" ELSE "fault"),
                        Verdict("need_error_body")}
        /\ (AcceptHead # Verdict("need_error_body") => head.status = 412 /\ Conditional)
    BY <1>1, <1>2, <1>3, <1>4, <1>6, <2>1 DEF AcceptHead, AcceptS3Head
  <2>3. AcceptHead # Verdict("need_error_body")
    BY DEF Verdict, Deferred
  <2>4. cause = "Precondition" /\ ~FailsAsNotModified /\ Conditional
    BY <1>2, <1>6, <2>2, <2>3
  <2>5. Refusable /\ Exact = Verdict("precondition_failed")
    BY <2>4, ExactCondition
  <2> QED BY <2>2, <2>3, <2>5
<1>7. CASE service = "azure" /\ ~(cause = "Precondition" /\ FailsAsNotModified)
  <2>1. head.status # 304
    <3>1. head.status = 304 => cause = "Precondition"
      BY <1>2
    <3>2. cause = "Precondition" => head.status \in {409, 412}
      BY <1>7, ExactCondition
    <3> QED BY <3>1, <3>2
  <2>2. AcceptHead = IF NamesFailedCondition(head.status, KindFor(head.code))
                       THEN Verdict("precondition_failed") ELSE AzureFailureHead
    BY <1>2, <1>3, <1>7, <2>1 DEF AcceptHead, AcceptAzureHead
  <2>3. KindFor("absent") = None /\ None \notin {"Precondition", "AlreadyExists"}
    BY DEF KindFor, Known, Kinds, None
  <2>4. head.code = body.code
    <3>1. CASE head.code = "absent"
      <4>1. AcceptHead = AzureFailureHead
        BY <2>2, <2>3, <3>1 DEF NamesFailedCondition
      <4>2. AcceptHead = Verdict("need_error_body")
        BY <1>4, <3>1, <4>1 DEF AzureFailureHead
      <4> QED BY <4>2 DEF Verdict, Deferred
    <3> QED BY <1>1, <3>1
  <2>5. CASE NamesFailedCondition(head.status, KindFor(body.code))
    <3>1. KindFor(body.code) \in {"Precondition", "AlreadyExists"} /\ Conditional
      BY <1>7, <2>5 DEF NamesFailedCondition, Conditional
    <3>2. cause = "Precondition"
      BY <1>2, <2>3, <3>1 DEF KindFor
    <3>3. Exact = Verdict("precondition_failed")
      BY <1>7, <3>1, <3>2, ExactCondition
    <3> QED BY <2>2, <2>4, <2>5, <3>3
  <2>6. CASE ~NamesFailedCondition(head.status, KindFor(body.code))
    <3>1. cause = "Precondition" => ~FailsAsNotModified /\ ~Conditional
      BY <1>7, <2>6, ExactCondition
    <3>2. body.code # "absent"
      BY CalledByType
    <3>3. result = FinishWithBody(head.status, KindFor(body.code))
      BY <2>2, <2>4, <2>6, <3>2 DEF AzureFailureHead
    <3> QED BY <3>1, <3>3, ExactFinish
  <2> QED BY <2>5, <2>6
<1> QED BY <1>5, <1>6, <1>7

\* The name in the body of an error.
LEMMA ExactBody ==
  ASSUME Inductive, cause \in Causes \ {"done", "started"},
         <<head.status, body.code>> \in CalledBy(cause),
         AcceptHead.verdict = "need_error_body",
         reading = "whole", result = AcceptErrorBody(body)
  PROVE  result = Exact \/ UpdateBody
<1>1. /\ head.status \notin 200..299
      /\ service # "azure" => ~(head.status = 412 /\ Conditional)
  BY AsksForBody
<1>2. KindFor(body.code) \in {"Precondition", "AlreadyExists"} => cause = "Precondition"
  <2>1. body.code \in {"Precondition", "AlreadyExists"} => cause = "Precondition"
    BY OnlyCalledFor
  <2> QED BY <2>1 DEF KindFor, None
<1>3. cause = "Precondition" => ~FailsAsNotModified
  <2>1. ASSUME cause = "Precondition", FailsAsNotModified PROVE FALSE
    <3>1. head.status = 304 /\ op \in Reads
      BY <2>1, ExactCondition DEF FailsAsNotModified
    <3>2. S3Successes \subseteq 200..299 /\ AzureSuccesses \subseteq 200..299
      BY DEF S3Successes, AzureSuccesses
    <3>3. AcceptHead.verdict \in {"not_modified", "fault"}
      BY <1>1, <3>1, <3>2 DEF AcceptHead, AcceptS3Head, AcceptAzureHead, Verdict
    <3> QED BY <3>3
  <2> QED BY <2>1
<1>4. CASE NamesFailedCondition(head.status, KindFor(body.code)) /\ service = "azure"
  <2>1. KindFor(body.code) \in {"Precondition", "AlreadyExists"} /\ Conditional
    BY <1>4 DEF NamesFailedCondition, Conditional
  <2>2. cause = "Precondition" /\ Exact = Verdict("precondition_failed")
    BY <1>2, <1>3, <2>1, ExactCondition
  <2>3. CASE op \in {"set_metadata", "set_properties"}
    BY <2>2, <2>3 DEF UpdateBody
  <2>4. CASE op \notin {"set_metadata", "set_properties"}
    BY <1>4, <2>2, <2>4 DEF AcceptErrorBody
  <2> QED BY <2>3, <2>4
<1>5. CASE ~(NamesFailedCondition(head.status, KindFor(body.code)) /\ service = "azure")
  <2>1. result = FinishWithBody(head.status, KindFor(body.code))
    BY <1>5 DEF AcceptErrorBody
  <2>2. cause = "Precondition" => ~FailsAsNotModified /\ ~Conditional
    <3>1. ASSUME cause = "Precondition", Conditional PROVE FALSE
      BY <1>1, <1>3, <1>5, <3>1, ExactCondition
    <3> QED BY <1>3, <3>1
  <2> QED BY <2>1, <2>2, ExactFinish
<1> QED BY <1>4, <1>5

\* The name in a body under a 200.
LEMMA ExactLate ==
  ASSUME Inductive, cause \in Causes \ {"done", "started"}, Late, head.status = 200,
         NEW status, <<status, body.code>> \in CalledBy(cause), body.doc = "error",
         result = AcceptResultBody(body)
  PROVE  result = Exact \/ (LateMissing /\ ~(op = "copy" /\ body.code = "NotFound"))
<1>1. Happens(cause) /\ op \in IF service = "azure" THEN AzureOperations ELSE S3Operations
  BY DEF Inductive, TypeOK, Answered
<1>2. /\ op \in {"copy", "stage_part_copy", "commit_parts"} /\ service # "azure"
      /\ ~NamesNoObject /\ ~FailsAsNotModified
  BY DEF Late, NamesNoObject, FailsAsNotModified, Reads
<1>3. /\ body.code \in {cause, "other"} \/ (cause = "Precondition" /\ body.code = "AlreadyExists")
      /\ cause \in {"Precondition", "NoSuchContainer", "NoSuchUpload"} =>
           body.code \in {cause, "AlreadyExists"}
      /\ cause = "Precondition" => body.code # "other"
      /\ body.code # "AlreadyExists" => KindFor(body.code) = IF body.code = "other" THEN None ELSE cause
  BY <1>1, ExactNames
<1>4. body.code # "AlreadyExists"
  <2>1. body.code = "AlreadyExists" => service = "azure"
    BY SMT DEF CalledBy, Causes
  <2> QED BY <1>2, <2>1
<1>5. KindFor(body.code) = IF body.code = "other" THEN None ELSE cause
  BY <1>3, <1>4
<1>6. result = IF KindFor(body.code) = "Precondition" /\ Conditional /\ condition # "none"
                 THEN Verdict("precondition_failed")
               ELSE IF KindFor(body.code) = LateNotFound THEN NotFound(KindFor(body.code))
               ELSE FinishWithBody(200, KindFor(body.code))
  BY DEF AcceptResultBody
<1>7. \A kind : FinishWithBody(200, kind) = ServiceFailure(200, kind)
  BY DEF FinishWithBody
<1>8. LateNotFound \in {"NotFound", "NoSuchUpload"} /\ (LateNotFound = "NotFound" <=> op = "copy")
  BY DEF LateNotFound
<1>9. CASE cause = "Precondition"
  <2>1. condition # "none"
    BY <1>1, <1>9 DEF Happens
  <2>2. KindFor(body.code) = "Precondition"
    BY <1>3, <1>5, <1>9
  <2>3. CASE Conditional
    BY <1>2, <1>6, <1>9, <2>1, <2>2, <2>3 DEF Exact
  <2>4. CASE ~Conditional
    <3>1. result = ServiceFailure(200, "Precondition")
      BY <1>6, <1>7, <1>8, <2>2, <2>4
    <3> QED BY <1>2, <1>9, <2>4, <3>1 DEF Exact, ServiceFailure
  <2> QED BY <2>3, <2>4
<1>10. CASE cause = "NotFound"
  <2>1. CASE op = "copy" /\ body.code = "NotFound"
    <3>1. result = NotFound("NotFound")
      BY <1>5, <1>6, <1>8, <1>10, <2>1
    <3> QED BY <1>2, <1>10, <2>1, <3>1 DEF Exact, NotFound
  <2>2. CASE ~(op = "copy" /\ body.code = "NotFound")
    BY <1>10, <2>2 DEF LateMissing
  <2> QED BY <2>1, <2>2
<1>11. CASE cause = "NoSuchUpload"
  <2>1. op # "copy" /\ KindFor(body.code) = "NoSuchUpload" /\ body.code # "other"
    BY <1>1, <1>3, <1>4, <1>5, <1>11 DEF Happens
  <2>2. result = NotFound("NoSuchUpload")
    BY <1>6, <1>8, <2>1
  <2> QED BY <1>2, <1>11, <2>1, <2>2 DEF Exact, NotFound
<1>12. CASE cause \notin {"Precondition", "NotFound", "NoSuchUpload"}
  <2>1. KindFor(body.code) \notin {"Precondition", "NotFound", "NoSuchUpload"}
    BY <1>5, <1>12 DEF None
  <2>2. result = ServiceFailure(200, KindFor(body.code))
    BY <1>6, <1>7, <1>8, <2>1
  <2>3. Exact = [verdict |-> "failure", kind |-> KindFor(body.code), class |-> result.class]
    BY <1>5, <1>12 DEF Exact
  <2> QED BY <2>2, <2>3 DEF ServiceFailure
<1> QED BY <1>9, <1>10, <1>11, <1>12

\* A caller that hears the name of what happened is told exactly that, but for
\* two cases: a missing object under a late 200, which only a copy knows, and
\* an update of Azure whose failed condition only the body names (every
\* accept_* function).
THEOREM ExchangeNamedIsExact == Spec => []NamedIsExact
<1>1. ASSUME Inductive, Honest, Heard, cause \in Causes \ {"done", "started"}
      PROVE  \/ result = Exact
             \/ LateMissing /\ ~(op = "copy" /\ body.code = "NotFound")
             \/ UpdateBody
  <2>1. Ended /\ (reading = "none" \/ reading = "whole") /\ cause # "anything"
    BY <1>1 DEF Heard, Causes
  <2>2. Calls(cause) /\ body.doc = "error"
    BY <1>1 DEF Inductive, Answered, Calls, Doc
  <2>3. \A got : Arrives(got, "whole") => got = body
    BY <2>1 DEF Arrives
  <2>4. CASE <<head.status, body.code>> \in CalledBy(cause)
    <3>1. head.status # 200
      BY <1>1, <2>4, CalledByType
    <3>2. \/ reading = "none" /\ result = AcceptHead /\ AcceptHead.verdict \notin Deferred
          \/ /\ reading = "whole" /\ AcceptHead.verdict = "need_error_body"
             /\ result = AcceptErrorBody(body)
      BY <1>1, <2>1, <2>3, <3>1, EndedBy, AsksForBody
    <3> QED BY <1>1, <2>4, <3>2, ExactHead, ExactBody
  <2>5. CASE AnswersEarly /\ head.status = 200
    <3>1. Late /\ AcceptHead.verdict = "need_result_body"
      <4>1. head.states = "result"
        BY <2>2 DEF Calls, Head
      <4> QED BY <2>5, <4>1 DEF AcceptHead, AcceptS3Head, AcceptSuccess, S3Successes, Verdict,
                Late, AnswersEarly, Bare
    <3>2. result = AcceptResultBody(body)
      BY <1>1, <2>1, <2>3, <3>1, EndedBy DEF Deferred
    <3>3. PICK status : <<status, body.code>> \in CalledBy(cause)
      BY <2>2 DEF Calls
    <3> QED BY <1>1, <2>2, <2>5, <3>1, <3>2, <3>3, ExactLate
  <2> QED BY <2>2, <2>4, <2>5 DEF Calls
<1>2. Inductive => NamedIsExact
  BY <1>1, ExactSuccess DEF NamedIsExact, Honest
<1> QED BY Invariance, <1>2, PTL

=============================================================================
