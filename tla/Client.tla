------------------------------- MODULE Client -------------------------------
(***************************************************************************)
(* The C++ host (hosts/cxx-curl): it copies the lines of the heads that    *)
(* libcurl reports into one arena, which every request and every head uses *)
(* again, and gives it to the C interface when the body begins, or when    *)
(* there is none.  A line is a status or a field.  A field has a size of   *)
(* one here, whatever it says.                                             *)
(***************************************************************************)
EXTENDS CEntry

LOCAL INSTANCE SequencesExt

CONSTANT HeadRoom          \* bound: the fields that the arena holds

-----------------------------------------------------------------------------
(* CollectedHead, and collect_head.                                        *)

Status(number) == <<"status", number>>
Field(name, value) == <<"field", <<name, value>>>>

\* Mutant: the fields of an earlier head stay.
RestartedLate(head, status) == [head EXCEPT !.status = status, !.overflowed = FALSE]

\* restart
Restarted(head, status) == [status |-> status, fields |-> <<>>, overflowed |-> FALSE]

\* field: one that has no room is left out, and the head is no longer whole.
Kept(head, field) ==
  IF Len(head.fields) = HeadRoom THEN [head EXCEPT !.overflowed = TRUE]
  ELSE [head EXCEPT !.fields = Append(@, field)]

CollectLine(head, line) ==
  IF line[1] = "status" THEN Restarted(head, line[2]) ELSE Kept(head, line[2])

\* What the arena holds after a request, which encode starts.
Collected(lines) == FoldLeft(CollectLine, [status |-> 0, fields |-> <<>>, overflowed |-> FALSE], lines)

-----------------------------------------------------------------------------
(* The C interface, with the head.                                         *)

\* head_of, ResponseHead::insert: of two fields of a name, the first counts.
FirstOf(head, name, other) ==
  LET at == {i \in DOMAIN head.fields : head.fields[i][1] = name}
  IN IF at = {} THEN other
     ELSE head.fields[CHOOSE i \in at : \A j \in at : i <= j][2]
HeadOf(head) ==
  [status |-> head.status, code |-> FirstOf(head, "x-ms-error-code", "absent"),
   states |-> IF FirstOf(head, "etag", None) = None THEN "less" ELSE "result"]

Thrown == [kind |-> 0, failure |-> 0]      \* the outcome that encode leaves

\* get, put, page: a head that is not whole is not read.  A body that names an
\* error is read where the head asks for it.
Received(op, shape, lines, body) ==
  LET head == Collected(lines)
      first == CAcceptHead(op, shape, HeadOf(head))
  IN CASE head.overflowed -> Thrown
       [] first.kind = COutcomeKind["NeedErrorBody"] -> CAcceptErrorBody(op, shape, HeadOf(head), body)
       [] OTHER -> first

-----------------------------------------------------------------------------
(* What a service sends: heads of its own or of a proxy before the answer, *)
(* and an answer as Exchange has it, its body cut or lost on its way.      *)

Early ==
  {<<>>, <<Status(100)>>, <<Status(103), Field("x-ms-error-code", "NotFound")>>,
   <<Status(103), Field("via", "proxy"), Field("link", "other"), Field("date", "then"),
     Field("via", "proxy")>>}
Before == {<<>>, <<Field("via", "proxy")>>, <<Field("date", "now"), Field("via", "proxy")>>}
LinesOf(head) ==
  {early \o <<Status(head.status)>> \o before
     \o (IF head.code = "absent" THEN <<>> ELSE <<Field("x-ms-error-code", head.code)>>)
     \o (IF head.states = "less" THEN <<>> ELSE <<Field("etag", "t2")>>) : early \in Early, before \in Before}
Arrived(body) == {body, [doc |-> "unread", code |-> "absent"], [doc |-> body.doc, code |-> "absent"]}

\* What a caller takes an outcome for.  It is unsure of a transfer that was
\* stopped, of an answer that could not be read, and of a failure that has no
\* name under a status that means several things.
Says(outcome, status) ==
  CASE outcome = Thrown                -> "unsure"
    [] outcome.kind \in {1, 2, 7, 13}  -> "done"
    [] outcome.kind \in {3, 4}         -> "unmet"
    [] outcome.kind = 5                -> "missing"
    [] outcome.kind \in {6, 11}        -> "unsure"
    [] outcome.kind = 10               ->
         CASE outcome.failure = 1 -> "missing"
           [] outcome.failure = 0 /\ status \in {404, 409, 412} -> "unsure"
           [] OTHER -> "failed"
=============================================================================
