------------------------------ MODULE Exchange ------------------------------
(***************************************************************************)
(* What every operation but a ranged read makes of its answer: first of    *)
(* its head, then of a body where the head does not decide (the accept_*   *)
(* functions of s3 and of azure, and outcome.rs).                          *)
(*                                                                         *)
(* S3 names an error in the body.  Azure names it in the head, and in the  *)
(* body too.  Three operations of S3 answer 200 before they are done, and  *)
(* tell in the body how it ended.  A body may be cut on its way, or lost:  *)
(* a host that cannot read one passes none.                                *)
(*                                                                         *)
(* Error codes are named as the crate's ServiceErrorKind names them.       *)
(* "other" is a code that the crate does not know.                         *)
(***************************************************************************)
EXTENDS Integers

CONSTANT Statuses           \* the statuses that any answer may have

ASSUME ExchangeAssumption == Statuses \subseteq 100..599

None == "none"
Kinds ==
  {"NotFound", "NoSuchContainer", "AlreadyExists", "Unauthorized", "Precondition",
   "Throttled", "Timeout", "Service", "InvalidUpload", "NoSuchUpload"}
Codes == Kinds \cup {"other", "absent"}

Reads == {"get", "head"}
S3Operations ==
  Reads \cup
  {"put", "delete", "list", "create_session", "create_upload", "stage_part",
   "stage_part_copy", "commit_parts", "abort_upload", "list_parts", "copy", "restore",
   "put_tagging", "get_tagging", "delete_many"}
AzureOperations ==
  Reads \cup
  {"put", "delete", "snapshot", "list", "copy", "put_from_url", "abort_copy",
   "stage_block", "commit_blocks", "list_blocks", "restore", "set_tier", "set_metadata",
   "set_properties", "set_tags", "get_tags", "delete_many"}

\* The head: `states` is what it says of a success besides the status: all
\* that its operation reads, or that a copy goes on, or less than it reads.
Heads(codes) == [status: Statuses, code: codes, states: {"result", "pending", "less"}]
Bodies == [doc: {"error", "result", "unread"}, code: Codes]

VARIABLES
  service,    \* "aws", "compatible" or "azure"
  op,         \* the operation
  condition,  \* what the request carries: none, one on the target or on the source
  phase,      \* "sent", "answered", "error_body", "result_body" or "ended"
  cause,      \* what the service did or found (observed only)
  head,       \* the head of the answer
  body,       \* the body that the service sends after it
  reading,    \* how the body arrived: "none" was read, "whole" or "cut"
  result      \* what the caller is told

vars == <<service, op, condition, phase, cause, head, body, reading, result>>
request == <<service, op, condition>>

\* The conditions that a request of each operation can carry.
Conditions(theService, theOp) ==
  CASE theOp \in {"copy", "put_from_url"}   -> {"none", "IfMatch", "IfNoneMatch", "Source"}
    [] theOp \in {"stage_part_copy", "stage_block"} -> {"none", "Source"}
    [] theOp = "delete" /\ theService = "aws" -> {"none", "IfMatch"}
    [] theOp \in Reads \cup {"put", "commit_parts", "commit_blocks", "snapshot",
                             "set_metadata", "set_properties"}
         \/ (theOp = "delete" /\ theService # "aws") -> {"none", "IfMatch", "IfNoneMatch"}
    [] OTHER -> {"none"}

-----------------------------------------------------------------------------
(* Errors and their names. *)

\* What the status alone says.  (Mutant of Class: the name is not looked at.)
ClassOfStatus(status, kind) ==
  CASE status \in 300..399   -> "Redirect"
    [] status \in {401, 403} -> "Auth"
    [] status \in {408, 429} -> "Throttled"
    [] status \in 500..599   -> "Server"
    [] OTHER                 -> "Other"

\* FailureClass::of: the name decides where there is one.
Class(status, kind) ==
  CASE kind = "Unauthorized"           -> "Auth"
    [] kind = "Throttled"              -> "Throttled"
    [] kind \in {"Service", "Timeout"} -> "Server"
    [] OTHER                           -> ClassOfStatus(status, kind)

\* Mutant: every code is a kind.
KindForAny(code) == code

\* kind_for_code of each service.
Known == IF service = "azure" THEN Kinds \ {"NoSuchUpload"} ELSE Kinds \ {"AlreadyExists"}
KindFor(code) == IF code \in Known THEN code ELSE None

Verdict(name) == [verdict |-> name, kind |-> None, class |-> None]
NotFound(kind) == [verdict |-> "not_found", kind |-> kind, class |-> None]
ServiceFailure(status, kind) ==
  [verdict |-> "failure", kind |-> kind, class |-> Class(status, kind)]

\* container_failure_outcome!: the operations that name no object.
NamesNoObject ==
  op \in {"put", "put_from_url", "list", "delete_many", "create_upload", "create_session"}

\* Mutant: every 404 is a missing object.
FinishAny404(status, kind) ==
  IF status = 404 /\ ~NamesNoObject THEN NotFound(kind) ELSE ServiceFailure(status, kind)

\* finish_with_body
FinishWithBody(status, kind) ==
  IF status = 404 /\ kind # "NoSuchContainer" /\ ~NamesNoObject
    THEN NotFound(kind)
    ELSE ServiceFailure(status, kind)

-----------------------------------------------------------------------------
(* Conditions. *)

\* The operations that read the condition of their shape.
Conditional ==
  op \in Reads \cup {"put", "delete", "copy"} \cup
    IF service = "azure"
      THEN {"snapshot", "put_from_url", "commit_blocks", "set_metadata", "set_properties"}
      ELSE {"commit_parts"}

\* Mutant: a 412 is taken for the condition of any request.
RefusableAlways == TRUE

\* A read fails If-None-Match with 304, and any other request with 412.
Refusable == condition # "none" /\ ~(op \in Reads /\ condition = "IfNoneMatch")
FailsAsNotModified == op \in Reads /\ condition = "IfNoneMatch"

\* names_failed_condition and names_existing_object, for Azure.
NamesFailedCondition(status, kind) ==
  \/ status = 412 /\ Conditional /\ Refusable /\ kind = "Precondition"
  \/ /\ status = 409 /\ condition = "IfNoneMatch" /\ kind = "AlreadyExists"
     /\ op \in {"put", "copy", "put_from_url", "commit_blocks"}

-----------------------------------------------------------------------------
(* Heads. *)

S3Successes ==
  CASE op \in {"delete", "abort_upload"} -> IF service = "aws" THEN {204} ELSE {200, 204}
    [] op = "restore"                    -> {200, 202}
    [] OTHER                             -> {200}

AzureSuccesses ==
  CASE op \in {"put", "put_from_url", "snapshot", "stage_block", "commit_blocks"} -> {201}
    [] op \in {"delete", "copy", "delete_many"}                                   -> {202}
    [] op \in {"restore", "set_tier"}                                             -> {200, 202}
    [] op \in {"set_tags", "abort_copy"}                                          -> {204}
    [] OTHER                                                                      -> {200}

Successes == IF service = "azure" THEN AzureSuccesses ELSE S3Successes

\* Mutant: a 200 is the end of every operation.
LateNone == FALSE

\* The operations whose 200 is not the end.
Late == service # "azure" /\ op \in {"copy", "stage_part_copy", "commit_parts"}

\* The operations whose success reads nothing but its status.
Bare == op \in {"delete", "abort_upload", "stage_block", "put_tagging"}

AcceptSuccess ==
  IF op = "restore" THEN Verdict(IF head.status = 202 THEN "started" ELSE "done")
  ELSE IF service = "azure" /\ op = "copy"
    THEN Verdict(CASE head.states = "result"  -> "done"
                   [] head.states = "pending" -> "started"
                   [] head.states = "less"    -> "fault")
  ELSE IF head.states = "less" /\ ~Bare THEN Verdict("fault")
  ELSE Verdict(IF Late THEN "need_result_body" ELSE "done")

\* A whole read asks for no range, and is told so all the same.
Unsatisfiable == Verdict(IF head.states = "less" THEN "fault" ELSE "not_satisfiable")

\* read_failure_head of S3, and what a HEAD makes of it: it has no body.
AcceptS3Head ==
  CASE head.status \in S3Successes -> AcceptSuccess
    [] head.status = 304 /\ op \in Reads ->
         Verdict(IF FailsAsNotModified THEN "not_modified" ELSE "fault")
    [] head.status = 412 /\ Conditional ->
         Verdict(IF Refusable THEN "precondition_failed" ELSE "fault")
    [] head.status = 416 /\ op \in Reads -> Unsatisfiable
    [] head.status \in (200..299) \ S3Successes -> Verdict("fault")
    [] OTHER -> IF op = "head" THEN FinishWithBody(head.status, None)
                ELSE Verdict("need_error_body")

\* read_failure_head of Azure, which names an error in its head.
AzureFailureHead ==
  IF head.code = "absent"
    THEN IF op = "head" THEN FinishWithBody(head.status, None) ELSE Verdict("need_error_body")
  ELSE FinishWithBody(head.status, KindFor(head.code))

AcceptAzureHead ==
  CASE head.status \in AzureSuccesses -> AcceptSuccess
    [] head.status = 304 /\ op \in Reads ->
         Verdict(IF FailsAsNotModified THEN "not_modified" ELSE "fault")
    [] head.status = 416 /\ op \in Reads -> Unsatisfiable
    [] head.status \in (200..299) \ AzureSuccesses -> Verdict("fault")
    [] OTHER -> IF NamesFailedCondition(head.status, KindFor(head.code))
                  THEN Verdict("precondition_failed") ELSE AzureFailureHead

AcceptHead == IF service = "azure" THEN AcceptAzureHead ELSE AcceptS3Head

-----------------------------------------------------------------------------
(* Bodies. *)

\* accept_*_error_body: only Azure's conditions can still be named in it, and
\* accept_update_error_body does not look for one.
AcceptErrorBody(got) ==
  LET kind == KindFor(got.code)
  IN  IF /\ service = "azure"
         /\ op \notin {"set_metadata", "set_properties"}
         /\ NamesFailedCondition(head.status, kind)
        THEN Verdict("precondition_failed")
        ELSE FinishWithBody(head.status, kind)

\* What a late error becomes under another name than a failure.
LateNotFound == IF op = "copy" THEN "NotFound" ELSE "NoSuchUpload"

\* accept_copy_body, accept_stage_part_copy_body, accept_commit_parts_body
AcceptResultBody(got) ==
  LET kind == KindFor(got.code)
  IN  CASE got.doc = "result" -> Verdict("done")
        [] got.doc = "unread" -> Verdict("fault")
        [] got.doc = "error"  ->
             IF kind = "Precondition" /\ Conditional /\ condition # "none"
               THEN Verdict("precondition_failed")
             ELSE IF kind = LateNotFound THEN NotFound(kind)
             ELSE FinishWithBody(head.status, kind)

-----------------------------------------------------------------------------
(* The service, and the way of its answer. *)

Head(status, code, states) == [status |-> status, code |-> code, states |-> states]
Doc(doc, code) == [doc |-> doc, code |-> code]

\* What can happen to a request.
Happens(what) ==
  CASE what = "started" -> op = "restore" \/ (service = "azure" /\ op = "copy")
    [] what = "Precondition" -> condition # "none"
    [] what = "NotFound" ->
         \/ op \in {"get", "head", "delete", "snapshot", "copy", "put_from_url", "restore",
                    "stage_part_copy", "put_tagging", "get_tagging", "set_tier",
                    "set_metadata", "set_properties", "set_tags", "get_tags", "abort_copy"}
         \/ op \in {"put", "commit_parts"} /\ service # "azure" /\ condition = "IfMatch"
    [] what = "NoSuchUpload" ->
         op \in {"stage_part", "stage_part_copy", "commit_parts", "abort_upload", "list_parts"}
    [] what = "InvalidUpload" -> op \in {"commit_parts", "commit_blocks"}
    [] OTHER -> TRUE

\* The operations that S3 answers with 200 before they are done.
AnswersEarly == service # "azure" /\ op \in {"copy", "stage_part_copy", "commit_parts"}

\* How a service calls it: a status and a code.
CalledBy(what) ==
  CASE what = "Precondition" ->
         IF FailsAsNotModified THEN {<<304, "Precondition">>}
         ELSE {<<412, "Precondition">>} \cup
           (IF service = "azure" /\ condition = "IfNoneMatch"
                 /\ op \in {"put", "copy", "put_from_url", "commit_blocks"}
              THEN {<<409, "AlreadyExists">>} ELSE {})
    [] what = "NotFound"        -> {404} \X {"NotFound", "other"}
    [] what = "NoSuchContainer" -> {<<404, "NoSuchContainer">>}
    [] what = "NoSuchUpload"    -> {<<404, "NoSuchUpload">>}
    [] what = "Unauthorized"    -> {400, 401, 403} \X {"Unauthorized"}
    [] what = "Throttled"       -> {429, 503} \X {"Throttled"}
    [] what = "Timeout"         -> {<<IF service = "azure" THEN 500 ELSE 400, "Timeout">>}
    [] what = "Service"         -> {500, 503} \X {"Service"}
    [] what = "InvalidUpload"   -> {<<400, "InvalidUpload">>}
    [] what = "Refused"         ->
         ({400, 403, 409, 501} \cup IF service = "azure" THEN {412} ELSE {}) \X {"other"}

\* A proxy may take the header of Azure's code away.
Named(status, code) ==
  {Head(status, name, "result") : name \in IF service = "azure" THEN {code, "absent"} ELSE {"absent"}}

Answers(what) ==
  CASE what = "done" ->
         {<<Head(status, "absent", "result"), Doc("result", "absent")>> :
            status \in IF op = "restore" THEN {200} ELSE Successes}
    [] what = "started" ->
         {<<Head(202, "absent", IF op = "copy" THEN "pending" ELSE "result"), Doc("unread", "absent")>>}
    [] OTHER ->
         (UNION {Named(called[1], called[2]) \X {Doc("error", called[2])} : called \in CalledBy(what)})
         \cup (IF AnswersEarly THEN {<<Head(200, "absent", "result"), Doc("error", called[2])>> :
                               called \in CalledBy(what)} ELSE {})

Causes ==
  {"done", "started", "Precondition", "NotFound", "NoSuchContainer", "NoSuchUpload",
   "Unauthorized", "Throttled", "Timeout", "Service", "InvalidUpload", "Refused"}

\* What arrives of a body: all of it, or only its root, or nothing to read.
Cut == {Doc("unread", "absent")} \cup (IF body.doc = "error" THEN {Doc("error", "absent")} ELSE {})

-----------------------------------------------------------------------------

Init ==
  /\ service \in {"aws", "compatible", "azure"}
  /\ op \in IF service = "azure" THEN AzureOperations ELSE S3Operations
  /\ condition \in Conditions(service, op)
  /\ phase = "sent"
  /\ cause = "undecided"
  /\ head = Head(500, "absent", "less")
  /\ body = Doc("unread", "absent")
  /\ reading = "none"
  /\ result = Verdict("none")

\* The service acts, and answers as it should.
Serve ==
  /\ phase = "sent"
  /\ cause' \in {what \in Causes : Happens(what)}
  /\ \E answer \in Answers(cause') : head' = answer[1] /\ body' = answer[2]
  /\ phase' = "answered"
  /\ UNCHANGED <<request, reading, result>>

\* Any head arrives, with any body after it.
Answer ==
  /\ phase = "sent"
  /\ cause' = "anything"
  /\ head' \in Heads(IF service = "azure" THEN Codes ELSE {"absent"})
  /\ phase' = "answered"
  /\ UNCHANGED <<request, body, reading, result>>

\* The caller reads on only where it is told to.
Told(told) ==
  /\ phase' = CASE told.verdict = "need_error_body"  -> "error_body"
                [] told.verdict = "need_result_body" -> "result_body"
                [] OTHER                             -> "ended"
  /\ result' = IF phase' = "ended" THEN told ELSE result

ReadHead ==
  /\ phase = "answered"
  /\ Told(AcceptHead)
  /\ UNCHANGED <<request, cause, head, body, reading>>

\* The bodies that can arrive, and how.
Arrives(got, how) ==
  CASE how = "whole" -> IF cause = "anything" THEN got \in Bodies ELSE got = body
    [] how = "cut"   -> cause # "anything" /\ got \in Cut

ReadErrorBody ==
  /\ phase = "error_body"
  /\ \E got \in Bodies, how \in {"whole", "cut"} :
       /\ Arrives(got, how)
       /\ Told(AcceptErrorBody(got))
       /\ reading' = how
  /\ UNCHANGED <<request, cause, head, body>>

ReadResultBody ==
  /\ phase = "result_body"
  /\ \E got \in Bodies, how \in {"whole", "cut"} :
       /\ Arrives(got, how)
       /\ Told(AcceptResultBody(got))
       /\ reading' = how
  /\ UNCHANGED <<request, cause, head, body>>

Read == ReadHead \/ ReadErrorBody \/ ReadResultBody

Next == Serve \/ Answer \/ Read

\* An answer may never come.  A caller that has one reads it to its end: a
\* body that does not arrive is read as none.
Spec == Init /\ [][Next]_vars /\ WF_vars(Read)

-----------------------------------------------------------------------------
(* Properties. *)

Verdicts ==
  {"done", "started", "not_modified", "precondition_failed", "not_found", "not_satisfiable",
   "failure", "fault"}

Ended == phase = "ended"
Honest == cause \in Causes

\* The name of what happened reached the caller: in the head, or in a body
\* that arrived.  A HEAD has no body.
Heard ==
  Ended /\ IF reading = "none" THEN op # "head" \/ head.code # "absent"
           ELSE reading = "whole"

TypeOK ==
  /\ service \in {"aws", "compatible", "azure"}
  /\ op \in IF service = "azure" THEN AzureOperations ELSE S3Operations
  /\ condition \in Conditions(service, op)
  /\ phase \in {"sent", "answered", "error_body", "result_body", "ended"}
  /\ cause \in Causes \cup {"undecided", "anything"}
  /\ cause = "undecided" <=> phase = "sent"
  /\ head.status \in 100..599 /\ head.code \in Codes /\ head.states \in {"result", "pending", "less"}
  /\ body \in Bodies
  /\ reading \in {"none", "whole", "cut"}
  /\ Ended => result.verdict \in Verdicts /\ result.kind \in Known \cup {None}
  /\ ~Ended => result = Verdict("none") /\ reading = "none"

(***************************************************************************)
(* The exchange keeps its promise: what its caller is told is final, is    *)
(* told once the answer is there, and is true of what the service did,     *)
(* even when a 200 comes before the failure, or a body does not arrive.    *)
(***************************************************************************)
P == INSTANCE Promise WITH
       heard <- Heard,
       verdict <- result.verdict
Promised == P!Spec

\* What a caller is told of a cause whose name it heard.
Exact ==
  CASE cause \in {"done", "started"} -> Verdict(cause)
    [] cause = "Precondition" ->
         IF FailsAsNotModified THEN Verdict("not_modified")
         ELSE IF Conditional THEN Verdict("precondition_failed")
         ELSE [verdict |-> "failure", kind |-> cause, class |-> result.class]
    [] OTHER ->
         [verdict |-> IF cause \in {"NotFound", "NoSuchUpload"} /\ ~NamesNoObject
                        THEN "not_found" ELSE "failure",
          kind |-> IF body.code = "other" THEN None ELSE cause,
          class |-> result.class]

\* A missing object under a late 200, which only a copy knows, and by one
\* name.  An update of Azure whose failed condition only the body names.
LateMissing == head.status = 200 /\ cause = "NotFound"
UpdateBody ==
  reading = "whole" /\ cause = "Precondition" /\ op \in {"set_metadata", "set_properties"}

(***************************************************************************)
(* A caller that hears the name of what happened is told exactly that,     *)
(* the same whether the head names it, or the body, or a body under a 200, *)
(* and the same by both services.                                          *)
(***************************************************************************)
NamedIsExact ==
  Honest /\ Heard =>
    \/ result = Exact
    \/ LateMissing /\ ~(op = "copy" /\ body.code = "NotFound")
    \/ UpdateBody

(***************************************************************************)
(* The class of a failure tells a caller whether to try again: a cause     *)
(* that passes is Throttled or Server once it is heard, even under a 400   *)
(* or a 200, one that does not is neither, unless the service calls it its *)
(* own failure, and rejected credentials are Auth under any status.        *)
(***************************************************************************)
ClassIsOfTheCause ==
  Honest /\ Ended /\ result.verdict = "failure" =>
    /\ Heard /\ cause \in {"Throttled", "Timeout", "Service"} =>
         result.class \in {"Throttled", "Server"}
    /\ result.class \in {"Throttled", "Server"} =>
         cause \in {"Throttled", "Timeout", "Service"} \/ head.status \in 500..599
    /\ Heard /\ cause = "Unauthorized" => result.class = "Auth"

(***************************************************************************)
(* "A conditional status the request did not ask for is a contradiction,   *)
(* not an outcome" (azure/mod.rs): whatever head and body answer, no       *)
(* caller is told of a condition that its request did not carry, or that   *)
(* cannot fail in that way.                                                *)
(***************************************************************************)
UnaskedIsNoOutcome ==
  /\ result.verdict = "not_modified" => op \in Reads /\ condition = "IfNoneMatch"
  /\ result.verdict = "precondition_failed" =>
       condition # "none" /\ (op \in Reads => condition = "IfMatch")

(***************************************************************************)
(* "A caller must never read a missing container as a missing object"      *)
(* (outcome.rs).  The HEAD of S3 is a documented exception; what is left   *)
(* of it is false when the body of a 404 does not arrive.                  *)
(***************************************************************************)
ContainerIsNoObject ==
  cause = "NoSuchContainer" /\ op # "head" => result.verdict # "not_found"

(***************************************************************************)
(* "A directory bucket reports under status 200 what a general purpose     *)
(* bucket reports under 404 or 412, so those become the same outcomes"     *)
(* (s3/parts.rs), of a commit whose error arrives whole.  It is false for  *)
(* the missing object of an If-Match.                                      *)
(***************************************************************************)
LateIsAlike ==
  Honest /\ Heard /\ op = "commit_parts"
      /\ body.code \in {"NotFound", "NoSuchUpload", "NoSuchContainer", "Precondition"} =>
    result.verdict = Exact.verdict

=============================================================================
