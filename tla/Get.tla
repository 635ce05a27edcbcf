-------------------------------- MODULE Get ---------------------------------
(***************************************************************************)
(* A ranged read: the range as a request carries it, what a service        *)
(* answers, and the window of the object that the head of the answer is    *)
(* read as (head.rs, and accept_get_head of s3 and of azure).              *)
(*                                                                         *)
(* A service that keeps the protocol serves what the range holds of the    *)
(* object as it is then.  Any other answer can come too: from a service    *)
(* that does not, or through a cache that answers another request.         *)
(*                                                                         *)
(* Numbers in a head are text, and may be past u64.  In place of a number, *)
(* Unknown stands for one that is not stated, such as the total of         *)
(* `bytes 0-4/*`.                                                          *)
(***************************************************************************)
EXTENDS Integers

CONSTANTS
  MaxU64,     \* the largest u64
  Stated,     \* the numbers that a head may state
  Sizes       \* the sizes that the object may have

ASSUME GetAssumption ==
  /\ MaxU64 \in Nat \ {0}
  /\ Stated \subseteq Nat
  /\ Sizes \subseteq 0..MaxU64 - 1

Unknown == -1
Services == {"aws", "compatible", "azure"}
Statuses == {200, 206, 204, 304, 404, 412, 416, 500}

\* RequestedRange: a bounded one excludes its end.
Whole == [form |-> "whole", start |-> 0, end |-> 0]
Bounded(start, end) == [form |-> "bounded", start |-> start, end |-> end]
From(start) == [form |-> "offset", start |-> start, end |-> 0]
Suffix(last) == [form |-> "suffix", start |-> last, end |-> 0]
Number == 0..MaxU64
Range ==
  {Whole} \cup {From(start) : start \in Number} \cup {Suffix(last) : last \in Number}
    \cup {Bounded(start, end) : start \in Number, end \in Number}

\* Content-Range: absent, unreadable, or one of its two forms.
Totals == Stated \cup {Unknown}
NoRange == [form |-> "none"]
Unreadable == [form |-> "unreadable"]
Unsatisfied(total) == [form |-> "unsatisfied", total |-> total]
Satisfied(start, end, total) ==
  [form |-> "satisfied", start |-> start, end |-> end, total |-> total]
ContentRange ==
  {NoRange, Unreadable} \cup {Unsatisfied(total) : total \in Totals}
    \cup {Satisfied(start, end, total) : start \in Stated, end \in Stated, total \in Totals}

\* The head of an answer, without what names an error.
Head(status, length, range) == [status |-> status, length |-> length, range |-> range]

VARIABLES
  service,    \* who is asked
  kind,       \* GetKind: "bytes" or "head"
  condition,  \* how the condition fails: "none", "not modified" or "refused"
  range,      \* what is asked for
  phase,      \* "asking", "asked", "answered" or "read"
  size,       \* the object's size when an honest service served it, or Unknown
  head,       \* the head of the answer
  result      \* what the head was read as

vars == <<service, kind, condition, range, phase, size, head, result>>
shape == <<service, kind, condition, range>>

Fault(fault) == [verdict |-> "fault", fault |-> fault]
Outcome(name) == [verdict |-> name]
Unsatisfiable(total) == [verdict |-> "not satisfiable", size |-> total]
Complete(total) == [verdict |-> "complete", size |-> total]
Body(offset, length, total) ==
  [verdict |-> "body", offset |-> offset, length |-> length, size |-> total]

Least(a, b) == IF a <= b THEN a ELSE b
Less(a, b) == IF a > b THEN a - b ELSE 0        \* saturating_sub

-----------------------------------------------------------------------------
(* The request. *)

\* validate_get_item, for a template that asks for ranges when the item does,
\* and what the template of each service refuses besides.
Askable(theKind, theRange, theService) ==
  /\ theRange.form = "bounded" => theRange.start < theRange.end
  /\ theRange.form = "suffix" => theRange.start # 0 /\ theService # "azure"
  /\ theKind = "head" => theRange.form = "whole"

\* Mutant: the end of the range is sent as its last byte.
SentWithEnd(theRange) ==
  CASE theRange.form = "bounded" -> [form |-> "closed", first |-> theRange.start, last |-> theRange.end]
    [] theRange.form = "offset"  -> [form |-> "open", first |-> theRange.start]
    [] theRange.form = "suffix"  -> [form |-> "last", count |-> theRange.start]
    [] theRange.form = "whole"   -> [form |-> "none"]

\* write_range: `bytes=first-last`, which includes its last byte.
Sent(theRange) ==
  CASE theRange.form = "bounded" -> [form |-> "closed", first |-> theRange.start, last |-> theRange.end - 1]
    [] theRange.form = "offset"  -> [form |-> "open", first |-> theRange.start]
    [] theRange.form = "suffix"  -> [form |-> "last", count |-> theRange.start]
    [] theRange.form = "whole"   -> [form |-> "none"]

-----------------------------------------------------------------------------
(* The service: what it serves of an object of n bytes. *)

ServedFrom(sent, n) ==
  CASE sent.form \in {"closed", "open"} -> sent.first
    [] sent.form = "last"               -> Less(n, sent.count)
    [] sent.form = "none"               -> 0

ServedTo(sent, n) == IF sent.form = "closed" THEN Least(sent.last, n - 1) ELSE n - 1

CanServe(sent, n) == n > 0 /\ ServedFrom(sent, n) <= n - 1

\* AWS and Azure state every length; another service may leave one out.
StatedBy(theService, n) == IF theService = "compatible" THEN {n, Unknown} ELSE {n}

HonestHeads(theService, theRange, n) ==
  LET sent == Sent(theRange)
      first == ServedFrom(sent, n)
      last == ServedTo(sent, n)
  IN  IF theRange.form = "whole"
        THEN {Head(200, length, NoRange) : length \in StatedBy(theService, n)}
      ELSE IF CanServe(sent, n)
        THEN {Head(206, length, Satisfied(first, last, total)) :
                length \in StatedBy(theService, last - first + 1),
                total \in StatedBy(theService, n)}
      ELSE {Head(416, Unknown, Unsatisfied(total)) : total \in StatedBy(theService, n)}

-----------------------------------------------------------------------------
(* Reading the head. *)

\* Mutant: the reading of a number wraps instead of refusing.
ReadableAll(number) == TRUE

\* parse_decimal: a number past u64 is none.
Readable(number) == number = Unknown \/ number <= MaxU64

\* Mutant: a range without a total may end at the last u64.
ParsedToTheLast(value) ==
  CASE value.form = "unsatisfied" /\ Readable(value.total) -> value
    [] /\ value.form = "satisfied"
       /\ Readable(value.start) /\ Readable(value.end) /\ Readable(value.total)
       /\ value.start <= value.end
       /\ value.total # Unknown => value.end < value.total -> value
    [] OTHER -> Unreadable

\* parse_content_range: start <= end < total, and end < u64::MAX.
Parsed(value) ==
  CASE value.form = "unsatisfied" /\ Readable(value.total) -> value
    [] /\ value.form = "satisfied"
       /\ Readable(value.start) /\ Readable(value.end) /\ Readable(value.total)
       /\ value.start <= value.end
       /\ value.end < (IF value.total = Unknown THEN MaxU64 ELSE value.total) -> value
    [] OTHER -> Unreadable

\* Where the range starts in an object of `total` bytes: only a suffix needs it.
RequestedStart(theRange, total) ==
  IF theRange.form = "suffix" THEN Less(total, theRange.start) ELSE theRange.start

\* Mutant: a bounded range is matched as an offset is.
SatisfiableToTheEnd(theRange, total) == total

\* Where the range ends in an object of `total` bytes.
Satisfiable(theRange, total) ==
  IF theRange.form = "bounded" THEN Least(theRange.end, total) ELSE total

\* accept_get_success, for status 206.  What makes the head unreadable is
\* looked at before what makes it the answer to another request.
Length(served) == served.end - served.start + 1

Misread(answer) ==
  LET served == Parsed(answer.range)
  IN  \/ ~Readable(answer.length)
      \/ served.form # "satisfied"
      \/ answer.length \notin {Unknown, Length(served)}

OtherRange(theRange, served) ==
  \/ theRange.form = "whole"
  \/ theRange.form = "suffix" /\ served.total = Unknown
  \/ served.start # RequestedStart(theRange, served.total)
  \/ served.total # Unknown /\ served.end + 1 # Satisfiable(theRange, served.total)

AcceptPartial(theRange, answer) ==
  LET served == Parsed(answer.range)
  IN  IF Misread(answer) THEN Fault("head")
      ELSE IF OtherRange(theRange, served) THEN Fault("range")
      ELSE Body(served.start, Length(served), served.total)

\* accept_get_success, for status 200: the length is the window and the size.
AcceptWhole(theKind, answer) ==
  IF ~Readable(answer.length) THEN Fault("head")
  ELSE IF theKind = "head" THEN Complete(answer.length)
  ELSE Body(0, answer.length, answer.length)

AcceptUnsatisfiable(answer) ==
  IF answer.range = NoRange THEN Unsatisfiable(Unknown)
  ELSE IF Parsed(answer.range).form = "unsatisfied" THEN Unsatisfiable(answer.range.total)
  ELSE Fault("head")

\* The success of another request: of one with a range, or of one without.
Mismatched(theService, theRange, answer) ==
  \/ answer.status = 206 /\ theRange.form = "whole"
  \/ answer.status = 200 /\ theRange.form # "whole"
  \/ answer.status = 206 /\ theService = "azure" /\ theRange.form = "suffix"

\* accept_get_head of both services.  What else the head or the body says of an
\* error is not modelled.
AcceptGetHead(theService, theKind, theCondition, theRange, answer) ==
  IF Mismatched(theService, theRange, answer) THEN Fault("range")
  ELSE IF answer.status \in {200, 206} /\ theService = "aws" /\ answer.length = Unknown
    THEN Fault("head")
  ELSE CASE answer.status = 200 -> AcceptWhole(theKind, answer)
         [] answer.status = 206 -> AcceptPartial(theRange, answer)
         [] answer.status = 204 -> Fault("status")
         [] answer.status = 304 -> IF theCondition = "not modified" THEN Outcome("not modified")
                                   ELSE Fault("status")
         [] answer.status = 412 /\ theService # "azure" ->
              IF theCondition = "refused" THEN Outcome("precondition failed")
              ELSE Fault("status")
         [] answer.status = 416 -> AcceptUnsatisfiable(answer)
         [] OTHER -> Outcome("failure")

-----------------------------------------------------------------------------

Init ==
  /\ service \in Services
  /\ kind \in {"bytes", "head"}
  /\ condition \in {"none", "not modified", "refused"}
  /\ range \in Range
  /\ phase = "asking"
  /\ size = Unknown
  /\ head = Head(500, Unknown, NoRange)
  /\ result = Outcome("none")

\* encode_get: the request is written, or refused.
Encode ==
  /\ phase = "asking"
  /\ phase' = IF Askable(kind, range, service) THEN "asked" ELSE "read"
  /\ result' = IF Askable(kind, range, service) THEN result ELSE Outcome("refused")
  /\ UNCHANGED <<shape, size, head>>

\* The service serves the object, whose condition holds.
Serve ==
  /\ phase = "asked"
  /\ size' \in Sizes
  /\ head' \in HonestHeads(service, range, size')
  /\ phase' = "answered"
  /\ UNCHANGED <<shape, result>>

\* Content-Range is read under two statuses only.
Heads ==
  [status: {206, 416}, length: Totals, range: ContentRange]
    \cup [status: Statuses \ {206, 416}, length: Totals, range: {NoRange}]

\* Any head at all, to a request or to a shape that no encoder has seen.
Answer ==
  /\ phase \in {"asking", "asked"}
  /\ head' \in Heads
  /\ phase' = "answered"
  /\ UNCHANGED <<shape, size, result>>

Accept ==
  /\ phase = "answered"
  /\ result' = AcceptGetHead(service, kind, condition, range, head)
  /\ phase' = "read"
  /\ UNCHANGED <<shape, size, head>>

Next == Encode \/ Serve \/ Answer \/ Accept

Spec == Init /\ [][Next]_vars

-----------------------------------------------------------------------------
(* Properties. *)

Read(verdict) == phase = "read" /\ result.verdict = verdict
Partial == Read("body") /\ range.form # "whole"

\* What the caller asks of an object of n bytes, as a half-open interval.
AskedFrom(n) == IF range.form = "suffix" THEN Less(n, range.start) ELSE range.start
AskedTo(n) == IF range.form = "bounded" THEN Least(range.end, n) ELSE n

TypeOK ==
  /\ service \in Services
  /\ kind \in {"bytes", "head"}
  /\ condition \in {"none", "not modified", "refused"}
  /\ range \in Range
  /\ phase \in {"asking", "asked", "answered", "read"}
  /\ size \in Sizes \cup {Unknown}
  /\ head.status \in Statuses
  /\ result.verdict = "body" =>
       result.offset \in Number /\ result.length \in Number \cup {Unknown}
         /\ result.size \in Number \cup {Unknown}

(***************************************************************************)
(* Whatever the head says, the window of a body is what the caller asked   *)
(* of an object of the size that the head states: not a byte less ("a      *)
(* short serve is a mismatch"), nor more, nor elsewhere.                   *)
(***************************************************************************)
WindowIsAskedFor ==
  Partial /\ result.size # Unknown =>
    /\ result.offset = AskedFrom(result.size)
    /\ result.offset + result.length = AskedTo(result.size)

(***************************************************************************)
(* A window holds a byte at least, ends within u64 and within the object,  *)
(* and starts where the caller asked, even when no size is stated.         *)
(***************************************************************************)
WindowRepresentable ==
  Partial =>
    /\ result.length >= 1
    /\ result.offset + result.length <= MaxU64
    /\ result.size # Unknown => result.offset + result.length <= result.size
    /\ range.form # "suffix" => result.offset = range.start
    /\ head.length \in {Unknown, result.length}

(***************************************************************************)
(* A service that keeps the protocol is understood: the body of a range    *)
(* that holds a byte of the object is read as that part of the object, as  *)
(* the service saw it, and a range that holds none as not satisfiable.     *)
(* Only a suffix of an object whose size is left out cannot be placed.     *)
(***************************************************************************)
HonestAnswerIsRead ==
  phase = "read" /\ size # Unknown =>
    CASE range.form = "whole" ->
           result = IF kind = "head" THEN Complete(head.length)
                    ELSE Body(0, head.length, head.length)
      [] range.form # "whole" /\ AskedFrom(size) < AskedTo(size) ->
           IF range.form = "suffix" /\ head.range.total = Unknown
             THEN result = Fault("range")
             ELSE /\ result.verdict = "body"
                  /\ result.offset = AskedFrom(size)
                  /\ result.offset + result.length = AskedTo(size)
      [] OTHER -> result = Unsatisfiable(head.range.total)

(***************************************************************************)
(* "The window of the object that the body holds, which must be the range  *)
(* that was asked for" (head.rs): a bounded read gets no byte past its     *)
(* end.  It is false for a head that leaves the size out.                  *)
(***************************************************************************)
NothingPastTheEnd ==
  Read("body") /\ Askable(kind, range, service) /\ range.form = "bounded" =>
    result.offset + result.length <= range.end
=============================================================================
