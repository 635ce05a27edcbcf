----------------------------- MODULE GetProofs ------------------------------
(***************************************************************************)
(* What is proved of ranged reads, for every width of a number, every set  *)
(* of stated numbers and every set of sizes.                               *)
(*                                                                         *)
(* The argument is one invariant: a read that is over was read from a head *)
(* that is either honest or anything at all, by AcceptGetHead.  The rest   *)
(* are facts about AcceptGetHead.                                          *)
(***************************************************************************)
EXTENDS Get, TLAPS

\* What any Content-Range is, with numbers of any size.
AnyTotal == Nat \cup {Unknown}
AnyRange ==
  {NoRange, Unreadable} \cup {Unsatisfied(total) : total \in AnyTotal}
    \cup {Satisfied(start, end, total) : start \in Nat, end \in Nat, total \in AnyTotal}
AnyHead == [status: Statuses, length: AnyTotal, range: AnyRange]

Shaped ==
  /\ service \in Services
  /\ kind \in {"bytes", "head"}
  /\ condition \in {"none", "not modified", "refused"}
  /\ range \in Range
  /\ phase \in {"asking", "asked", "answered", "read"}
  /\ size \in Sizes \cup {Unknown}
  /\ head \in AnyHead

\* A request that was sent passed the encoder's checks.
Checked == phase = "asked" => Askable(kind, range, service)

\* A head that states what a service saw is the head of an honest service.
Honest ==
  /\ phase \in {"asking", "asked"} => size = Unknown
  /\ size # Unknown =>
       Askable(kind, range, service) /\ head \in HonestHeads(service, range, size)

Resulting ==
  /\ phase # "read" => result = Outcome("none")
  /\ phase = "read" =>
       \/ size = Unknown /\ result = Outcome("refused")
       \/ result = AcceptGetHead(service, kind, condition, range, head)

Inductive == Shaped /\ Checked /\ Honest /\ Resulting

-----------------------------------------------------------------------------
(* Facts about the operators. *)

(***************************************************************************)
(* A range has one of four forms, with numbers of u64.                     *)
(***************************************************************************)
LEMMA RangeForms ==
  ASSUME NEW r \in Range
  PROVE  /\ r.form \in {"whole", "bounded", "offset", "suffix"}
         /\ r.start \in Number
         /\ r.end \in Number
         /\ r.form = "whole" <=> r = Whole
         /\ r.form \in {"whole", "offset"} => r.end = 0
BY GetAssumption DEF Range, Whole, From, Suffix, Bounded, Number

(***************************************************************************)
(* A Content-Range that is read as satisfied is what it states, in order   *)
(* and within u64 and the object.                                          *)
(***************************************************************************)
LEMMA ParsedSatisfied ==
  ASSUME NEW value \in AnyRange, Parsed(value).form = "satisfied"
  PROVE  /\ Parsed(value) = value
         /\ value.start \in Nat
         /\ value.end \in Nat
         /\ value.total \in AnyTotal
         /\ value.start <= value.end
         /\ value.end < MaxU64
         /\ value.total # Unknown => value.end < value.total /\ value.total <= MaxU64
<1>1. CASE \E start \in Nat, end \in Nat, total \in AnyTotal : value = Satisfied(start, end, total)
  <2>1. PICK start \in Nat, end \in Nat, total \in AnyTotal : value = Satisfied(start, end, total)
    BY <1>1
  <2>2. /\ value.form = "satisfied" /\ value.start = start /\ value.end = end
        /\ value.total = total
    BY <2>1 DEF Satisfied
  <2>3. /\ Readable(value.start) /\ Readable(value.end) /\ Readable(value.total)
        /\ value.start <= value.end
        /\ value.end < (IF value.total = Unknown THEN MaxU64 ELSE value.total)
        /\ Parsed(value) = value
    BY <2>2 DEF Parsed, Unreadable
  <2>4. QED
    BY <2>1, <2>2, <2>3, GetAssumption DEF Readable, AnyTotal, Unknown
<1>2. CASE value \in {NoRange, Unreadable} \/ \E total \in AnyTotal : value = Unsatisfied(total)
  <2>1. value.form # "satisfied"
    BY <1>2 DEF NoRange, Unreadable, Unsatisfied
  <2>2. Parsed(value).form # "satisfied"
    BY <2>1 DEF Parsed, Unreadable
  <2>3. QED
    BY <2>2
<1>3. QED
  BY <1>1, <1>2 DEF AnyRange

(***************************************************************************)
(* The outcomes that are not a body are told apart from it by their        *)
(* verdict.                                                                *)
(***************************************************************************)
LEMMA NoBody ==
  /\ \A fault : Fault(fault).verdict = "fault"
  /\ \A name : Outcome(name).verdict = name
  /\ \A total : Unsatisfiable(total).verdict = "not satisfiable"
  /\ \A total : Complete(total).verdict = "complete"
  /\ \A offset, length, total :
       /\ Body(offset, length, total).verdict = "body"
       /\ Body(offset, length, total).offset = offset
       /\ Body(offset, length, total).length = length
       /\ Body(offset, length, total).size = total
BY DEF Fault, Outcome, Unsatisfiable, Complete, Body

(***************************************************************************)
(* A body comes of a 200 to a read of the whole object, or of a 206 that   *)
(* was neither misread nor of another range.                               *)
(***************************************************************************)
LEMMA BodyOf ==
  ASSUME NEW s \in Services, NEW k, NEW c, NEW r \in Range, NEW answer \in AnyHead,
         AcceptGetHead(s, k, c, r, answer).verdict = "body"
  PROVE  \/ /\ r.form = "whole"
            /\ Readable(answer.length)
            /\ AcceptGetHead(s, k, c, r, answer) = Body(0, answer.length, answer.length)
         \/ /\ r.form # "whole"
            /\ ~Misread(answer)
            /\ ~OtherRange(r, Parsed(answer.range))
            /\ AcceptGetHead(s, k, c, r, answer) =
                 Body(Parsed(answer.range).start, Length(Parsed(answer.range)),
                      Parsed(answer.range).total)
<1> DEFINE read == AcceptGetHead(s, k, c, r, answer)
<1>1. ~Mismatched(s, r, answer)
  BY NoBody DEF AcceptGetHead
<1>2. ~(answer.status \in {200, 206} /\ s = "aws" /\ answer.length = Unknown)
  BY <1>1, NoBody DEF AcceptGetHead
<1>3. answer.status \in Statuses
  BY DEF AnyHead
<1>4. CASE answer.status = 200
  <2>1. read = AcceptWhole(k, answer)
    BY <1>1, <1>2, <1>4 DEF AcceptGetHead
  <2>2. r.form = "whole"
    BY <1>1, <1>4 DEF Mismatched
  <2>3. QED
    BY <2>1, <2>2, NoBody DEF AcceptWhole
<1>5. CASE answer.status = 206
  <2>1. read = AcceptPartial(r, answer)
    BY <1>1, <1>2, <1>5 DEF AcceptGetHead
  <2>2. r.form # "whole"
    BY <1>1, <1>5 DEF Mismatched
  <2>3. QED
    BY <2>1, <2>2, NoBody DEF AcceptPartial
<1>6. CASE answer.status \notin {200, 206}
  <2>1. read \in {Fault("status"), Outcome("not modified"), Outcome("precondition failed"),
                  AcceptUnsatisfiable(answer), Outcome("failure")}
    BY <1>1, <1>3, <1>6 DEF AcceptGetHead, Statuses
  <2>2. AcceptUnsatisfiable(answer).verdict # "body"
    BY NoBody DEF AcceptUnsatisfiable
  <2>3. QED
    BY <2>1, <2>2, NoBody
<1>7. QED
  BY <1>4, <1>5, <1>6

(***************************************************************************)
(* The window of a partial body, in the terms of what the head states.     *)
(***************************************************************************)
LEMMA PartialBody ==
  ASSUME NEW s \in Services, NEW k, NEW c, NEW r \in Range, NEW answer \in AnyHead,
         r.form # "whole",
         AcceptGetHead(s, k, c, r, answer).verdict = "body"
  PROVE  LET read == AcceptGetHead(s, k, c, r, answer)
             served == answer.range
         IN  /\ served.start \in Nat /\ served.end \in Nat /\ served.total \in AnyTotal
             /\ served.start <= served.end /\ served.end < MaxU64
             /\ served.total # Unknown =>
                  served.end < served.total /\ served.total <= MaxU64
             /\ read = Body(served.start, served.end - served.start + 1, served.total)
             /\ answer.length \in {Unknown, served.end - served.start + 1}
             /\ ~OtherRange(r, served)
<1>1. /\ ~Misread(answer)
      /\ ~OtherRange(r, Parsed(answer.range))
      /\ AcceptGetHead(s, k, c, r, answer) =
           Body(Parsed(answer.range).start, Length(Parsed(answer.range)),
                Parsed(answer.range).total)
  BY BodyOf
<1>2. Parsed(answer.range).form = "satisfied"
  BY <1>1 DEF Misread
<1>3. answer.range \in AnyRange
  BY DEF AnyHead
<1>4. QED
  BY <1>1, <1>2, <1>3, ParsedSatisfied DEF Misread, Length

-----------------------------------------------------------------------------
(* The invariant. *)

(***************************************************************************)
(* The heads that are enumerated are heads.                                *)
(***************************************************************************)
LEMMA HeadsAreHeads == Heads \subseteq AnyHead
<1>1. Totals \subseteq AnyTotal
  BY GetAssumption DEF Totals, AnyTotal
<1>2. ContentRange \subseteq AnyRange
  BY <1>1, GetAssumption DEF ContentRange, AnyRange
<1>3. QED
  BY <1>1, <1>2 DEF Heads, AnyHead, Statuses, ContentRange

(***************************************************************************)
(* What an honest service answers is a head, and it states the part of the *)
(* object that was asked for.                                              *)
(***************************************************************************)
LEMMA HonestHead ==
  ASSUME NEW s \in Services, NEW r \in Range, NEW n \in Sizes,
         Askable("bytes", r, s) \/ Askable("head", r, s),
         NEW answer \in HonestHeads(s, r, n)
  PROVE  answer \in AnyHead
<1>1. n \in Nat
  BY GetAssumption
<1>2. StatedBy(s, n) \subseteq AnyTotal
  BY <1>1 DEF StatedBy, AnyTotal
<1>3. CASE r.form = "whole"
  <2>1. PICK length \in StatedBy(s, n) : answer = Head(200, length, NoRange)
    BY <1>3 DEF HonestHeads
  <2>2. QED
    BY <1>2, <2>1 DEF Head, AnyHead, Statuses, AnyRange
<1>4. CASE r.form # "whole" /\ CanServe(Sent(r), n)
  <2> DEFINE first == ServedFrom(Sent(r), n)
             last == ServedTo(Sent(r), n)
  <2>1. first \in Nat /\ last \in Nat /\ last - first + 1 \in Nat
    <3>1. CASE r.form = "bounded"
      <4>1. r.start \in Nat /\ r.end \in Nat /\ r.start < r.end
        BY <3>1, RangeForms DEF Askable, Number
      <4>2. Sent(r) = [form |-> "closed", first |-> r.start, last |-> r.end - 1]
        BY <3>1 DEF Sent
      <4>3. first = r.start /\ last = Least(r.end - 1, n - 1) /\ n > 0 /\ r.start <= n - 1
        BY <1>4, <4>2 DEF ServedFrom, ServedTo, CanServe
      <4>4. QED
        BY <1>1, <4>1, <4>3 DEF Least
    <3>2. CASE r.form = "offset"
      <4>1. r.start \in Nat
        BY RangeForms DEF Number
      <4>2. Sent(r) = [form |-> "open", first |-> r.start]
        BY <3>2 DEF Sent
      <4>3. first = r.start /\ last = n - 1 /\ n > 0 /\ r.start <= n - 1
        BY <1>4, <4>2 DEF ServedFrom, ServedTo, CanServe
      <4>4. QED
        BY <1>1, <4>1, <4>3
    <3>3. CASE r.form = "suffix"
      <4>1. r.start \in Nat
        BY RangeForms DEF Number
      <4>2. Sent(r) = [form |-> "last", count |-> r.start]
        BY <3>3 DEF Sent
      <4>3. first = Less(n, r.start) /\ last = n - 1 /\ n > 0 /\ first <= n - 1
        BY <1>4, <4>2 DEF ServedFrom, ServedTo, CanServe
      <4>4. QED
        BY <1>1, <4>1, <4>3 DEF Less
    <3>4. QED
      BY <1>4, <3>1, <3>2, <3>3, RangeForms
  <2>2. StatedBy(s, last - first + 1) \subseteq AnyTotal
    BY <2>1 DEF StatedBy, AnyTotal
  <2>3. PICK length \in StatedBy(s, last - first + 1), total \in StatedBy(s, n) :
          answer = Head(206, length, Satisfied(first, last, total))
    BY <1>4 DEF HonestHeads
  <2>4. Satisfied(first, last, total) \in AnyRange
    BY <1>2, <2>1 DEF AnyRange
  <2>5. QED
    BY <2>2, <2>3, <2>4 DEF Head, AnyHead, Statuses
<1>5. CASE r.form # "whole" /\ ~CanServe(Sent(r), n)
  <2>1. PICK total \in StatedBy(s, n) : answer = Head(416, Unknown, Unsatisfied(total))
    BY <1>5 DEF HonestHeads
  <2>2. Unsatisfied(total) \in AnyRange /\ Unknown \in AnyTotal
    BY <1>2 DEF AnyRange, AnyTotal
  <2>3. QED
    BY <2>1, <2>2 DEF Head, AnyHead, Statuses
<1>6. QED
  BY <1>3, <1>4, <1>5

(***************************************************************************)
(* The invariant holds of the initial states.                              *)
(***************************************************************************)
LEMMA InductiveInit == Init => Inductive
<1>1. ASSUME Init PROVE Shaped
  <2>1. Head(500, Unknown, NoRange) \in AnyHead
    BY DEF Head, AnyHead, Statuses, AnyTotal, AnyRange
  <2>2. QED
    BY <1>1, <2>1 DEF Init, Shaped
<1>2. QED
  BY <1>1 DEF Init, Inductive, Checked, Honest, Resulting

(***************************************************************************)
(* Every step keeps the invariant.                                         *)
(***************************************************************************)
LEMMA InductiveStep == Inductive /\ [Next]_vars => Inductive'
<1> SUFFICES ASSUME Inductive, [Next]_vars PROVE Inductive'
  OBVIOUS
<1> USE DEF Inductive
<1>1. CASE Encode
  <2>1. Shaped'
    BY <1>1 DEF Encode, Shaped, shape
  <2>2. Checked'
    BY <1>1 DEF Encode, Checked, shape
  <2>3. Honest' /\ Resulting'
    BY <1>1 DEF Encode, Honest, Resulting, shape
  <2>4. QED
    BY <2>1, <2>2, <2>3
<1>2. CASE Serve
  <2>1. /\ Askable(kind, range, service) /\ size' \in Sizes
        /\ head' \in HonestHeads(service, range, size') /\ UNCHANGED <<shape, result>>
        /\ phase = "asked" /\ phase' = "answered"
    BY <1>2 DEF Serve, Checked
  <2>2. head' \in AnyHead
    <3>1. Askable("bytes", range, service) \/ Askable("head", range, service)
      BY <2>1 DEF Shaped
    <3>2. QED
      BY <2>1, <3>1, HonestHead DEF Shaped
  <2>3. Shaped'
    BY <2>1, <2>2 DEF Shaped, shape
  <2>4. Checked' /\ Honest' /\ Resulting'
    BY <2>1 DEF Checked, Honest, Resulting, shape
  <2>5. QED
    BY <2>3, <2>4
<1>3. CASE Answer
  <2>1. head' \in AnyHead
    BY <1>3, HeadsAreHeads DEF Answer
  <2>2. Shaped'
    BY <1>3, <2>1 DEF Answer, Shaped, shape
  <2>3. Checked' /\ Honest' /\ Resulting'
    BY <1>3 DEF Answer, Checked, Honest, Resulting, shape
  <2>4. QED
    BY <2>2, <2>3
<1>4. CASE Accept
  <2>1. Shaped'
    BY <1>4 DEF Accept, Shaped, shape
  <2>2. Checked' /\ Honest' /\ Resulting'
    BY <1>4 DEF Accept, Checked, Honest, Resulting, shape
  <2>3. QED
    BY <2>1, <2>2
<1>5. CASE UNCHANGED vars
  BY <1>5 DEF vars, Shaped, Checked, Honest, Resulting
<1>6. QED
  BY <1>1, <1>2, <1>3, <1>4, <1>5 DEF Next

(***************************************************************************)
(* The invariant holds throughout.                                         *)
(***************************************************************************)
THEOREM AlwaysInductive == Spec => []Inductive
BY InductiveInit, InductiveStep, PTL DEF Spec

-----------------------------------------------------------------------------
(* The properties. *)

(***************************************************************************)
(* What was read as a body was read by AcceptGetHead.                      *)
(***************************************************************************)
LEMMA ReadAsBody ==
  ASSUME Inductive, result.verdict = "body"
  PROVE  /\ phase = "read"
         /\ result = AcceptGetHead(service, kind, condition, range, head)
BY NoBody DEF Inductive, Resulting

(***************************************************************************)
(* Numbers that are read stay within u64.                                  *)
(***************************************************************************)
LEMMA TypeOfInductive == Inductive => TypeOK
<1> SUFFICES ASSUME Inductive PROVE TypeOK
  OBVIOUS
<1>1. ASSUME result.verdict = "body"
      PROVE  /\ result.offset \in Number
             /\ result.length \in Number \cup {Unknown}
             /\ result.size \in Number \cup {Unknown}
  <2>1. /\ service \in Services /\ range \in Range /\ head \in AnyHead
        /\ result = AcceptGetHead(service, kind, condition, range, head)
    BY <1>1, ReadAsBody DEF Inductive, Shaped
  <2>2. CASE range.form = "whole"
    <3>1. Readable(head.length) /\ result = Body(0, head.length, head.length)
      BY <1>1, <2>1, <2>2, BodyOf
    <3>2. head.length \in Number \cup {Unknown}
      BY <2>1, <3>1, GetAssumption DEF Readable, AnyHead, AnyTotal, Number
    <3>3. QED
      BY <3>1, <3>2, GetAssumption DEF Number, Body
  <2>3. CASE range.form # "whole"
    <3> DEFINE served == head.range
    <3>1. /\ served.start \in Nat /\ served.end \in Nat /\ served.total \in AnyTotal
          /\ served.start <= served.end /\ served.end < MaxU64
          /\ served.total # Unknown => served.total <= MaxU64
          /\ result = Body(served.start, served.end - served.start + 1, served.total)
      BY <1>1, <2>1, <2>3, PartialBody
    <3>2. QED
      BY <3>1, GetAssumption DEF Number, AnyTotal, Body
  <2>4. QED
    BY <2>2, <2>3
<1>2. head.status \in Statuses
  BY DEF Inductive, Shaped, AnyHead
<1>3. QED
  BY <1>1, <1>2 DEF Inductive, Shaped, TypeOK

(***************************************************************************)
(* Type correctness: no number that a reader is told is past u64.          *)
(***************************************************************************)
THEOREM GetTypeCorrect == Spec => []TypeOK
BY AlwaysInductive, TypeOfInductive, PTL

(***************************************************************************)
(* The facts that the two properties of a window follow from.              *)
(***************************************************************************)
LEMMA PartialFacts ==
  ASSUME Inductive, Partial
  PROVE  LET served == head.range
         IN  /\ range \in Range
             /\ served.start \in Nat /\ served.end \in Nat /\ served.total \in AnyTotal
             /\ served.start <= served.end /\ served.end < MaxU64
             /\ served.total # Unknown => served.end < served.total
             /\ result.offset = served.start
             /\ result.length = served.end - served.start + 1
             /\ result.size = served.total
             /\ head.length \in {Unknown, result.length}
             /\ ~OtherRange(range, served)
<1>1. /\ service \in Services /\ range \in Range /\ head \in AnyHead
      /\ result = AcceptGetHead(service, kind, condition, range, head)
      /\ range.form # "whole" /\ result.verdict = "body"
  BY ReadAsBody DEF Inductive, Shaped, Partial, Read
<1> DEFINE served == head.range
<1>2. /\ served.start \in Nat /\ served.end \in Nat /\ served.total \in AnyTotal
      /\ served.start <= served.end /\ served.end < MaxU64
      /\ served.total # Unknown => served.end < served.total
      /\ result = Body(served.start, served.end - served.start + 1, served.total)
      /\ head.length \in {Unknown, served.end - served.start + 1}
      /\ ~OtherRange(range, served)
  BY <1>1, PartialBody
<1>3. /\ result.offset = served.start
      /\ result.length = served.end - served.start + 1
      /\ result.size = served.total
  BY <1>2 DEF Body
<1>4. QED
  BY <1>1, <1>2, <1>3

(***************************************************************************)
(* A body is exactly what was asked of an object of the stated size.       *)
(***************************************************************************)
THEOREM GetWindowIsAskedFor == Spec => []WindowIsAskedFor
<1>1. Inductive => WindowIsAskedFor
  <2> SUFFICES ASSUME Inductive, Partial, result.size # Unknown
               PROVE  /\ result.offset = AskedFrom(result.size)
                      /\ result.offset + result.length = AskedTo(result.size)
    BY DEF WindowIsAskedFor
  <2> DEFINE served == head.range
  <2>1. /\ served.start \in Nat /\ served.end \in Nat
        /\ result.offset = served.start
        /\ result.length = served.end - served.start + 1
        /\ result.size = served.total
        /\ ~OtherRange(range, served)
    BY PartialFacts
  <2>2. /\ served.start = RequestedStart(range, served.total)
        /\ served.end + 1 = Satisfiable(range, served.total)
    BY <2>1 DEF OtherRange
  <2>3. result.offset + result.length = served.end + 1
    BY <2>1
  <2>4. QED
    BY <2>1, <2>2, <2>3 DEF AskedFrom, AskedTo, RequestedStart, Satisfiable
<1>2. QED
  BY <1>1, AlwaysInductive, PTL

(***************************************************************************)
(* A window holds a byte, within u64 and the object, where it was asked.   *)
(***************************************************************************)
THEOREM GetWindowRepresentable == Spec => []WindowRepresentable
<1>1. Inductive => WindowRepresentable
  <2> SUFFICES ASSUME Inductive, Partial
               PROVE  /\ result.length >= 1
                      /\ result.offset + result.length <= MaxU64
                      /\ result.size # Unknown => result.offset + result.length <= result.size
                      /\ range.form # "suffix" => result.offset = range.start
                      /\ head.length \in {Unknown, result.length}
    BY DEF WindowRepresentable
  <2> DEFINE served == head.range
  <2>1. /\ served.start \in Nat /\ served.end \in Nat /\ served.total \in AnyTotal
        /\ served.start <= served.end /\ served.end < MaxU64
        /\ served.total # Unknown => served.end < served.total
        /\ result.offset = served.start
        /\ result.length = served.end - served.start + 1
        /\ result.size = served.total
        /\ head.length \in {Unknown, result.length}
        /\ ~OtherRange(range, served)
    BY PartialFacts
  <2>2. range.form # "suffix" => result.offset = range.start
    BY <2>1 DEF OtherRange, RequestedStart
  <2>3. QED
    BY <2>1, <2>2, GetAssumption DEF AnyTotal, Unknown
<1>2. QED
  BY <1>1, AlwaysInductive, PTL

-----------------------------------------------------------------------------
(* An honest service is understood. *)

\* What an honest head was read as, and of what.
Understood(answer, n) ==
  /\ n \in Nat /\ n < MaxU64 /\ n # Unknown
  /\ service \in Services /\ kind \in {"bytes", "head"} /\ range \in Range
  /\ Askable(kind, range, service)
  /\ answer \in HonestHeads(service, range, n)

\* What the model's service serves of an object, as the reader names it.
Serving(n, first, last) ==
  /\ first \in Nat /\ last \in Nat /\ first <= last /\ last < n
  /\ first = AskedFrom(n) /\ last + 1 = AskedTo(n)

(***************************************************************************)
(* A service can serve a range when the range holds a byte of the object,  *)
(* and then it serves the bytes that it holds: the inclusive end that is   *)
(* sent is the exclusive end that was asked for.                           *)
(***************************************************************************)
LEMMA ServedPart ==
  ASSUME NEW n \in Nat, range \in Range, Askable(kind, range, service),
         range.form # "whole"
  PROVE  /\ CanServe(Sent(range), n) <=> AskedFrom(n) < AskedTo(n)
         /\ CanServe(Sent(range), n) =>
              Serving(n, ServedFrom(Sent(range), n), ServedTo(Sent(range), n))
<1>1. range.form \in {"bounded", "offset", "suffix"} /\ range.start \in Nat /\ range.end \in Nat
  BY RangeForms DEF Number
<1>2. CASE range.form = "bounded"
  <2>1. Sent(range) = [form |-> "closed", first |-> range.start, last |-> range.end - 1]
    BY <1>2 DEF Sent
  <2>2. /\ ServedFrom(Sent(range), n) = range.start
        /\ ServedTo(Sent(range), n) = Least(range.end - 1, n - 1)
    BY <2>1 DEF ServedFrom, ServedTo
  <2>3. AskedFrom(n) = range.start /\ AskedTo(n) = Least(range.end, n)
    BY <1>2 DEF AskedFrom, AskedTo
  <2>4. range.start < range.end
    BY <1>2 DEF Askable
  <2>5. QED
    BY <1>1, <2>2, <2>3, <2>4 DEF CanServe, Serving, Least
<1>3. CASE range.form = "offset"
  <2>1. Sent(range) = [form |-> "open", first |-> range.start]
    BY <1>3 DEF Sent
  <2>2. ServedFrom(Sent(range), n) = range.start /\ ServedTo(Sent(range), n) = n - 1
    BY <2>1 DEF ServedFrom, ServedTo
  <2>3. AskedFrom(n) = range.start /\ AskedTo(n) = n
    BY <1>3 DEF AskedFrom, AskedTo
  <2>4. QED
    BY <1>1, <2>2, <2>3 DEF CanServe, Serving
<1>4. CASE range.form = "suffix"
  <2>1. Sent(range) = [form |-> "last", count |-> range.start]
    BY <1>4 DEF Sent
  <2>2. ServedFrom(Sent(range), n) = Less(n, range.start) /\ ServedTo(Sent(range), n) = n - 1
    BY <2>1 DEF ServedFrom, ServedTo
  <2>3. AskedFrom(n) = Less(n, range.start) /\ AskedTo(n) = n
    BY <1>4 DEF AskedFrom, AskedTo
  <2>4. range.start > 0
    BY <1>1, <1>4 DEF Askable
  <2>5. QED
    BY <1>1, <2>2, <2>3, <2>4 DEF CanServe, Serving, Less
<1>5. QED
  BY <1>1, <1>2, <1>3, <1>4

(***************************************************************************)
(* The honest answer to a read of the whole object.                        *)
(***************************************************************************)
LEMMA HonestWhole ==
  ASSUME NEW n, NEW answer, Understood(answer, n), range.form = "whole"
  PROVE  AcceptGetHead(service, kind, condition, range, answer) =
           IF kind = "head" THEN Complete(answer.length) ELSE Body(0, answer.length, answer.length)
<1>1. PICK length \in StatedBy(service, n) : answer = Head(200, length, NoRange)
  BY DEF Understood, HonestHeads
<1>2. answer.status = 200 /\ answer.length = length
  BY <1>1 DEF Head
<1>3. length \in {n, Unknown} /\ (service = "aws" => length = n)
  BY <1>1 DEF StatedBy
<1>4. Readable(length)
  BY <1>3, GetAssumption DEF Understood, Readable
<1>5. ~Mismatched(service, range, answer)
  BY <1>2 DEF Mismatched
<1>6. AcceptGetHead(service, kind, condition, range, answer) = AcceptWhole(kind, answer)
  BY <1>2, <1>3, <1>5 DEF AcceptGetHead, Understood
<1>7. QED
  BY <1>2, <1>4, <1>6 DEF AcceptWhole

(***************************************************************************)
(* The honest answer to a range that holds a byte of the object.           *)
(***************************************************************************)
LEMMA HonestPartial ==
  ASSUME NEW n, NEW answer, Understood(answer, n), range.form # "whole",
         AskedFrom(n) < AskedTo(n)
  PROVE  AcceptGetHead(service, kind, condition, range, answer) =
           IF range.form = "suffix" /\ answer.range.total = Unknown
             THEN Fault("range")
             ELSE Body(AskedFrom(n), AskedTo(n) - AskedFrom(n), answer.range.total)
<1> DEFINE first == ServedFrom(Sent(range), n)
           last == ServedTo(Sent(range), n)
<1>1. CanServe(Sent(range), n) /\ Serving(n, first, last)
  BY ServedPart DEF Understood
<1>2. PICK length \in StatedBy(service, last - first + 1), total \in StatedBy(service, n) :
        answer = Head(206, length, Satisfied(first, last, total))
  BY <1>1 DEF Understood, HonestHeads
<1> HIDE DEF first, last
<1>3. /\ first \in Nat /\ last \in Nat /\ first <= last /\ last < n /\ n \in Nat /\ n < MaxU64
      /\ first = AskedFrom(n) /\ last + 1 = AskedTo(n)
  BY <1>1 DEF Serving, Understood
<1>4. /\ length \in {last - first + 1, Unknown} /\ total \in {n, Unknown}
      /\ service = "aws" => length = last - first + 1
  BY <1>2 DEF StatedBy
<1>5. /\ answer.status = 206 /\ answer.length = length
      /\ answer.range = Satisfied(first, last, total)
      /\ answer.range.form = "satisfied" /\ answer.range.start = first
      /\ answer.range.end = last /\ answer.range.total = total
  BY <1>2 DEF Head, Satisfied
<1>6. Readable(length) /\ Readable(first) /\ Readable(last) /\ Readable(total)
  BY <1>3, <1>4, GetAssumption DEF Readable
<1>7. last < (IF total = Unknown THEN MaxU64 ELSE total)
  BY <1>3, <1>4, GetAssumption
<1>8. Parsed(answer.range) = answer.range
  BY <1>3, <1>5, <1>6, <1>7 DEF Parsed
<1>9. Length(answer.range) = last - first + 1
  BY <1>5 DEF Length
<1>10. ~Misread(answer)
  BY <1>4, <1>5, <1>6, <1>8, <1>9 DEF Misread
<1>11. ~Mismatched(service, range, answer)
  BY <1>5 DEF Mismatched, Understood, Askable
<1>12. AcceptGetHead(service, kind, condition, range, answer) = AcceptPartial(range, answer)
  <2>1. last - first + 1 # Unknown
    BY <1>3 DEF Unknown
  <2>2. QED
    BY <1>4, <1>5, <1>11, <2>1 DEF AcceptGetHead
<1>13. CASE range.form = "suffix" /\ total = Unknown
  <2>1. OtherRange(range, answer.range)
    BY <1>5, <1>13 DEF OtherRange
  <2>2. QED
    BY <1>5, <1>8, <1>10, <1>12, <1>13, <2>1 DEF AcceptPartial
<1>14. CASE ~(range.form = "suffix" /\ total = Unknown)
  <2>1. first = RequestedStart(range, total)
    BY <1>3, <1>4, <1>14 DEF RequestedStart, AskedFrom
  <2>2. total # Unknown => last + 1 = Satisfiable(range, total)
    BY <1>3, <1>4 DEF Satisfiable, AskedTo
  <2>3. ~OtherRange(range, answer.range)
    BY <1>5, <1>14, <2>1, <2>2 DEF OtherRange
  <2>4. AcceptPartial(range, answer) = Body(first, last - first + 1, total)
    BY <1>5, <1>8, <1>9, <1>10, <2>3 DEF AcceptPartial
  <2>5. last - first + 1 = AskedTo(n) - AskedFrom(n)
    BY <1>3
  <2>6. QED
    BY <1>3, <1>5, <1>12, <1>14, <2>4, <2>5
<1>15. QED
  BY <1>13, <1>14

(***************************************************************************)
(* The honest answer to a range that holds no byte of the object.          *)
(***************************************************************************)
LEMMA HonestUnsatisfiable ==
  ASSUME NEW n, NEW answer, Understood(answer, n), range.form # "whole",
         ~(AskedFrom(n) < AskedTo(n))
  PROVE  AcceptGetHead(service, kind, condition, range, answer) =
           Unsatisfiable(answer.range.total)
<1>1. ~CanServe(Sent(range), n)
  BY ServedPart DEF Understood
<1>2. PICK total \in StatedBy(service, n) : answer = Head(416, Unknown, Unsatisfied(total))
  BY <1>1 DEF Understood, HonestHeads
<1>3. /\ answer.status = 416 /\ answer.range.form = "unsatisfied"
      /\ answer.range.total = total /\ answer.range # NoRange
  BY <1>2 DEF Head, Unsatisfied, NoRange
<1>4. Readable(total)
  BY <1>2, GetAssumption DEF StatedBy, Readable, Understood
<1>5. Parsed(answer.range) = answer.range
  BY <1>3, <1>4 DEF Parsed
<1>6. ~Mismatched(service, range, answer)
  BY <1>3 DEF Mismatched
<1>7. AcceptGetHead(service, kind, condition, range, answer) = AcceptUnsatisfiable(answer)
  BY <1>3, <1>6 DEF AcceptGetHead
<1>8. QED
  BY <1>3, <1>5, <1>7 DEF AcceptUnsatisfiable

(***************************************************************************)
(* A service that keeps the protocol is understood, whatever the range and *)
(* the object: neither refused for what it states or leaves out, nor read  *)
(* as another part of the object.                                          *)
(***************************************************************************)
THEOREM GetHonestAnswerIsRead == Spec => []HonestAnswerIsRead
<1>1. Inductive => HonestAnswerIsRead
  <2> SUFFICES ASSUME Inductive, phase = "read", size # Unknown
               PROVE  HonestAnswerIsRead
    BY DEF HonestAnswerIsRead
  <2>1. Understood(head, size)
    <3>1. size \in Sizes
      BY DEF Inductive, Shaped
    <3>2. size \in Nat /\ size < MaxU64
      BY <3>1, GetAssumption
    <3>3. QED
      BY <3>2 DEF Inductive, Shaped, Honest, Understood
  <2>2. result = AcceptGetHead(service, kind, condition, range, head)
    BY DEF Inductive, Resulting
  <2>3. CASE range.form = "whole"
    BY <2>1, <2>2, <2>3, HonestWhole DEF HonestAnswerIsRead
  <2>4. CASE range.form # "whole" /\ AskedFrom(size) < AskedTo(size)
    <3>1. /\ AskedFrom(size) \in Int /\ AskedTo(size) \in Int
      <4>1. size \in Nat /\ range.start \in Nat /\ range.end \in Nat
        BY <2>1, RangeForms DEF Understood, Number
      <4>2. QED
        BY <4>1 DEF AskedFrom, AskedTo, Less, Least
    <3>2. result = IF range.form = "suffix" /\ head.range.total = Unknown
                     THEN Fault("range")
                     ELSE Body(AskedFrom(size), AskedTo(size) - AskedFrom(size),
                               head.range.total)
      BY <2>1, <2>2, <2>4, HonestPartial
    <3> DEFINE first == AskedFrom(size)
               next == AskedTo(size)
    <3> HIDE DEF first, next
    <3>3. ~(range.form = "suffix" /\ head.range.total = Unknown) =>
            /\ result.verdict = "body"
            /\ result.offset = first
            /\ result.offset + result.length = next
      BY <3>1, <3>2 DEF Body, first, next
    <3>4. QED
      BY <2>4, <3>2, <3>3 DEF HonestAnswerIsRead, first, next
  <2>5. CASE range.form # "whole" /\ ~(AskedFrom(size) < AskedTo(size))
    <3>1. result = Unsatisfiable(head.range.total)
      BY <2>1, <2>2, <2>5, HonestUnsatisfiable
    <3>2. QED
      BY <2>5, <3>1 DEF HonestAnswerIsRead
  <2>6. QED
    BY <2>3, <2>4, <2>5
<1>2. QED
  BY <1>1, AlwaysInductive, PTL
=============================================================================
