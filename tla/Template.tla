------------------------------ MODULE Template ------------------------------
(***************************************************************************)
(* The life of a template: prepare_template writes it, the caller keeps    *)
(* its bytes and hands them back with the values of one request, and       *)
(* encode_template writes that request.  Both run the operation's layout,  *)
(* one over a Builder and one over an EncodePass, and neither checks that  *)
(* the other ran the same one.  The bytes that come back may be another    *)
(* template's.                                                             *)
(*                                                                         *)
(* A request is [key, fill]: the key its caller names (empty for none),    *)
(* and the other values.                                                   *)
(***************************************************************************)
EXTENDS Engine, Meant

CONSTANTS
  Descriptions,     \* what the templates describe
  Requests(_),      \* the requests that an operation's encoder may ask for
  Junk,             \* what text may read as, taken for a step of a table
  MaxUrl            \* MAX_URL_LEN of Azure

ASSUME TemplateAssumption ==
  /\ Descriptions \subseteq Describing
  /\ \A d \in Descriptions : \A asked \in Requests(d) : FillOf(asked.fill)
  /\ Junk \subseteq StepsRead

\* What the holes of a layout are for.
ASSUME LayoutAssumption ==
  \A d \in Descriptions : \A n \in DOMAIN LayoutOf(d) : Proper(LayoutOf(d)[n])

\* What a request's pass runs over a template of its own operation.
ASSUME AskedAssumption == \A d \in Descriptions : AsksFor(d.query, d.asked)

\* A request has the values of its own operation's holes, and its body.
ASSUME FillAssumption ==
  \A d \in Descriptions : \A asked \in Requests(d) :
    /\ \A n \in DOMAIN LayoutOf(d) : Fillable(LayoutOf(d)[n], asked.fill)
    /\ d.body = "each" => asked.fill.writes

VARIABLES
  describe,   \* the description of the template
  phase,      \* "preparing", "prepared", "encoding" or "done"
  todo,       \* what is left of the layout that runs
  builder,
  template,   \* the template: its table and the span of its own key
  given,      \* the bytes that the caller hands back, and what they read as
  request,    \* the request it asks for
  pass,
  outcome     \* "none", or how the call ended

vars == <<describe, phase, todo, builder, template, given, request, pass, outcome>>
preparing == <<builder, template>>
encoding == <<given, request, pass>>

\* What is stashed after the text of the sections: the scope that S3 signs
\* with, and the key of the template's own object.
KeyText(d) == IF d.object THEN ObjectKey ELSE <<>>
StashText(d) == (IF d.service = "s3" THEN ScopeText ELSE <<>>) \o KeyText(d)

\* prepare_template
Template(d) == Prepared(LayoutOf(d), StashText(d))

\* Mutant: the key is taken to come first after the text of the sections.
KeySpanFirst(d, table) ==
  IF d.object THEN SpanOf(table.start - Len(StashText(d)), Len(ObjectKey)) ELSE None

KeySpan(d, table) ==
  IF d.object THEN SpanOf(table.start - Len(ObjectKey), Len(ObjectKey)) ELSE None

\* What a request's pass runs: the same layout, of the query it asks with.
Asked(d) == LayoutOf([d EXCEPT !.query = d.asked])

Init ==
  /\ describe \in Descriptions
  /\ phase = "preparing"
  /\ todo = LayoutOf(describe)
  /\ builder = NewBuilder
  /\ template = [key |-> None]
  /\ given = [bytes |-> [text |-> <<>>, steps |-> <<>>], junk |-> EmptyStep]
  /\ request = [key |-> <<>>]
  /\ pass = [out |-> <<>>]
  /\ outcome = "none"

-----------------------------------------------------------------------------
(* Preparing: one operation of the layout after the other. *)

Prepare(op) ==
  /\ phase = "preparing" /\ todo # <<>> /\ Head(todo).op = op
  /\ builder' = Build(builder, Head(todo))
  /\ todo' = Tail(todo)
  /\ UNCHANGED <<describe, phase, template, encoding, outcome>>

PrepareSection == Prepare("section")
PrepareText == Prepare("text")
PrepareHole == Prepare("hole")
PrepareFields == Prepare("fields")
PrepareParam == Prepare("param")

\* finish counts the steps before it ends the sections that are left, which
\* may take the table past its bound.
FinishTemplate ==
  LET stashed == Stash(builder, StashText(describe))
      prepared == Finish(stashed)
  IN  /\ phase = "preparing" /\ todo = <<>>
      /\ template' = [table |-> prepared.table, bytes |-> prepared.bytes,
                      key |-> KeySpan(describe, prepared.table)]
      /\ outcome' = IF Len(builder.steps) > MaxSteps THEN "too large"
                    ELSE IF prepared.table.total > MaxSteps THEN "panic"
                    ELSE "none"
      /\ phase' = IF outcome' = "none" THEN "prepared" ELSE "done"
      /\ UNCHANGED <<describe, todo, builder, encoding>>

-----------------------------------------------------------------------------
(* Encoding: the same layout again, over the bytes that the caller has. *)

\* request_key: a template of one object takes its own key, or none.
KeyTaken(bytes, key) ==
  \/ template.key = None
  \/ key = <<>>
  \/ /\ template.key.start + template.key.len <= Len(bytes.text)
     /\ SubSeq(bytes.text, template.key.start + 1, template.key.start + template.key.len) = key

\* The URL that Azure would refuse is counted only when its values could make
\* it too long.
SurelyShort(fill) == template.table.urlFixed + UrlBound(fill) <= MaxUrl

UrlCheck(bytes, junk, fill) ==
  LET table == template.table
      counted == UrlWalk(table, StepsOf(table, bytes, junk), TextOf(table, bytes), fill)
  IN  IF describe.service = "s3" \/ SurelyShort(fill) THEN "none"
      ELSE IF ~Holds(table, bytes) \/ counted.failed THEN "template"
      ELSE IF Position(counted) > MaxUrl THEN "url too long"
      ELSE "none"

\* A new pass, over nothing for bytes that cannot hold the table.
StartPass(bytes, junk, fill) ==
  LET table == template.table
  IN  IF Holds(table, bytes)
        THEN NewPass(table, StepsOf(table, bytes, junk), TextOf(table, bytes), fill)
        ELSE UnreadPass(table)

Encode(bytes, junk, asked) ==
  /\ phase = "prepared"
  /\ given' = [bytes |-> bytes, junk |-> junk]
  /\ request' = asked
  /\ pass' = StartPass(bytes, junk, asked.fill)
  /\ outcome' = IF ~KeyTaken(bytes, asked.key) THEN "template" ELSE UrlCheck(bytes, junk, asked.fill)
  /\ phase' = IF outcome' = "none" THEN "encoding" ELSE "done"
  /\ todo' = Asked(describe)
  /\ UNCHANGED <<describe, preparing>>

EncodeOwn == \E asked \in Requests(describe) : Encode(template.bytes, EmptyStep, asked)

\* The bytes of another template, which the caller took for this one's.
EncodeOther ==
  \E other \in Descriptions \ {describe}, junk \in Junk, asked \in Requests(describe) :
    Encode(Template(other).bytes, junk, asked)

GivenSteps == IF pass.unread THEN <<>> ELSE StepsOf(template.table, given.bytes, given.junk)
GivenText == IF pass.unread THEN <<>> ELSE TextOf(template.table, given.bytes)

EncodeOp(op) ==
  /\ phase = "encoding" /\ todo # <<>> /\ Head(todo).op = op
  /\ pass' = Pass(pass, Head(todo), template.table, request.fill, GivenSteps, GivenText)
  /\ todo' = Tail(todo)
  /\ UNCHANGED <<describe, phase, preparing, given, request, outcome>>

EncodeSection == EncodeOp("section")
EncodeText == EncodeOp("text")
EncodeHole == EncodeOp("hole")
EncodeFields == EncodeOp("fields")
EncodeParam == EncodeOp("param")

FinishRequest ==
  /\ phase = "encoding" /\ todo = <<>>
  /\ pass' = FinishPass(pass, GivenSteps, GivenText)
  /\ outcome' = IF pass'.failed THEN "template" ELSE "written"
  /\ phase' = "done"
  /\ UNCHANGED <<describe, todo, preparing, given, request>>

Next ==
  \/ PrepareSection \/ PrepareText \/ PrepareHole \/ PrepareFields \/ PrepareParam
  \/ FinishTemplate
  \/ EncodeOwn \/ EncodeOther
  \/ EncodeSection \/ EncodeText \/ EncodeHole \/ EncodeFields \/ EncodeParam
  \/ FinishRequest

Spec == Init /\ [][Next]_vars
-----------------------------------------------------------------------------
(* Properties. *)

Own == phase \notin {"preparing", "prepared"} /\ given.bytes = template.bytes
Written == phase = "done" /\ outcome = "written"
WrittenParts == Parts(pass, template.table)

\* The template is a table and a text, and a call ends in one of the ways that
\* its errors name.
TypeOK ==
  /\ describe \in Descriptions
  /\ phase \in {"preparing", "prepared", "encoding", "done"}
  /\ outcome \in {"none", "written", "template", "url too long", "too large", "panic"}
  /\ phase = "done" <=> outcome # "none"
  /\ builder.params <= Len(describe.query)
  /\ \A section \in DOMAIN builder.counts : builder.counts[section] \in 0..MaxSteps

\* Each step of a table is one hole of the layout, or the end of one section,
\* and the steps of a section follow the steps before it: a request's pass
\* counts on both to find its steps (template.rs, end_sections).  Together
\* their runs and names are the text of the sections, to the last byte.
TableOfTheLayout ==
  phase = "prepared" =>
    LET steps == template.bytes.steps
        table == template.table
        Ends(section) == {n \in DOMAIN steps : section \in steps[n].ends}
    IN  /\ SumOf(steps, StepText) + Len(StashText(describe)) = table.start
        /\ \A section \in 0..Sections - 1 :
             Ends(section) = {StepsBefore(table.counts, section + 1)}
        /\ \A n \in DOMAIN steps :
             steps[n].hole = NoHole <=> \E section \in 0..Sections - 1 : steps[n].ends = {section}

\* A request from the template's own bytes is refused for them in one case
\* alone, that it names another key than the template's own object, and no
\* layout runs past its table (encode_template over finish, request_key).
OwnBytesAccepted ==
  Own /\ phase = "done" =>
    /\ outcome \notin {"too large", "panic"}
    /\ outcome = "template" <=> describe.object /\ request.key \notin {<<>>, ObjectKey}

\* What a request says is what its description and its values mean: each
\* section is where its span says, no hole is filled from another's value, and
\* the fields are what follows the request line and the host, without the empty
\* line (encode_template, WriteState::written).
RequestAsMeant ==
  Own /\ Written =>
    LET Says(meant, parts) ==
          /\ pass.out = meant.text
          /\ parts.url = SpanOf(0, meant.url)
          /\ parts.head = MeantSpan(HeadSection, meant)
          /\ describe.service = "s3" => parts.canonical = MeantSpan(CanonicalSection, meant)
          /\ parts.body = IF describe.body = "none" THEN None ELSE MeantSpan(BodySection, meant)
          /\ parts.fields.start = StartOf({Fields}, meant)
          /\ parts.fields.start + parts.fields.len + 2 = parts.head.start + parts.head.len
    IN  Says(Meant(describe, request.fill), WrittenParts)

\* Every placeholder that a request holds is one that its caller is told of:
\* none is lost for want of a slot, and each is where it was written
\* (record_placeholder, which drops a span when no slot is free).
PlaceholdersMarked ==
  Own /\ Written =>
    LET Marks(meant) ==
          /\ pass.bodyHash = MeantMarks("BodyHash", meant)
          /\ pass.bodyChecksum = MeantMarks("BodyChecksum", meant)
          /\ pass.signature = IF describe.service = "azure" THEN None
                              ELSE MeantMarks("Signature", meant)[1]
    IN  Marks(Meant(describe, request.fill))

\* Walking the table writes what the layout writes, and places the parts alike
\* (template.rs, same_as_walked): the feature `compact` sends the same request.
WalkWritesAlike ==
  Own /\ Written =>
    LET Alike(walked) ==
          /\ ~walked.failed
          /\ walked.out = pass.out
          /\ Parts(walked, template.table) = WrittenParts
    IN  Alike(WalkRequest(template.table, GivenSteps, GivenText, request.fill))

\* Azure's bound on the URL holds of exactly the requests whose URL is within
\* it, although most URLs are never counted (encode_template, url_bound).
UrlChecked ==
  Own /\ phase = "done" /\ describe.service = "azure" /\ KeyTaken(given.bytes, request.key) =>
    (outcome = "url too long" <=> Len(MeantUrl(describe, request.fill)) > MaxUrl)

\* Whatever bytes a caller hands back, a request that is written lies within
\* what was written, and so does the one that the table's walk writes
\* (WriteState::written: "a span between two of them is empty if they are out
\* of order").
PartsInRange ==
  LET Within(parts) ==
        LET spans == {parts.url, parts.head, parts.fields, parts.canonical, parts.body,
                      parts.signature} \cup Range(parts.bodyHash) \cup Range(parts.bodyChecksum)
        IN  \A span \in spans \ {None} : span.start >= 0 /\ span.len >= 0
                                           /\ span.start + span.len <= parts.end
      WithinIfWritten(walked) == walked.failed \/ Within(Parts(walked, template.table))
  IN  phase = "done" /\ outcome \in {"written", "template"} /\ ~pass.unread =>
        /\ Written => Within(WrittenParts)
        /\ WithinIfWritten(WalkRequest(template.table, GivenSteps, GivenText, request.fill))
=============================================================================
