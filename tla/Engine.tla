------------------------------- MODULE Engine -------------------------------
(***************************************************************************)
(* The template engine (crates/object-storage-proto/src/template.rs): the  *)
(* Builder that writes a template, the EncodePass that copies a request    *)
(* out of it, and the walk of its table that the feature `compact` and the *)
(* length counts use instead.                                              *)
(*                                                                         *)
(* A template is its text and a table of steps.  A step is a run of text,  *)
(* by its length alone, and the hole after it; an optional parameter's     *)
(* name follows the run.  Offsets count tokens from 0, as the code counts  *)
(* bytes.                                                                  *)
(***************************************************************************)
EXTENDS Layout, Integers

CONSTANTS
  MaxSteps,   \* MAX_STEPS
  NameRoom    \* what url_bound allows for a separator, a name and its `=`

ASSUME EngineAssumption == MaxSteps \in Nat

None == [start |-> 0, len |-> -1]
SpanOf(start, len) == [start |-> start, len |-> len]
UncheckedDifference(a, b) == a - b                     \* mutant: subtraction
Difference(a, b) == IF a > b THEN a - b ELSE 0     \* saturating_sub

-----------------------------------------------------------------------------
(* The Builder. *)

StepsRead == [len : Nat, hole : STRING, name : Nat, ends : SUBSET Nat]
EmptyStep == [len |-> 0, hole |-> NoHole, name |-> 0, ends |-> {}]

NewBuilder ==
  [text |-> <<>>, steps |-> <<>>, counts |-> [s \in 0..Sections - 1 |-> 0],
   section |-> OriginSection, open |-> FALSE, fields |-> <<MaxSteps + 1, 0>>,
   params |-> 0, optional |-> FALSE]

PushIn(b, section, step) ==
  [b EXCEPT !.steps = Append(@, step), !.counts[section] = @ + 1]

LastStep(b) == Len(b.steps)

\* Mutant: a section that no text was written to gets no step of its own.
EndSectionOpen(b, section) ==
  LET closed == IF b.open THEN b ELSE PushIn(b, section, EmptyStep)
  IN  [closed EXCEPT !.steps[LastStep(closed)].ends = @ \cup {section}]

\* A section ends with a step of text alone, which is empty if need be.
EndSection(b, section) ==
  LET closed == IF b.open /\ section = b.section THEN b ELSE PushIn(b, section, EmptyStep)
  IN  [closed EXCEPT !.steps[LastStep(closed)].ends = @ \cup {section}]

EndSections(b, until) ==
  FoldLeft(EndSection, b, [n \in 1..Difference(until, b.section) |-> b.section + n - 1])

BuildSection(b, section) ==
  [EndSections(b, section) EXCEPT !.section = section, !.open = FALSE]

BuildText(b, text) ==
  LET written == [b EXCEPT !.text = @ \o text]
  IN  IF text = <<>> THEN b
      ELSE IF b.open THEN [written EXCEPT !.steps[LastStep(b)].len = @ + Len(text)]
      ELSE [PushIn(written, b.section, [EmptyStep EXCEPT !.len = Len(text)])
              EXCEPT !.open = TRUE]

BuildHole(b, hole) ==
  IF b.open
    THEN [b EXCEPT !.steps[LastStep(b)].hole = hole, !.open = FALSE]
    ELSE [PushIn(b, b.section, [EmptyStep EXCEPT !.hole = hole]) EXCEPT !.open = FALSE]

BuildFields(b) ==
  [b EXCEPT !.fields = IF b.open THEN <<LastStep(b) - 1, b.steps[LastStep(b)].len>>
                                 ELSE <<LastStep(b), 0>>]

BuildSeparator(b) ==
  IF b.optional THEN BuildHole(b, "Separator")
  ELSE [BuildText(b, IF b.params = 0 THEN <<"?">> ELSE <<"&">>) EXCEPT !.params = @ + 1]

\* Mutant: a parameter with a hole is counted with its separator and its hole.
BuildParamTwice(b, param) ==
  LET separated == IF param.mode = "optional" THEN b ELSE BuildSeparator(b)
  IN  CASE param.mode = "fixed" -> BuildText(separated, <<param.name, "=">> \o param.value)
        [] OTHER -> [BuildHole(BuildText(separated, <<param.name, "=">>), param.hole)
                       EXCEPT !.params = @ + 1]

BuildParam(b, param) ==
  CASE param.mode = "fixed" ->
         BuildText(BuildSeparator(b), <<param.name, "=">> \o param.value)
    [] param.mode = "hole" ->
         BuildHole(BuildText(BuildSeparator(b), <<param.name, "=">>), param.hole)
    [] param.mode = "optional" ->
         LET filled == BuildHole([b EXCEPT !.optional = TRUE], param.hole)
         IN  [filled EXCEPT !.text = @ \o <<param.name>>, !.steps[LastStep(filled)].name = 1]

Build(b, op) ==
  CASE op.op = "section" -> BuildSection(b, op.section)
    [] op.op = "text"    -> BuildText(b, op.text)
    [] op.op = "hole"    -> BuildHole(b, op.hole)
    [] op.op = "fields"  -> BuildFields(b)
    [] op.op = "param"   -> BuildParam(b, op.param)

\* Builder::stash: text that no section holds, such as the template's key.
Stash(b, text) == [b EXCEPT !.text = @ \o text]

Added(numbers) == FoldLeft(LAMBDA sum, more : sum + more, 0, numbers)
SumOf(seq, Measure(_)) == Added([n \in DOMAIN seq |-> Measure(seq[n])])
StepText(step) == step.len + step.name
StepsBefore(counts, section) ==
  FoldLeft(LAMBDA sum, s : sum + counts[s - 1], 0, [n \in 1..section |-> n])

\* Builder::finish: it ends the sections that are left, and seals the table.
Finish(b) ==
  LET ended == EndSections(b, Sections)
      steps == ended.steps
      url == SubSeq(steps, 1, StepsBefore(ended.counts, HeadSection))
      body == SubSeq(steps, StepsBefore(ended.counts, BodySection) + 1, Len(steps))
      bytes == [text |-> ended.text, steps |-> steps]
  IN  [bytes |-> bytes,
       table |-> [start |-> Len(ended.text), total |-> Len(steps), counts |-> ended.counts,
                  params |-> ended.params, fields |-> ended.fields,
                  urlFixed |-> SumOf(url, StepText),
                  body |-> \E n \in DOMAIN body : body[n].len > 0 \/ body[n].hole # NoHole]]

Prepared(layout, stash) == Finish(Stash(FoldLeft(Build, NewBuilder, layout), stash))

-----------------------------------------------------------------------------
(* A template's bytes, as a request reads them.  The bytes a caller passes *)
(* may be another template's.  A table that lies elsewhere reads text as   *)
(* steps, each of them `junk`, and steps as text.                          *)

BytesLen(bytes) == Len(bytes.text) + Len(bytes.steps)

Holds(table, bytes) == table.start + table.total <= BytesLen(bytes)

StepsOf(table, bytes, junk) ==
  [n \in 1..table.total |->
     LET at == table.start + n
     IN  IF at <= Len(bytes.text) THEN junk ELSE bytes.steps[at - Len(bytes.text)]]

TextOf(table, bytes) ==
  [n \in 1..table.start |-> IF n <= Len(bytes.text) THEN bytes.text[n] ELSE "junk"]

-----------------------------------------------------------------------------
(* What a request has written so far, w. *)

NewState(table, bodyLen) ==
  [out |-> <<>>, ends |-> [s \in 0..Sections - 1 |-> 0], fields |-> 0,
   params |-> table.params, bodyLen |-> bodyLen,
   signature |-> None, bodyHash |-> <<>>, bodyChecksum |-> <<>>,
   at |-> 0, cursor |-> 0, section |-> OriginSection, optional |-> FALSE,
   failed |-> FALSE, unread |-> FALSE]

Position(w) == Len(w.out)
Again(w, from, to) == SubSeq(w.out, from + 1, to)
Separator(w) == IF w.params = 0 THEN <<"?">> ELSE <<"&">>

\* Whether a request has a value for the hole.
CanFill(hole, f) ==
  \/ hole \in {"Target", "Path", "Query", "Signature", "BodyLength", "BodyHash", "Separator"}
  \/ hole \in OptionalHoles
  \/ hole = "BodyChecksum" /\ f.checksum
  \/ hole = "Body" /\ f.writes
  \/ hole \in DOMAIN f.values

\* Whether it has one for every hole of an operation.
Fillable(op, f) ==
  /\ op.op = "hole" => CanFill(op.hole, f)
  /\ op.op = "param" /\ op.param.mode # "fixed" => CanFill(op.param.hole, f)

HoleText(w, hole, name, f) ==
  CASE hole = "Target"       -> Again(w, w.ends[OriginSection], w.ends[QuerySection])
    [] hole = "Path"         -> Again(w, w.ends[OriginSection], w.ends[PathSection])
    [] hole = "Query"        -> Again(w, w.ends[PathSection] + 1, w.ends[QuerySection])
    [] hole = "Signature"    -> SignaturePlaceholder
    [] hole = "BodyLength"   -> Decimal(w.bodyLen)
    [] hole = "BodyHash"     -> HashPlaceholder
    [] hole = "BodyChecksum" -> ChecksumPlaceholder
    [] hole = "Separator"    -> Separator(w)
    [] hole \in OptionalHoles ->
         IF LeftOut(hole, f) THEN <<>>
         ELSE Separator(w) \o name \o <<"=">> \o ValueText(hole, f)
    [] hole = "Body"         -> f.body
    [] OTHER -> ValueText(hole, f)

\* Mutant: a parameter that a request may leave out is not counted.
CountsSeparator(hole, f) == hole = "Separator"

CountsParam(hole, f) ==
  hole = "Separator" \/ (hole \in OptionalHoles /\ ~LeftOut(hole, f))

\* record_placeholder: the first free slot, if there is one.
RecordedLess(slots, room, span) ==                     \* mutant: one slot less
  IF Len(slots) + 1 < room THEN Append(slots, span) ELSE slots
Recorded(slots, room, span) == IF Len(slots) < room THEN Append(slots, span) ELSE slots

WriteHole(w, hole, name, f) ==
  IF ~CanFill(hole, f) THEN [w EXCEPT !.failed = TRUE]
  ELSE LET text == HoleText(w, hole, name, f)
           span == SpanOf(Position(w), Len(text))
       IN  [w EXCEPT
             !.out = @ \o text,
             !.params = IF CountsParam(hole, f) THEN @ + 1 ELSE @,
             !.signature = IF hole = "Signature" THEN span ELSE @,
             !.bodyHash = IF hole = "BodyHash" THEN Recorded(@, 3, span) ELSE @,
             !.bodyChecksum = IF hole = "BodyChecksum" THEN Recorded(@, 2, span) ELSE @]

\* WriteState::written: where the parts of the request are.
Parts(w, table) ==
  LET From(section) == IF section = OriginSection THEN 0 ELSE w.ends[section - 1]
      Of(section) == SpanOf(From(section), Difference(w.ends[section], From(section)))
      headEnd == Of(HeadSection).start + Of(HeadSection).len
      fields == CASE w.fields < Of(HeadSection).start -> Of(HeadSection).start
                  [] w.fields > headEnd        -> headEnd
                  [] OTHER                     -> w.fields
  IN  [url |-> SpanOf(0, w.ends[QuerySection]), head |-> Of(HeadSection),
       fields |-> SpanOf(fields, Difference(Difference(headEnd, 2), fields)),
       canonical |-> Of(CanonicalSection), body |-> IF table.body THEN Of(BodySection) ELSE None,
       signature |-> w.signature, bodyHash |-> w.bodyHash, bodyChecksum |-> w.bodyChecksum,
       end |-> Position(w)]

-----------------------------------------------------------------------------
(* walk_table: one function for every operation, over a range of sections. *)

Run(text, cursor, len) == SubSeq(text, cursor + 1, cursor + len)

\* Mutant: the cursor does not go past the name of an optional parameter.
ReadLen(step) == step.len
StepLen(step) == StepText(step)

WalkStep(w, at, table, steps, text, f) ==
  LET step == steps[at + 1]
      marked == IF at = table.fields[1]
                  THEN [w EXCEPT !.fields = Position(w) +
                          (IF step.len < table.fields[2] THEN step.len ELSE table.fields[2])]
                  ELSE w
      copied == [marked EXCEPT !.out = @ \o Run(text, w.cursor, step.len)]
      name == Run(text, w.cursor + step.len, step.name)
      filled == IF step.hole = NoHole THEN copied ELSE WriteHole(copied, step.hole, name, f)
      read == IF step.hole = NoHole THEN step.len ELSE StepText(step)
  IN  IF w.failed THEN w
      ELSE IF w.cursor + read > Len(text) THEN [w EXCEPT !.failed = TRUE]
      ELSE [filled EXCEPT !.cursor = @ + StepLen(step),
                          !.ends = [s \in DOMAIN @ |-> IF s \in step.ends THEN Position(filled) ELSE @[s]]]

\* The walk over the sections from..until-1.  What follows the range ends with it.
Walk(table, steps, text, f, from, until, bodyLen) ==
  LET first == StepsBefore(table.counts, from)
      last == StepsBefore(table.counts, until)
      start == [NewState(table, bodyLen) EXCEPT !.cursor = SumOf(SubSeq(steps, 1, first), StepText)]
      One(w, at) == WalkStep(w, at, table, steps, text, f)
      walked == FoldLeft(One, start, [n \in 1..last - first |-> first + n - 1])
  IN  [walked EXCEPT !.ends = [s \in DOMAIN @ |-> IF s >= until THEN Position(walked) ELSE @[s]]]

\* Table::body_len, or -1 for a body that the request cannot have.
BodyLen(table, steps, text, f) ==
  LET body == SubSeq(steps, StepsBefore(table.counts, BodySection) + 1, Len(steps))
      counted == Walk(table, steps, text, f, BodySection, Sections, 0)
      Holed(step) == IF step.hole = "Body" THEN Len(f.body) ELSE 0
      \* The steps that end the sum: a hole of no body, and a body to be counted.
      stops == {n \in DOMAIN body : body[n].hole \notin {NoHole, "Body"}
                                      \/ (body[n].hole = "Body" /\ ~f.known)}
  IN  IF ~table.body THEN 0
      ELSE IF ~f.writes
        THEN IF \E n \in DOMAIN body : body[n].hole # NoHole THEN -1
             ELSE SumOf(body, LAMBDA step : step.len)
      ELSE IF stops = {} THEN SumOf(body, LAMBDA step : StepText(step) + Holed(step))
      ELSE IF body[Min(stops)].hole # "Body" \/ counted.failed THEN -1
      ELSE Position(counted)

\* walk_request
WalkRequest(table, steps, text, f) ==
  LET bodyLen == BodyLen(table, steps, text, f)
      walked == Walk(table, steps, text, f, OriginSection, Sections, bodyLen)
  IN  [walked EXCEPT !.failed = @ \/ bodyLen < 0]

\* url_len: the walk of the URL, which writes into nothing and is measured.
UrlWalk(table, steps, text, f) == Walk(table, steps, text, f, OriginSection, HeadSection, 0)

\* HoleValues::url_bound: at least what the values take in the URL.
UrlBoundPlain(f) ==                                    \* mutant: as if no byte were escaped
  NameRoom + FoldLeft(LAMBDA sum, hole : sum + Len(f.values[hole]) + NameRoom, 0,
                      SetToSeq(UrlValues \cap DOMAIN f.values))
           + FoldLeft(LAMBDA sum, hole : sum + Len(f.params[hole]) + NameRoom, 0,
                      SetToSeq(DOMAIN f.params))

UrlBound(f) ==
  LET Bound(raw) == 3 * Len(raw) + NameRoom
      OfValue(sum, hole) == sum + Bound(f.values[hole])
      OfParam(sum, hole) == sum + Bound(f.params[hole])
  IN  NameRoom + FoldLeft(OfValue, 0, SetToSeq(UrlValues \cap DOMAIN f.values))
               + FoldLeft(OfParam, 0, SetToSeq(DOMAIN f.params))

-----------------------------------------------------------------------------
(* EncodePass: a request's pass, in the order of its layout. *)

\* A pass over nothing, which has failed: the bytes cannot be the template's.
UnreadPass(table) == [NewState(table, 0) EXCEPT !.failed = TRUE, !.unread = TRUE]

NewPass(table, steps, text, f) ==
  LET bodyLen == BodyLen(table, steps, text, f)
  IN  IF bodyLen < 0 THEN UnreadPass(table) ELSE NewState(table, bodyLen)

\* EncodePass::take: copies the run of the next step, and goes on.
Take(w, steps, text) ==
  LET step == steps[w.at + 1]
      fits == w.cursor + step.len <= Len(text)
  IN  IF w.at >= Len(steps) THEN [w EXCEPT !.at = @ + 1, !.failed = TRUE]
      ELSE [w EXCEPT !.at = @ + 1,
                     !.out = IF fits THEN @ \o Run(text, w.cursor, step.len) ELSE @,
                     !.failed = @ \/ ~fits,
                     !.cursor = @ + step.len]

NameLen(w, steps) == IF w.at >= Len(steps) THEN 0 ELSE steps[w.at + 1].name

EndUntil(w, section, steps, text) ==
  LET One(v, s) == LET taken == Take(v, steps, text)
                   IN  [taken EXCEPT !.ends[s] = Position(taken), !.section = s + 1]
  IN  FoldLeft(One, w, [n \in 1..Difference(section, w.section) |-> w.section + n - 1])

PassHole(w, hole, name, f, steps, text) ==
  WriteHole(Take(w, steps, text), hole, name, f)

PassFields(w, table, steps) ==
  LET len == IF w.at < Len(steps) THEN steps[w.at + 1].len ELSE 0
  IN  [w EXCEPT !.failed = @ \/ table.fields[1] # w.at,
                !.fields = Position(w) + (IF len < table.fields[2] THEN len ELSE table.fields[2])]

PassParam(w, param, f, steps, text) ==
  LET separated == IF w.optional THEN PassHole(w, "Separator", <<>>, f, steps, text) ELSE w
  IN  CASE param.mode = "fixed" -> separated
        [] param.mode = "hole" -> PassHole(separated, param.hole, <<>>, f, steps, text)
        [] param.mode = "optional" ->
             [PassHole([w EXCEPT !.optional = TRUE], param.hole, <<param.name>>, f, steps, text)
                EXCEPT !.cursor = @ + NameLen(w, steps)]

Pass(w, op, table, f, steps, text) ==
  CASE op.op = "section" -> EndUntil(w, op.section, steps, text)
    [] op.op = "text"    -> w
    [] op.op = "hole"    -> PassHole(w, op.hole, <<>>, f, steps, text)
    [] op.op = "fields"  -> PassFields(w, table, steps)
    [] op.op = "param"   -> PassParam(w, op.param, f, steps, text)

\* EncodePass::finish
FinishPass(w, steps, text) ==
  LET ended == EndUntil(w, Sections, steps, text)
  IN  [ended EXCEPT !.failed = @ \/ ended.at # Len(steps)]

=============================================================================
