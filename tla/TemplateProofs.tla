--------------------------- MODULE TemplateProofs ---------------------------
EXTENDS Template, EngineProofs

(***************************************************************************)
(* Whatever bytes a caller hands back as a template, the parts of a        *)
(* request are spans of what was written of it (PartsInRange): the state   *)
(* of the two runs keeps what EngineProofs shows of each (Inductive).      *)
(*                                                                         *)
(* A template is what is finished of the whole of its layout (History), so *)
(* its table is that of its layout (TableOfTheLayout).  A request's pass   *)
(* runs that layout but for the parameters that it leaves out, and these   *)
(* are fixed ones in a row, of which it would write nothing itself: so it  *)
(* ends as the whole layout's pass would (AskedPass), which is with the    *)
(* table, and without a fault (OwnBytesAccepted).                          *)
(*                                                                         *)
(* What it writes is then what its layout says, as the walk's is           *)
(* (WalkWritesAlike), and that is compared with what is meant section by   *)
(* section, first the bytes and then where each part of them is            *)
(* (RequestAsMeant).                                                       *)
(***************************************************************************)

-----------------------------------------------------------------------------
(* The life of a template.                                                 *)

LEMMA StashTextIn ==
  ASSUME NEW d
  PROVE  StashText(d) \in Wording
<1>1. "scope" \in Words /\ "object" \in Words /\ " " \in Words
  BY DEF Words
<1>2. <<"scope">> \in Wording /\ <<"object", " ">> \in Wording /\ <<>> \in Wording
  BY <1>1, Few DEF Wording
<1> QED BY <1>2, WordingIs DEF StashText, KeyText, ScopeText, ObjectKey

LEMMA TemplateIs ==
  ASSUME NEW d \in Describing
  PROVE  Template(d).bytes \in Bytes
<1>1. Stash(FoldLeft(Build, NewBuilder, LayoutOf(d)), StashText(d)) \in Builders
  <2>1. LayoutOf(d) \in Seq(Ops)
    BY LayoutIn, DescribedIs
  <2> QED BY <2>1, BuildAllKept, StashTextIn, StashKept
<1> QED BY <1>1, FinishIs DEF Template, Prepared

LEMMA OwnPartsRead ==
  ASSUME NEW table, IsTable(table), NEW bytes \in Bytes, NEW junk \in StepsKept
  PROVE  /\ TextOf(table, bytes) \in Wording
         /\ Holds(table, bytes) => /\ StepsOf(table, bytes, junk) \in Seq(StepsKept)
                                   /\ Len(StepsOf(table, bytes, junk)) = table.total
<1> DEFINE start == table.start
           total == table.total
           text == bytes.text
           steps == bytes.steps
           read == [n \in 1 .. total |->
                      LET at == start + n
                      IN  IF at <= Len(text) THEN junk ELSE steps[at - Len(text)]]
           said == [n \in 1 .. start |-> IF n <= Len(text) THEN text[n] ELSE "junk"]
<1>1. start \in Nat /\ total \in Nat
  BY DEF IsTable
<1>2. text \in Seq(Words) /\ steps \in Seq(StepsKept)
  BY DEF Bytes, Wording
<1>3. TextOf(table, bytes) = said /\ StepsOf(table, bytes, junk) = read
  <2>1. TextOf(table, bytes) = said
    BY DEF TextOf
  <2>2. StepsOf(table, bytes, junk) = read
    BY DEF StepsOf
  <2> QED BY <2>1, <2>2
<1>4. Holds(table, bytes) <=> start + total <= Len(text) + Len(steps)
  BY DEF Holds, BytesLen
<1> HIDE DEF start, total, text, steps
<1>5. said \in Seq(Words)
  <2>1. "junk" \in Words
    BY DEF Words
  <2>2. \A n \in 1 .. start : (IF n <= Len(text) THEN text[n] ELSE "junk") \in Words
    BY <1>1, <1>2, <2>1
  <2> QED BY <1>1, <2>2, FunctionIsSeq
<1>6. ASSUME start + total <= Len(text) + Len(steps)
      PROVE  read \in Seq(StepsKept) /\ Len(read) = total
  <2> DEFINE ReadAt(n) == IF start + n <= Len(text) THEN junk ELSE steps[(start + n) - Len(text)]
  <2>1. \A n \in 1 .. total : ReadAt(n) \in StepsKept
    <3> SUFFICES ASSUME NEW n \in 1 .. total, ~ (start + n <= Len(text))
                 PROVE  steps[(start + n) - Len(text)] \in StepsKept
      OBVIOUS
    <3>1. (start + n) - Len(text) \in 1 .. Len(steps)
      BY <1>1, <1>2, <1>6
    <3> QED BY <1>2, <3>1
  <2>2. read = [n \in 1 .. total |-> ReadAt(n)]
    OBVIOUS
  <2> HIDE DEF ReadAt
  <2>3. read \in [1 .. total -> StepsKept]
    BY <2>1, <2>2
  <2> HIDE DEF read
  <2> QED BY <1>1, <2>3, FunctionIsSeq
<1> HIDE DEF said, read
<1> QED BY <1>3, <1>4, <1>5, <1>6 DEF Wording, total

\* The phases in which a request has been read from a caller's bytes, and in
\* which a template is there.
Asking == phase = "encoding" \/ (phase = "done" /\ outcome \notin {"too large", "panic"})
There == phase = "prepared" \/ Asking

\* What a request is read from, and what it has written.
Given ==
  /\ given.bytes \in Bytes /\ given.junk \in StepsKept
  /\ FillOf(request.fill)
  /\ pass \in Passes(pass.bodyLen, pass.unread)
  /\ ~ pass.unread => Holds(template.table, given.bytes)

Inductive ==
  /\ describe \in Descriptions /\ todo \in Seq(Ops) /\ builder \in Builders
  /\ phase \in {"preparing", "prepared", "encoding", "done"}
  /\ There => template.bytes \in Bytes /\ IsTable(template.table)
  /\ Asking => Given

LEMMA DescriptionIs ==
  ASSUME NEW d \in Descriptions
  PROVE  /\ LayoutOf(d) \in Seq(Ops) /\ Asked(d) \in Seq(Ops) /\ Template(d).bytes \in Bytes
         /\ \A asked \in Requests(d) : FillOf(asked.fill)
<1>1. d \in Describing /\ \A asked \in Requests(d) : FillOf(asked.fill)
  BY TemplateAssumption
<1> QED BY <1>1, DescribedIs, LayoutIn, TemplateIs DEF Asked

LEMMA InductiveInit == Init => Inductive
<1> SUFFICES ASSUME Init PROVE Inductive
  OBVIOUS
<1> USE DEF Init
<1>1. todo \in Seq(Ops) /\ builder \in Builders
  BY DescriptionIs, NewBuilderKept
<1> QED BY <1>1 DEF Inductive, There, Asking

\* A step of the layout that prepares, and the end of preparing.
LEMMA PrepareKeeps ==
  ASSUME Inductive, NEW op, Prepare(op)
  PROVE  Inductive'
<1> USE DEF Prepare, preparing, encoding
<1>1. todo \in Seq(Ops) /\ todo # <<>>
  BY DEF Inductive
<1>2. Head(todo) \in Ops /\ Tail(todo) \in Seq(Ops)
  BY <1>1
<1>3. todo' \in Seq(Ops) /\ builder' \in Builders
  BY <1>2, BuildKept DEF Inductive
<1> QED BY <1>3 DEF Inductive, There, Asking

LEMMA FinishKeeps ==
  ASSUME Inductive, FinishTemplate
  PROVE  Inductive'
<1> DEFINE prepared == Finish(Stash(builder, StashText(describe)))
<1>1. prepared.bytes \in Bytes /\ IsTable(prepared.table)
  <2>1. Stash(builder, StashText(describe)) \in Builders
    BY StashTextIn, StashKept DEF Inductive
  <2> QED BY <2>1, FinishIs
<1> HIDE DEF prepared
<1>2. template' = [table |-> prepared.table, bytes |-> prepared.bytes,
                   key |-> KeySpan(describe, prepared.table)]
  BY DEF FinishTemplate, prepared
<1>3. template'.bytes = prepared.bytes /\ template'.table = prepared.table
  BY <1>2
<1>4. template'.bytes \in Bytes /\ IsTable(template'.table)
  BY <1>1, <1>3
<1>5. /\ phase' \in {"prepared", "done"} /\ UNCHANGED <<describe, todo, builder, encoding>>
      /\ phase' = "done" => outcome' \in {"too large", "panic"}
  BY DEF FinishTemplate
<1>6. ~ Asking'
  BY <1>5 DEF Asking
<1> QED BY <1>4, <1>5, <1>6 DEF Inductive

\* A request is read from bytes that a caller has.
LEMMA StartIs ==
  ASSUME IsTable(template.table), NEW bytes, NEW junk, NEW fill
  PROVE  LET start == StartPass(bytes, junk, fill)
         IN  /\ start \in Passes(start.bodyLen, start.unread)
             /\ ~ start.unread => Holds(template.table, bytes)
<1> DEFINE start == StartPass(bytes, junk, fill)
           table == template.table
           len == BodyLen(table, StepsOf(table, bytes, junk), TextOf(table, bytes), fill)
<1>1. \/ start = UnreadPass(table)
      \/ Holds(table, bytes) /\ start = NewState(table, len)
  BY DEF StartPass, NewPass
<1> HIDE DEF start, len
<1>2. CASE start = UnreadPass(table)
  <2>1. start \in Passes(0, TRUE)
    BY <1>2, NewStateKept
  <2>2. start.bodyLen = 0 /\ start.unread = TRUE
    BY <2>1, PassIs
  <2> QED BY <2>1, <2>2 DEF start
<1>3. CASE Holds(table, bytes) /\ start = NewState(table, len)
  <2>1. start \in Passes(len, FALSE)
    BY <1>3, NewStateKept
  <2>2. start.bodyLen = len /\ start.unread = FALSE
    BY <2>1, PassIs
  <2> QED BY <1>3, <2>1, <2>2 DEF start
<1> QED BY <1>1, <1>2, <1>3

LEMMA EncodeKeeps ==
  ASSUME Inductive, NEW bytes \in Bytes, NEW junk \in StepsKept, NEW asked \in Requests(describe),
         Encode(bytes, junk, asked)
  PROVE  Inductive'
<1> DEFINE start == StartPass(bytes, junk, asked.fill)
<1>1. describe \in Descriptions /\ template.bytes \in Bytes /\ IsTable(template.table)
  BY DEF Inductive, There, Encode
<1>2. start \in Passes(start.bodyLen, start.unread) /\ (~ start.unread => Holds(template.table, bytes))
  BY <1>1, StartIs
<1>3. /\ pass' = start /\ request' = asked /\ template' = template /\ builder' = builder
      /\ given' = [bytes |-> bytes, junk |-> junk] /\ describe' = describe
      /\ todo' = Asked(describe) /\ phase' \in {"encoding", "done"}
  BY DEF Encode, preparing
<1> HIDE DEF start
<1>4. FillOf(asked.fill) /\ Asked(describe) \in Seq(Ops)
  BY <1>1, DescriptionIs
<1>5. given'.bytes = bytes /\ given'.junk = junk
  BY <1>3
<1>6. Given'
  BY <1>2, <1>3, <1>4, <1>5 DEF Given
<1>7. builder \in Builders
  BY DEF Inductive
<1> QED BY <1>1, <1>3, <1>4, <1>6, <1>7 DEF Inductive

LEMMA EncodeOwnKeeps ==
  ASSUME Inductive, EncodeOwn
  PROVE  Inductive'
<1>1. PICK asked \in Requests(describe) : Encode(template.bytes, EmptyStep, asked)
  BY DEF EncodeOwn
<1>2. template.bytes \in Bytes
  BY <1>1 DEF Encode, Inductive, There
<1> QED BY <1>1, <1>2, EmptyStepKept, EncodeKeeps

LEMMA EncodeOtherKeeps ==
  ASSUME Inductive, EncodeOther
  PROVE  Inductive'
<1>1. PICK other \in Descriptions, junk \in Junk, asked \in Requests(describe) :
        Encode(Template(other).bytes, junk, asked)
  BY DEF EncodeOther
<1>2. Template(other).bytes \in Bytes
  BY DescriptionIs
<1>3. junk \in StepsKept
  <2>1. STRING \subseteq Words
    BY DEF Words
  <2>2. junk \in StepsRead
    BY TemplateAssumption
  <2> HIDE DEF Words
  <2> QED BY <2>1, <2>2 DEF StepsRead, StepsKept
<1> QED BY <1>1, <1>2, <1>3, EncodeKeeps

\* What a request is written from is a table's steps and a text.
LEMMA GivenIs ==
  ASSUME Given, IsTable(template.table)
  PROVE  /\ GivenSteps \in Seq(StepsKept) /\ GivenText \in Wording
         /\ ~ pass.unread => Len(GivenSteps) = template.table.total
<1>1. given.bytes \in Bytes /\ given.junk \in StepsKept
      /\ (~ pass.unread => Holds(template.table, given.bytes))
  BY DEF Given
<1>2. <<>> \in Seq(StepsKept) /\ <<>> \in Wording
  BY DEF Wording
<1> QED BY <1>1, <1>2, OwnPartsRead DEF GivenSteps, GivenText

LEMMA EncodeOpKeeps ==
  ASSUME Inductive, NEW op, EncodeOp(op)
  PROVE  Inductive'
<1> USE DEF EncodeOp, preparing
<1>1. phase = "encoding" /\ todo \in Seq(Ops) /\ todo # <<>>
  BY DEF Inductive
<1>2. Head(todo) \in Ops /\ Tail(todo) \in Seq(Ops)
  BY <1>1
<1>3. Given /\ IsTable(template.table) /\ template.bytes \in Bytes
  BY <1>1 DEF Inductive, There, Asking
<1>4. pass' \in Passes(pass.bodyLen, pass.unread)
  <2>1. pass \in Passes(pass.bodyLen, pass.unread) /\ FillOf(request.fill)
    BY <1>3 DEF Given
  <2>2. GivenSteps \in Seq(StepsKept) /\ GivenText \in Wording
    BY <1>3, GivenIs
  <2>3. pass' = Pass(pass, Head(todo), template.table, request.fill, GivenSteps, GivenText)
    OBVIOUS
  <2> QED BY <1>2, <1>3, <2>1, <2>2, <2>3, PassKept
<1>5. pass'.bodyLen = pass.bodyLen /\ pass'.unread = pass.unread
  BY <1>4, PassIs
<1>6. /\ given' = given /\ request' = request /\ template' = template /\ phase' = phase
      /\ todo' = Tail(todo) /\ describe' = describe /\ builder' = builder
  OBVIOUS
<1>7. Given'
  BY <1>3, <1>4, <1>5, <1>6 DEF Given
<1> QED BY <1>2, <1>3, <1>6, <1>7 DEF Inductive

LEMMA FinishRequestKeeps ==
  ASSUME Inductive, FinishRequest
  PROVE  Inductive'
<1> USE DEF FinishRequest, preparing
<1>1. phase = "encoding"
  OBVIOUS
<1>2. Given /\ IsTable(template.table) /\ template.bytes \in Bytes
  BY <1>1 DEF Inductive, There, Asking
<1>3. pass' \in Passes(pass.bodyLen, pass.unread)
  <2>1. pass \in Passes(pass.bodyLen, pass.unread)
    BY <1>2 DEF Given
  <2>2. GivenSteps \in Seq(StepsKept) /\ GivenText \in Wording
    BY <1>2, GivenIs
  <2>3. pass' = FinishPass(pass, GivenSteps, GivenText)
    OBVIOUS
  <2> QED BY <2>1, <2>2, <2>3, FinishPassKept
<1>4. pass'.bodyLen = pass.bodyLen /\ pass'.unread = pass.unread
  BY <1>3, PassIs
<1>5. /\ given' = given /\ request' = request /\ template' = template /\ phase' = "done"
      /\ todo' = todo /\ describe' = describe /\ builder' = builder
  OBVIOUS
<1>6. Given'
  BY <1>2, <1>3, <1>4, <1>5 DEF Given
<1> QED BY <1>2, <1>5, <1>6 DEF Inductive

LEMMA InductiveNext == Inductive /\ [Next]_vars => Inductive'
<1> SUFFICES ASSUME Inductive, [Next]_vars PROVE Inductive'
  OBVIOUS
<1>1. CASE PrepareSection \/ PrepareText \/ PrepareHole \/ PrepareFields \/ PrepareParam
  BY <1>1, PrepareKeeps DEF PrepareSection, PrepareText, PrepareHole, PrepareFields, PrepareParam
<1>2. CASE FinishTemplate
  BY <1>2, FinishKeeps
<1>3. CASE EncodeOwn
  BY <1>3, EncodeOwnKeeps
<1>4. CASE EncodeOther
  BY <1>4, EncodeOtherKeeps
<1>5. CASE EncodeSection \/ EncodeText \/ EncodeHole \/ EncodeFields \/ EncodeParam
  BY <1>5, EncodeOpKeeps DEF EncodeSection, EncodeText, EncodeHole, EncodeFields, EncodeParam
<1>6. CASE FinishRequest
  BY <1>6, FinishRequestKeeps
<1>7. CASE UNCHANGED vars
  BY <1>7 DEF vars, Inductive, There, Asking, Given
<1> QED BY <1>1, <1>2, <1>3, <1>4, <1>5, <1>6, <1>7 DEF Next

LEMMA InductiveInRange == Inductive => PartsInRange
<1> SUFFICES ASSUME Inductive, phase = "done", outcome \in {"written", "template"}, ~ pass.unread
             PROVE  /\ Within(Parts(pass, template.table))
                    /\ LET walked == WalkRequest(template.table, GivenSteps, GivenText, request.fill)
                       IN  walked.failed \/ Within(Parts(walked, template.table))
  BY DEF PartsInRange, Within, WrittenParts
<1>1. Given /\ IsTable(template.table)
  BY DEF Inductive, There, Asking
<1>2. Within(Parts(pass, template.table))
  BY <1>1, PartsWithin DEF Given
<1>3. Within(Parts(WalkRequest(template.table, GivenSteps, GivenText, request.fill), template.table))
  <2>1. FillOf(request.fill)
    BY <1>1 DEF Given
  <2>2. PICK len : WalkRequest(template.table, GivenSteps, GivenText, request.fill) \in Passes(len, FALSE)
    BY <1>1, <2>1, GivenIs, WalkRequestKept
  <2> QED BY <2>2, PartsWithin
<1> QED BY <1>2, <1>3

\* Whatever bytes a caller hands back, and whatever a template describes, the
\* parts of a request that is written lie within what was written, and so do
\* those of the one that the table's walk writes (WriteState::written).
THEOREM TemplatePartsInRange == Spec => []PartsInRange
<1>1. Spec => []Inductive
  BY InductiveInit, InductiveNext, PTL DEF Spec
<1> QED BY <1>1, InductiveInRange, PTL

-----------------------------------------------------------------------------
(* What a template has been prepared from.                                  *)

\* A layout that a description has, and how it goes.
LEMMA DescriptionRuns ==
  ASSUME NEW d \in Descriptions
  PROVE  \E at : Runs6(LayoutOf(d), at)
<1> DEFINE layout == LayoutOf(d)
<1>1. Goes(layout, <<0, 0>>, <<5, 1>>)
  BY TemplateAssumption, DescribedIs, LayoutGoes
<1>2. \A n \in DOMAIN layout : Proper(layout[n])
  BY LayoutAssumption
<1> HIDE DEF layout
<1>3. layout \in Seq(Ops) /\ DOMAIN layout = 1 .. Len(layout)
  BY <1>1 DEF Goes
<1>4. PICK at \in [0 .. Len(layout) -> Stages] :
        at[0] = <<0, 0>> /\ at[Len(layout)] = <<5, 1>> /\ GoesBy(layout, at)
  BY <1>1 DEF Goes
<1>5. Runs6(layout, at)
  BY <1>2, <1>3, <1>4 DEF Runs6
<1> QED BY <1>5 DEF layout

\* One operation more.
LEMMA BuiltMore ==
  ASSUME NEW layout \in Seq(Ops), NEW n \in 0 .. Len(layout), n < Len(layout),
         NEW r, Built(r, layout, n)
  PROVE  \E q : Built(q, layout, n + 1) /\ q[n + 1] = Build(r[n], layout[n + 1])
<1> DEFINE more == Build(r[n], layout[n + 1])
           q == [i \in 0 .. n + 1 |-> IF i = n + 1 THEN more ELSE r[i]]
<1>0. n \in Nat /\ n + 1 \in 1 .. Len(layout) /\ layout[n + 1] \in Ops /\ n \in 0 .. n
      /\ \A i \in 0 .. n : i \in 0 .. n + 1 /\ i # n + 1
  OBVIOUS
<1>1. r[n] \in Builders /\ r[0] = NewBuilder /\ 0 \in 0 .. n
  BY <1>0 DEF Built
<1>2. more \in Builders
  BY <1>0, <1>1, BuildKept
<1> HIDE DEF more
<1>3. q \in [0 .. n + 1 -> Builders] /\ q[n + 1] = more /\ \A i \in 0 .. n : q[i] = r[i]
  <2>1. \A i \in 0 .. n + 1 : i # n + 1 => i \in 0 .. n
    BY <1>0
  <2>2. n + 1 \in 0 .. n + 1
    BY <1>0
  <2> QED BY <1>0, <1>2, <2>1, <2>2 DEF Built
<1> HIDE DEF q
<1>4. ASSUME NEW i \in 1 .. n + 1
      PROVE  q[i] = Build(q[i - 1], layout[i])
  <2>1. CASE i = n + 1
    <3>1. i - 1 = n
      BY <1>0, <2>1
    <3> QED BY <1>0, <1>3, <2>1, <3>1 DEF more
  <2>2. CASE i # n + 1
    <3>1. i \in 1 .. n /\ i \in 0 .. n /\ i - 1 \in 0 .. n
      BY <1>0, <2>2
    <3> QED BY <1>3, <3>1 DEF Built
  <2> QED BY <2>1, <2>2
<1>5. Built(q, layout, n + 1)
  BY <1>1, <1>3, <1>4 DEF Built
<1> QED BY <1>3, <1>5 DEF more

\* What the builder has built so far, and what is left of its layout.
Building ==
  LET layout == LayoutOf(describe)
  IN  \E n \in 0 .. Len(layout) : \E r :
        Built(r, layout, n) /\ builder = r[n] /\ todo = SubSeq(layout, n + 1, Len(layout))

\* The template is what is finished of the whole layout.
Prepared6(d, made, b) ==
  LET f == Finish(Stash(b, StashText(d)))
  IN  made.bytes = f.bytes /\ made.table = f.table /\ made.key = KeySpan(d, f.table)
OfLayout(d, made) ==
  LET layout == LayoutOf(d)
  IN  \E r : Built(r, layout, Len(layout)) /\ Prepared6(d, made, r[Len(layout)])

History ==
  /\ describe \in Descriptions
  /\ phase = "preparing" => Building
  /\ phase \in {"prepared", "encoding"} \/ outcome \in {"written", "template", "url too long"}
       => OfLayout(describe, template)

LEMMA HistoryInit == Init => History
<1> SUFFICES ASSUME Init PROVE History
  OBVIOUS
<1> DEFINE layout == LayoutOf(describe)
           r == [i \in 0 .. 0 |-> NewBuilder]
<1>1. describe \in Descriptions /\ todo = layout /\ builder = NewBuilder /\ phase = "preparing"
      /\ outcome = "none"
  BY DEF Init
<1>2. layout \in Seq(Ops)
  BY <1>1, DescriptionIs
<1> HIDE DEF layout
<1>3. Built(r, layout, 0) /\ r[0] = NewBuilder
  BY NewBuilderKept DEF Built
<1>4. layout = SubSeq(layout, 0 + 1, Len(layout)) /\ 0 \in 0 .. Len(layout)
  BY <1>2
<1> HIDE DEF r
<1>5. Building
  BY <1>1, <1>3, <1>4 DEF Building, layout
<1> QED BY <1>1, <1>5 DEF History

\* What is left of a layout, one operation later.
LEMMA RestIs ==
  ASSUME NEW layout \in Seq(Ops), NEW n \in 0 .. Len(layout),
         SubSeq(layout, n + 1, Len(layout)) # <<>>
  PROVE  /\ n < Len(layout)
         /\ Head(SubSeq(layout, n + 1, Len(layout))) = layout[n + 1]
         /\ Tail(SubSeq(layout, n + 1, Len(layout))) = SubSeq(layout, n + 1 + 1, Len(layout))
<1> DEFINE k == Len(layout)
           rest == SubSeq(layout, n + 1, k)
           next == SubSeq(layout, n + 1 + 1, k)
<1>1. n < k /\ k \in Nat /\ n \in Nat
  OBVIOUS
<1>2. /\ rest \in Seq(Ops) /\ Len(rest) = k - n /\ \A i \in 1 .. k - n : rest[i] = layout[n + i]
      /\ next \in Seq(Ops) /\ Len(next) = k - n - 1 /\ \A i \in 1 .. k - n - 1 : next[i] = layout[n + 1 + i]
  BY <1>1
<1> HIDE DEF rest, next, k
<1>3. Head(rest) = layout[n + 1]
  BY <1>1, <1>2
<1>4. Tail(rest) = next
  <2>1. Tail(rest) \in Seq(Ops) /\ Len(Tail(rest)) = k - n - 1
        /\ \A i \in 1 .. k - n - 1 : Tail(rest)[i] = rest[i + 1]
    BY <1>1, <1>2
  <2>2. \A i \in 1 .. k - n - 1 : Tail(rest)[i] = next[i]
    <3> SUFFICES ASSUME NEW i \in 1 .. k - n - 1 PROVE Tail(rest)[i] = next[i]
      OBVIOUS
    <3>1. i + 1 \in 1 .. k - n /\ n + (i + 1) = n + 1 + i
      BY <1>1
    <3> QED BY <1>2, <2>1, <3>1
  <2> QED BY <1>2, <2>1, <2>2, SeqEqual
<1> QED BY <1>1, <1>3, <1>4 DEF rest, next, k

LEMMA HistoryPrepare ==
  ASSUME History, NEW op, Prepare(op)
  PROVE  History'
<1> DEFINE layout == LayoutOf(describe)
<1>1. /\ phase = "preparing" /\ todo # <<>> /\ builder' = Build(builder, Head(todo))
      /\ todo' = Tail(todo) /\ describe' = describe /\ phase' = phase /\ template' = template
      /\ outcome' = outcome
  BY DEF Prepare, encoding
<1>2. PICK n \in 0 .. Len(layout) : \E r :
        Built(r, layout, n) /\ builder = r[n] /\ todo = SubSeq(layout, n + 1, Len(layout))
  BY <1>1 DEF History, Building
<1>3. PICK r : Built(r, layout, n) /\ builder = r[n] /\ todo = SubSeq(layout, n + 1, Len(layout))
  BY <1>2
<1>4. layout \in Seq(Ops) /\ describe \in Descriptions
  BY DescriptionIs DEF History
<1>5. layout' = layout
  BY <1>1
<1> HIDE DEF layout
<1>6. /\ n < Len(layout) /\ Head(todo) = layout[n + 1]
      /\ Tail(todo) = SubSeq(layout, n + 1 + 1, Len(layout))
  BY <1>1, <1>3, <1>4, RestIs
<1>7. PICK q : Built(q, layout, n + 1) /\ q[n + 1] = Build(r[n], layout[n + 1])
  BY <1>3, <1>4, <1>6, BuiltMore
<1>8. n + 1 \in 0 .. Len(layout)
  BY <1>4, <1>6
<1>9. Building'
  <2>1. builder' = q[n + 1] /\ todo' = SubSeq(layout', n + 1 + 1, Len(layout'))
    BY <1>1, <1>3, <1>5, <1>6, <1>7
  <2>2. Built(q, layout', n + 1) /\ n + 1 \in 0 .. Len(layout')
    BY <1>5, <1>7, <1>8
  <2> QED BY <2>1, <2>2 DEF Building, layout
<1>10. ~ (phase \in {"prepared", "encoding"})
  BY <1>1
<1> QED BY <1>1, <1>4, <1>9, <1>10 DEF History, OfLayout

LEMMA HistoryFinish ==
  ASSUME History, FinishTemplate
  PROVE  History'
<1> DEFINE layout == LayoutOf(describe)
           prepared == Finish(Stash(builder, StashText(describe)))
<1>1. phase = "preparing" /\ todo = <<>> /\ describe' = describe /\ phase' # "preparing"
  BY DEF FinishTemplate
<1>2. template' = [table |-> prepared.table, bytes |-> prepared.bytes,
                   key |-> KeySpan(describe, prepared.table)]
  BY DEF FinishTemplate
<1>3. PICK n \in 0 .. Len(layout) : \E r :
        Built(r, layout, n) /\ builder = r[n] /\ todo = SubSeq(layout, n + 1, Len(layout))
  BY <1>1 DEF History, Building
<1>4. PICK r : Built(r, layout, n) /\ builder = r[n] /\ todo = SubSeq(layout, n + 1, Len(layout))
  BY <1>3
<1>5. layout \in Seq(Ops) /\ describe \in Descriptions
  BY DescriptionIs DEF History
<1>6. layout' = layout
  BY <1>1
<1> HIDE DEF layout, prepared
<1>7. n = Len(layout)
  <2>1. SubSeq(layout, n + 1, Len(layout)) = <<>>
    BY <1>1, <1>4
  <2>2. Len(SubSeq(layout, n + 1, Len(layout))) = 0
    BY <2>1
  <2> HIDE <2>1
  <2> QED BY <1>5, <2>2
<1>8. /\ template'.bytes = prepared.bytes /\ template'.table = prepared.table
      /\ template'.key = KeySpan(describe, prepared.table)
  BY <1>2
<1>9. Prepared6(describe, template', r[n])
  BY <1>4, <1>8 DEF Prepared6, prepared
<1>10. OfLayout(describe, template')
  BY <1>4, <1>7, <1>9 DEF OfLayout, layout
<1> QED BY <1>1, <1>5, <1>10 DEF History

LEMMA HistoryNext == History /\ [Next]_vars => History'
<1> SUFFICES ASSUME History, [Next]_vars PROVE History'
  OBVIOUS
<1>1. CASE PrepareSection \/ PrepareText \/ PrepareHole \/ PrepareFields \/ PrepareParam
  BY <1>1, HistoryPrepare DEF PrepareSection, PrepareText, PrepareHole, PrepareFields, PrepareParam
<1>2. CASE FinishTemplate
  BY <1>2, HistoryFinish
<1>3. CASE EncodeOwn \/ EncodeOther
  BY <1>3 DEF EncodeOwn, EncodeOther, Encode, preparing, History
<1>5. CASE EncodeSection \/ EncodeText \/ EncodeHole \/ EncodeFields \/ EncodeParam
  BY <1>5 DEF EncodeSection, EncodeText, EncodeHole, EncodeFields, EncodeParam, EncodeOp,
              preparing, History
<1>6. CASE FinishRequest
  BY <1>6 DEF FinishRequest, preparing, History
<1>7. CASE UNCHANGED vars
  BY <1>7 DEF vars, History, Building
<1> QED BY <1>1, <1>2, <1>3, <1>5, <1>6, <1>7 DEF Next

LEMMA HistoryTabled == History => TableOfTheLayout
<1> SUFFICES ASSUME History, phase = "prepared" PROVE TableOfTheLayout
  BY DEF TableOfTheLayout
<1> DEFINE layout == LayoutOf(describe)
           stash == StashText(describe)
<1>1. describe \in Descriptions /\ OfLayout(describe, template)
  BY DEF History
<1>2. PICK r : Built(r, layout, Len(layout)) /\ Prepared6(describe, template, r[Len(layout)])
  BY <1>1 DEF OfLayout
<1>3. PICK at : Runs6(layout, at)
  BY <1>1, DescriptionRuns
<1>4. layout \in Seq(Ops) /\ stash \in Wording
  BY <1>1, DescriptionIs, StashTextIn
<1> DEFINE k == Len(layout)
           b == r[k]
           f == Finish(Stash(b, stash))
<1>5. Prepared6(describe, template, b) /\ f.bytes = template.bytes /\ f.table = template.table
  BY <1>2 DEF Prepared6
<1> HIDE DEF layout, stash, f
<1>6. k \in 0 .. Len(layout) /\ k \in 0 .. k
  BY <1>4
<1>7. Tidy(b, b.section) /\ b.section = at[k][1]
  BY <1>2, <1>3, <1>6, BuiltTidy
<1>8. b.section = 5
  BY <1>3, <1>7 DEF Runs6
<1> HIDE DEF b
<1>9. Prepares(EndOf(b), f.bytes, f.table, stash)
  BY <1>4, <1>7, <1>8, FinishPrepares DEF f
<1>10. Tabled(template.bytes, template.table, stash)
  <2> DEFINE e == EndOf(b)
             bytes == template.bytes
             table == template.table
  <2>1. Prepares(e, bytes, table, stash)
    BY <1>5, <1>9
  <2> HIDE DEF e, bytes, table
  <2>2. Tabled(bytes, table, stash)
    BY <1>4, <2>1, PreparedIsTabled
  <2> QED BY <2>2 DEF bytes, table
<1> QED BY <1>10 DEF TableOfTheLayout, Tabled, stash

\* The table of every template is that of its layout: each step is one hole or
\* the end of one section, and the steps' runs and names are the text of the
\* sections (template.rs, Builder and finish).
THEOREM TemplateTableOfTheLayout == Spec => []TableOfTheLayout
<1>1. Spec => []History
  BY HistoryInit, HistoryNext, PTL DEF Spec
<1> QED BY <1>1, HistoryTabled, PTL

-----------------------------------------------------------------------------
(* What a request's pass leaves out of the layout of its template.          *)

\* Operations that a pass does not tell apart: it writes no text of its own.
Alike(one, two) == one = two \/ (one.op = "text" /\ two.op = "text")
AlikeAll(one, two) ==
  /\ one \in Seq(Ops) /\ two \in Seq(Ops) /\ Len(one) = Len(two)
  /\ \A i \in 1 .. Len(one) : Alike(one[i], two[i])

IsOptional(op) == op.op = "param" /\ op.param.mode = "optional"
IsFixed(op) == op.op = "param" /\ op.param.mode = "fixed"

\* `asks` is `all` without the `skip` operations after the first `from`.
Past(i, from, skip) == IF i <= from THEN i ELSE i + skip
LeavesOut(asks, all, from, skip) ==
  /\ asks \in Seq(Ops) /\ all \in Seq(Ops) /\ skip \in Nat /\ from \in 0 .. Len(asks)
  /\ Len(all) = Len(asks) + skip
  /\ \A i \in 1 .. Len(asks) : Alike(asks[i], all[Past(i, from, skip)])
  /\ \A i \in 1 .. from : ~ IsOptional(all[i])
  /\ \A i \in from + 1 .. from + skip : IsFixed(all[i])

LEMMA AlikeSelf ==
  ASSUME NEW one \in Seq(Ops)
  PROVE  AlikeAll(one, one)
BY DEF AlikeAll, Alike

LEMMA AlikeOne ==
  ASSUME NEW one \in Ops, NEW two \in Ops, Alike(one, two)
  PROVE  AlikeAll(<<one>>, <<two>>)
BY DEF AlikeAll

LEMMA AlikeOn ==
  ASSUME NEW one, NEW two, NEW three, NEW four, AlikeAll(one, two), AlikeAll(three, four)
  PROVE  AlikeAll(one \o three, two \o four)
<1>1. /\ one \in Seq(Ops) /\ two \in Seq(Ops) /\ three \in Seq(Ops) /\ four \in Seq(Ops)
      /\ Len(one) = Len(two) /\ Len(three) = Len(four) /\ Len(one) \in Nat /\ Len(three) \in Nat
  BY DEF AlikeAll
<1>2. /\ one \o three \in Seq(Ops) /\ Len(one \o three) = Len(one) + Len(three)
      /\ \A i \in 1 .. Len(one) + Len(three) :
           (one \o three)[i] = IF i <= Len(one) THEN one[i] ELSE three[i - Len(one)]
  BY <1>1, ConcatProperties
<1>3. /\ two \o four \in Seq(Ops) /\ Len(two \o four) = Len(two) + Len(four)
      /\ \A i \in 1 .. Len(two) + Len(four) :
           (two \o four)[i] = IF i <= Len(two) THEN two[i] ELSE four[i - Len(two)]
  BY <1>1, ConcatProperties
<1>4. ASSUME NEW i \in 1 .. Len(one \o three)
      PROVE  Alike((one \o three)[i], (two \o four)[i])
  <2>1. CASE i <= Len(one)
    <3>1. i \in 1 .. Len(one)
      BY <1>1, <1>2, <2>1
    <3> QED BY <1>1, <1>2, <1>3, <2>1, <3>1 DEF AlikeAll
  <2>2. CASE i > Len(one)
    <3>1. i - Len(one) \in 1 .. Len(three)
      BY <1>1, <1>2, <2>2
    <3>2. (one \o three)[i] = three[i - Len(one)] /\ (two \o four)[i] = four[i - Len(one)]
      BY <1>1, <1>2, <1>3, <2>2
    <3> QED BY <3>1, <3>2 DEF AlikeAll
  <2> QED BY <1>1, <1>2, <2>1, <2>2
<1> QED BY <1>1, <1>2, <1>3, <1>4 DEF AlikeAll

LEMMA LeavesOutBefore ==
  ASSUME NEW asks, NEW all, NEW from, NEW skip, LeavesOut(asks, all, from, skip), NEW start \in Seq(Ops),
         \A i \in 1 .. Len(start) : ~ IsOptional(start[i])
  PROVE  LeavesOut(start \o asks, start \o all, Len(start) + from, skip)
<1> DEFINE n == Len(start)
           some == start \o asks
           every == start \o all
<1>1. /\ asks \in Seq(Ops) /\ all \in Seq(Ops) /\ skip \in Nat /\ from \in 0 .. Len(asks)
      /\ Len(all) = Len(asks) + skip /\ n \in Nat /\ Len(asks) \in Nat
  BY DEF LeavesOut
<1>2. /\ some \in Seq(Ops) /\ Len(some) = n + Len(asks)
      /\ \A i \in 1 .. n + Len(asks) : some[i] = IF i <= n THEN start[i] ELSE asks[i - n]
  BY <1>1, ConcatProperties
<1>3. /\ every \in Seq(Ops) /\ Len(every) = n + Len(all)
      /\ \A i \in 1 .. n + Len(all) : every[i] = IF i <= n THEN start[i] ELSE all[i - n]
  BY <1>1, ConcatProperties
<1>4. \A i \in 1 .. n : ~ IsOptional(start[i])
  OBVIOUS
<1> HIDE DEF n, some, every
<1>5. ASSUME NEW i \in 1 .. Len(some)
      PROVE  Alike(some[i], every[Past(i, n + from, skip)])
  <2>1. CASE i <= n
    <3>0. i \in 1 .. n + Len(asks) /\ i \in 1 .. n + Len(all)
      BY <1>1, <1>2, <2>1
    <3>1. some[i] = start[i] /\ every[i] = start[i]
      BY <1>2, <1>3, <2>1, <3>0
    <3>2. Past(i, n + from, skip) = i
      BY <1>1, <2>1 DEF Past
    <3> QED BY <3>1, <3>2 DEF Alike
  <2>2. CASE i > n
    <3> DEFINE j == i - n
    <3>1. j \in 1 .. Len(asks) /\ some[i] = asks[j]
      <4>1. i \in 1 .. n + Len(asks) /\ ~ (i <= n) /\ j \in 1 .. Len(asks)
        BY <1>1, <1>2, <2>2
      <4>2. some[i] = IF i <= n THEN start[i] ELSE asks[i - n]
        BY <1>2, <4>1
      <4> QED BY ONLY <4>1, <4>2
    <3>2. Alike(asks[j], all[Past(j, from, skip)])
      BY <3>1 DEF LeavesOut
    <3>3. Past(i, n + from, skip) = n + Past(j, from, skip) /\ Past(j, from, skip) \in 1 .. Len(all)
      BY <1>1, <3>1 DEF Past
    <3> DEFINE k == Past(j, from, skip)
    <3>4. k \in 1 .. Len(all) /\ Past(i, n + from, skip) = n + k /\ Alike(asks[j], all[k])
      BY <3>2, <3>3
    <3> HIDE DEF k
    <3>5. every[n + k] = all[k]
      <4> DEFINE m == n + k
      <4>1. m \in 1 .. n + Len(all) /\ ~ (m <= n) /\ m - n = k
        BY <1>1, <3>4
      <4> HIDE DEF m
      <4>2. every[m] = all[m - n]
        BY <1>3, <4>1
      <4> QED BY <4>1, <4>2 DEF m
    <3> QED BY <3>1, <3>4, <3>5
  <2> QED BY <1>1, <1>2, <2>1, <2>2
<1>6. ASSUME NEW i \in 1 .. n + from
      PROVE  ~ IsOptional(every[i])
  <2>1. CASE i <= n
    <3>1. i \in 1 .. n /\ i \in 1 .. n + Len(all)
      BY <1>1, <2>1
    <3>2. every[i] = IF i <= n THEN start[i] ELSE all[i - n]
      BY <1>3, <3>1
    <3>3. every[i] = start[i]
      BY ONLY <2>1, <3>2
    <3>4. ~ IsOptional(start[i])
      BY <1>4, <3>1
    <3> QED BY <3>3, <3>4
  <2>2. CASE i > n
    <3>1. i - n \in 1 .. from /\ i \in 1 .. n + Len(all)
      BY <1>1, <2>2
    <3>2. every[i] = IF i <= n THEN start[i] ELSE all[i - n]
      BY <1>3, <3>1
    <3>3. every[i] = all[i - n]
      BY ONLY <1>1, <2>2, <3>1, <3>2
    <3> QED BY <3>1, <3>3 DEF LeavesOut
  <2> QED BY <1>1, <2>1, <2>2
<1>7. ASSUME NEW i \in n + from + 1 .. n + from + skip
      PROVE  IsFixed(every[i])
  <2>1. i - n \in from + 1 .. from + skip /\ i \in 1 .. n + Len(all) /\ ~ (i <= n)
    BY <1>1
  <2>2. every[i] = IF i <= n THEN start[i] ELSE all[i - n]
    BY <1>3, <2>1
  <2>3. every[i] = all[i - n]
    BY ONLY <2>1, <2>2
  <2> QED BY <2>1, <2>3 DEF LeavesOut
<1>8. LeavesOut(some, every, n + from, skip)
  <2>1. n + from \in 0 .. Len(some) /\ Len(every) = Len(some) + skip
    BY <1>1, <1>2, <1>3
  <2> QED BY <1>1, <1>2, <1>3, <1>5, <1>6, <1>7, <2>1 DEF LeavesOut
<1> QED BY <1>8 DEF n, some, every

LEMMA LeavesOutAfter ==
  ASSUME NEW asks, NEW all, NEW from, NEW skip, LeavesOut(asks, all, from, skip),
         NEW one, NEW two, AlikeAll(one, two)
  PROVE  LeavesOut(asks \o one, all \o two, from, skip)
<1> DEFINE n == Len(asks)
           some == asks \o one
           every == all \o two
<1>1. /\ asks \in Seq(Ops) /\ all \in Seq(Ops) /\ skip \in Nat /\ from \in 0 .. n
      /\ Len(all) = n + skip /\ n \in Nat
      /\ one \in Seq(Ops) /\ two \in Seq(Ops) /\ Len(one) = Len(two) /\ Len(one) \in Nat
  BY DEF LeavesOut, AlikeAll
<1>2. /\ some \in Seq(Ops) /\ Len(some) = n + Len(one)
      /\ \A i \in 1 .. n + Len(one) : some[i] = IF i <= n THEN asks[i] ELSE one[i - n]
  <2>1. asks \in Seq(Ops) /\ one \in Seq(Ops)
    BY <1>1
  <2> QED BY <2>1, ConcatProperties
<1>3. /\ every \in Seq(Ops) /\ Len(every) = Len(all) + Len(two)
      /\ \A i \in 1 .. Len(all) + Len(two) : every[i] = IF i <= Len(all) THEN all[i] ELSE two[i - Len(all)]
  BY <1>1, ConcatProperties
<1>9. \A i \in 1 .. n : Alike(asks[i], all[Past(i, from, skip)])
  BY DEF LeavesOut
<1> HIDE DEF n, some, every
<1>5. ASSUME NEW i \in 1 .. Len(some)
      PROVE  Alike(some[i], every[Past(i, from, skip)])
  <2>1. CASE i <= n
    <3> DEFINE k == Past(i, from, skip)
    <3>1. k \in 1 .. Len(all) /\ some[i] = asks[i] /\ i \in 1 .. n
      BY <1>1, <1>2, <2>1 DEF Past
    <3>2. Alike(asks[i], all[k])
      BY <1>9, <3>1
    <3> HIDE DEF k
    <3>3. every[k] = all[k]
      BY <1>1, <1>3, <3>1
    <3> QED BY <3>1, <3>2, <3>3 DEF k
  <2>2. CASE i > n
    <3>1. Past(i, from, skip) = i + skip /\ i - n \in 1 .. Len(one) /\ some[i] = one[i - n]
      BY <1>1, <1>2, <2>2 DEF Past
    <3>2. every[i + skip] = two[i - n]
      <4>1. i + skip \in 1 .. Len(all) + Len(two) /\ i + skip > Len(all) /\ (i + skip) - Len(all) = i - n
        BY <1>1, <1>2, <2>2
      <4> QED BY <1>1, <1>3, <4>1
    <3> QED BY <3>1, <3>2 DEF AlikeAll
  <2> QED BY <1>1, <1>2, <2>1, <2>2
<1>6. ASSUME NEW i \in 1 .. from
      PROVE  ~ IsOptional(every[i])
  <2>1. every[i] = all[i]
    BY <1>1, <1>3
  <2> QED BY <2>1 DEF LeavesOut
<1>7. ASSUME NEW i \in from + 1 .. from + skip
      PROVE  IsFixed(every[i])
  <2>1. every[i] = all[i]
    BY <1>1, <1>3
  <2> QED BY <2>1 DEF LeavesOut
<1>8. LeavesOut(some, every, from, skip)
  <2>1. from \in 0 .. Len(some) /\ Len(every) = Len(some) + skip
    BY <1>1, <1>2, <1>3
  <2> QED BY <1>1, <1>2, <1>3, <1>5, <1>6, <1>7, <2>1 DEF LeavesOut
<1> QED BY <1>8 DEF some, every

\* The parameters of a query, as operations of its layout.
ParamsOf(query) == [n \in DOMAIN query |-> Param(query[n])]

LEMMA ParamsAre ==
  ASSUME NEW query \in Seq(Parameters)
  PROVE  /\ ParamsOf(query) \in Seq(Ops) /\ Len(ParamsOf(query)) = Len(query)
         /\ \A n \in 1 .. Len(query) : ParamsOf(query)[n] = Param(query[n])
<1>1. DOMAIN query = 1 .. Len(query) /\ Len(query) \in Nat /\ \A n \in 1 .. Len(query) : query[n] \in Parameters
  OBVIOUS
<1>2. ParamsOf(query) \in [1 .. Len(query) -> Ops]
  BY <1>1, OpIs DEF ParamsOf
<1>3. ParamsOf(query) \in Seq(Ops) /\ Len(ParamsOf(query)) = Len(query)
  BY <1>1, <1>2, FunctionIsSeq
<1> QED BY <1>1, <1>3 DEF ParamsOf

\* A query as it is asked: all but the parameters between two places.
Cut(query, asked, first, last) ==
  /\ first \in Nat /\ last \in Nat /\ first <= last /\ last <= Len(query)
  /\ Len(asked) = Len(query) - (last - first)
  /\ \A n \in 1 .. Len(asked) : asked[n] = query[Past(n, first, last - first)]
  /\ \A n \in 1 .. first : query[n].mode # "optional"
  /\ \A n \in first + 1 .. last : query[n].mode = "fixed"

LEMMA CutIs ==
  ASSUME NEW X, NEW query \in Seq(X), NEW asked \in Seq(X), AsksFor(query, asked)
  PROVE  \E first, last : Cut(query, asked, first, last)
<1>1. PICK first \in 0 .. Len(query), last \in 0 .. Len(query) :
        /\ first <= last
        /\ asked = SubSeq(query, 1, first) \o SubSeq(query, last + 1, Len(query))
        /\ \A n \in 1 .. first : query[n].mode # "optional"
        /\ \A n \in first + 1 .. last : query[n].mode = "fixed"
  BY DEF AsksFor
<1> DEFINE k == Len(query)
           one == SubSeq(query, 1, first)
           two == SubSeq(query, last + 1, k)
<1>2. k \in Nat /\ first \in Nat /\ last \in Nat /\ first <= last /\ last <= k
  BY <1>1
<1>3. one \in Seq(X) /\ Len(one) = first /\ \A i \in 1 .. first : one[i] = query[i]
  <2>1. 1 \in 1 .. Len(query) + 1 /\ first \in 1 - 1 .. Len(query)
    BY <1>2
  <2>2. /\ one \in Seq(X) /\ Len(one) = first - 1 + 1
        /\ \A i \in 1 .. first - 1 + 1 : one[i] = query[1 + i - 1]
    BY <2>1, SubSeqIs
  <2>3. first - 1 + 1 = first /\ \A i \in 1 .. first : 1 + i - 1 = i
    BY <1>2
  <2> QED BY <2>2, <2>3
<1>4. two \in Seq(X) /\ Len(two) = k - last /\ \A i \in 1 .. k - last : two[i] = query[last + i]
  <2>1. last + 1 \in 1 .. Len(query) + 1 /\ k \in (last + 1) - 1 .. Len(query)
    BY <1>2
  <2>2. /\ two \in Seq(X) /\ Len(two) = k - (last + 1) + 1
        /\ \A i \in 1 .. k - (last + 1) + 1 : two[i] = query[(last + 1) + i - 1]
    BY <2>1, SubSeqIs
  <2>3. k - (last + 1) + 1 = k - last /\ \A i \in 1 .. k - last : (last + 1) + i - 1 = last + i
    BY <1>2
  <2> QED BY <2>2, <2>3
<1> HIDE DEF one, two, k
<1>5. /\ Len(one \o two) = first + (k - last)
      /\ \A i \in 1 .. first + (k - last) :
           (one \o two)[i] = IF i <= first THEN one[i] ELSE two[i - first]
  <2>1. one \in Seq(X) /\ two \in Seq(X) /\ Len(one) = first /\ Len(two) = k - last
    BY <1>3, <1>4
  <2>2. /\ Len(one \o two) = Len(one) + Len(two)
        /\ \A i \in 1 .. Len(one) + Len(two) :
             (one \o two)[i] = IF i <= Len(one) THEN one[i] ELSE two[i - Len(one)]
    BY ONLY <2>1, ConcatProperties
  <2> QED BY ONLY <2>1, <2>2
<1>6. asked = one \o two
  BY <1>1 DEF one, two, k
<1>7. Len(asked) = k - (last - first)
  BY <1>2, <1>5, <1>6
<1>8. ASSUME NEW n \in 1 .. Len(asked)
      PROVE  asked[n] = query[Past(n, first, last - first)]
  <2>1. n \in 1 .. first + (k - last)
    BY <1>2, <1>7
  <2>2. asked[n] = IF n <= first THEN one[n] ELSE two[n - first]
    BY <1>5, <1>6, <2>1
  <2>3. CASE n <= first
    BY <1>2, <1>3, <2>1, <2>2, <2>3 DEF Past
  <2>4. CASE ~ (n <= first)
    <3>1. n - first \in 1 .. k - last /\ last + (n - first) = n + (last - first)
      BY <1>2, <2>1, <2>4
    <3>2. asked[n] = query[last + (n - first)]
      BY <1>4, <2>2, <2>4, <3>1
    <3> QED BY <2>4, <3>1, <3>2 DEF Past
  <2> QED BY <2>3, <2>4
<1>9. Cut(query, asked, first, last)
  BY <1>1, <1>2, <1>7, <1>8 DEF Cut, k
<1> QED BY <1>9

LEMMA AskedParams ==
  ASSUME NEW query \in Seq(Parameters), NEW asked \in Seq(Parameters), AsksFor(query, asked)
  PROVE  /\ \E from, skip : LeavesOut(ParamsOf(asked), ParamsOf(query), from, skip)
         /\ FixedQuery(query) <=> FixedQuery(asked)
<1>1. PICK first, last : Cut(query, asked, first, last)
  BY CutIs
<1> DEFINE skip == last - first
           asks == ParamsOf(asked)
           all == ParamsOf(query)
<1>2. /\ first \in Nat /\ skip \in Nat /\ last = first + skip /\ Len(query) \in Nat /\ last <= Len(query)
      /\ Len(asked) \in Nat /\ Len(query) = Len(asked) + skip /\ first \in 0 .. Len(asked)
  BY <1>1 DEF Cut
<1>3. /\ \A n \in 1 .. Len(asked) : asked[n] = query[Past(n, first, skip)]
      /\ \A n \in 1 .. first : query[n].mode # "optional"
      /\ \A n \in first + 1 .. first + skip : query[n].mode = "fixed"
  BY <1>1, <1>2 DEF Cut
<1>4. /\ asks \in Seq(Ops) /\ Len(asks) = Len(asked) /\ \A n \in 1 .. Len(asked) : asks[n] = Param(asked[n])
      /\ all \in Seq(Ops) /\ Len(all) = Len(query) /\ \A n \in 1 .. Len(query) : all[n] = Param(query[n])
  BY ParamsAre
<1>5. \A n \in 1 .. Len(asked) : Past(n, first, skip) \in 1 .. Len(query)
  BY <1>2 DEF Past
<1> HIDE DEF skip, asks, all
<1>6. LeavesOut(asks, all, first, skip)
  <2>1. ASSUME NEW n \in 1 .. Len(asks)
        PROVE  Alike(asks[n], all[Past(n, first, skip)])
    <3> DEFINE m == Past(n, first, skip)
    <3>1. m \in 1 .. Len(query) /\ asked[n] = query[m] /\ asks[n] = Param(asked[n])
      BY <1>3, <1>4, <1>5, <2>1
    <3> HIDE DEF m
    <3>2. all[m] = Param(query[m])
      BY <1>4, <3>1
    <3> QED BY <3>1, <3>2 DEF Alike, m
  <2>2. ASSUME NEW n \in 1 .. first
        PROVE  ~ IsOptional(all[n])
    BY <1>2, <1>3, <1>4 DEF IsOptional, Param
  <2>3. ASSUME NEW n \in first + 1 .. first + skip
        PROVE  IsFixed(all[n])
    BY <1>2, <1>3, <1>4 DEF IsFixed, Param
  <2> QED BY <1>2, <1>4, <2>1, <2>2, <2>3 DEF LeavesOut
<1>7. FixedQuery(query) => FixedQuery(asked)
  <2> SUFFICES ASSUME FixedQuery(query), NEW n \in DOMAIN asked
               PROVE  asked[n].mode = "fixed"
    BY DEF FixedQuery
  <2>1. n \in 1 .. Len(asked) /\ Past(n, first, skip) \in DOMAIN query
    BY <1>5
  <2> QED BY <1>3, <2>1 DEF FixedQuery
<1>8. FixedQuery(asked) => FixedQuery(query)
  <2> SUFFICES ASSUME FixedQuery(asked), NEW n \in 1 .. Len(query)
               PROVE  query[n].mode = "fixed"
    BY DEF FixedQuery
  <2>1. \A m \in 1 .. Len(asked) : asked[m].mode = "fixed"
    BY DEF FixedQuery
  <2>2. CASE n <= first
    <3>1. n \in 1 .. Len(asked) /\ Past(n, first, skip) = n
      BY <1>2, <2>2 DEF Past
    <3> QED BY <1>3, <2>1, <3>1
  <2>3. CASE n > first /\ n <= first + skip
    <3>1. n \in first + 1 .. first + skip
      BY <1>2, <2>3
    <3> QED BY <1>3, <3>1
  <2>4. CASE n > first + skip
    <3>1. n - skip \in 1 .. Len(asked) /\ Past(n - skip, first, skip) = n
      BY <1>2, <2>4 DEF Past
    <3> QED BY <1>3, <2>1, <3>1
  <2> QED BY <1>2, <2>2, <2>3, <2>4
<1> QED BY <1>6, <1>7, <1>8 DEF asks, all

\* A description as a request asks with it.
Narrow(d) == [d EXCEPT !.query = d.asked]
ButQuery(d, e) ==
  /\ e.service = d.service /\ e.key = d.key /\ e.object = d.object /\ e.fixed = d.fixed
  /\ e.filled = d.filled /\ e.sha = d.sha /\ e.length = d.length /\ e.md5 = d.md5 /\ e.body = d.body
  /\ FixedQuery(d.query) <=> FixedQuery(e.query)

LEMMA LineAlike ==
  ASSUME NEW a \in Ops, NEW b \in Ops, NEW c \in Ops, NEW d \in Ops, NEW one \in Ops, NEW two \in Ops, Alike(one, two)
  PROVE  AlikeAll(<<a, b, one, c, d>>, <<a, b, two, c, d>>)
<1> DEFINE s == <<a, b, one, c, d>>
           t == <<a, b, two, c, d>>
<1>1. s \in Seq(Ops) /\ t \in Seq(Ops) /\ Len(s) = 5 /\ Len(t) = 5
  BY Many
<1>2. /\ s[1] = a /\ s[2] = b /\ s[3] = one /\ s[4] = c /\ s[5] = d
      /\ t[1] = a /\ t[2] = b /\ t[3] = two /\ t[4] = c /\ t[5] = d
  OBVIOUS
<1> HIDE DEF s, t
<1>3. ASSUME NEW i \in 1 .. Len(s)
      PROVE  Alike(s[i], t[i])
  <2>1. i \in {1, 2, 3, 4, 5}
    BY <1>1
  <2> QED BY <1>2, <2>1 DEF Alike
<1>4. AlikeAll(s, t)
  BY <1>1, <1>3 DEF AlikeAll
<1> QED BY <1>4 DEF s, t

LEMMA TargetAlike ==
  ASSUME NEW d, NEW e, Described(d), Described(e), ButQuery(d, e)
  PROVE  /\ Target(d) \in Ops /\ Target(e) \in Ops /\ Alike(Target(e), Target(d))
         /\ UrlFixed(d) <=> UrlFixed(e)
         /\ PathText(e) = PathText(d)
<1>1. UrlFixed(d) <=> UrlFixed(e)
  BY DEF UrlFixed, ButQuery
<1>2. Target(d) \in Ops /\ Target(e) \in Ops
  BY TargetIn, OpIs
<1>3. Alike(Target(e), Target(d))
  BY <1>1 DEF Target, Alike, Text
<1>4. PathText(e) = PathText(d)
  BY DEF PathText, ButQuery
<1> QED BY <1>1, <1>2, <1>3, <1>4

LEMMA HeadAlike ==
  ASSUME NEW d, NEW e, Described(d), Described(e), ButQuery(d, e)
  PROVE  AlikeAll(HeadLayout(e), HeadLayout(d))
<1> DEFINE method == Text(<<"method">>)
           host == Text(<<"host">>)
           section == Section(HeadSection)
           line(t) == <<section, method, t, host, Fields>>
           length == FieldOf(d.length)
           filled == FilledFields(d.filled, FALSE)
           md5 == FieldOf(d.md5)
           end == <<Text(CRLF)>>
<1>1. {"method", "host", "authorization", "name:", "HttpTime", "Day", "Signature"} \subseteq Words
  BY DEF Words
<1>2. AlikeAll(line(Target(e)), line(Target(d)))
  <2>1. method \in Ops /\ host \in Ops /\ section \in Ops /\ Fields \in Ops
    BY <1>1, WordingIs, StillIs, OpIs DEF HeadSection, Sections
  <2>2. Target(d) \in Ops /\ Target(e) \in Ops /\ Alike(Target(e), Target(d))
    BY TargetAlike
  <2> HIDE DEF method, host, section
  <2> QED BY <2>1, <2>2, LineAlike
<1>3. AlikeAll(length, length) /\ AlikeAll(filled, filled) /\ AlikeAll(md5, md5) /\ AlikeAll(end, end)
  <2>1. length \in Seq(Still) /\ filled \in Seq(Still) /\ md5 \in Seq(Still)
    BY FieldOfIn, FilledFieldsIn DEF Described
  <2>2. Text(CRLF) \in Still
    BY WordingIs, StillIs
  <2>3. end \in Seq(Still)
    BY <2>2, StillIn
  <2> HIDE DEF length, filled, md5, end
  <2>4. length \in Seq(Ops) /\ filled \in Seq(Ops) /\ md5 \in Seq(Ops) /\ end \in Seq(Ops)
    BY <2>1, <2>3, OpIs, SeqOfMore
  <2> QED BY <2>4, AlikeSelf
<1>4. CASE d.service # "s3"
  <2> DEFINE first == <<Text(<<"authorization">> \o d.fixed), Text(<<"name:">>), Hole("HttpTime"), Text(CRLF)>>
             whole(t) == <<Section(HeadSection), Text(<<"method">>), t, Text(<<"host">>), Fields,
                        Text(<<"authorization">> \o d.fixed), Text(<<"name:">>), Hole("HttpTime"), Text(CRLF)>>
  <2>1. AlikeAll(first, first)
    <3>1. <<"authorization">> \o d.fixed \in Wording
      BY <1>1, WordingIs DEF Described
    <3>2. /\ Text(<<"authorization">> \o d.fixed) \in Ops /\ Text(<<"name:">>) \in Ops
          /\ Hole("HttpTime") \in Ops /\ Text(CRLF) \in Ops
      BY <1>1, <3>1, WordingIs, StillIs, OpIs
    <3>3. first \in Seq(Ops)
      BY <3>2, Many
    <3> HIDE DEF first
    <3> QED BY <3>3, AlikeSelf
  <2>2. whole(Target(d)) = line(Target(d)) \o first /\ whole(Target(e)) = line(Target(e)) \o first
    OBVIOUS
  <2>3. /\ HeadLayout(d) = whole(Target(d)) \o length \o filled \o end
        /\ HeadLayout(e) = whole(Target(e)) \o length \o filled \o end
    BY <1>4 DEF HeadLayout, AzureHead, ButQuery
  <2> DEFINE a == line(Target(e))
             b == line(Target(d))
  <2>4. AlikeAll(a, b) /\ whole(Target(d)) = b \o first /\ whole(Target(e)) = a \o first
    BY <1>2, <2>2
  <2> HIDE DEF line, whole, first, length, filled, end, a, b
  <2>5. AlikeAll(a \o first, b \o first)
    BY <2>1, <2>4, AlikeOn
  <2>6. AlikeAll(a \o first \o length, b \o first \o length)
    BY <1>3, <2>5, AlikeOn
  <2>7. AlikeAll(a \o first \o length \o filled, b \o first \o length \o filled)
    BY <1>3, <2>6, AlikeOn
  <2>8. AlikeAll(a \o first \o length \o filled \o end, b \o first \o length \o filled \o end)
    BY <1>3, <2>7, AlikeOn
  <2> QED BY <2>3, <2>4, <2>8
<1>5. CASE d.service = "s3"
  <2> DEFINE first == <<Text(d.fixed \o <<"authorization">>), Hole("Day"), Text(ScopeText),
                        Hole("Signature"), Text(CRLF)>>
             whole(t) == <<Section(HeadSection), Text(<<"method">>), t, Text(<<"host">>), Fields,
                        Text(d.fixed \o <<"authorization">>), Hole("Day"), Text(ScopeText),
                        Hole("Signature"), Text(CRLF)>>
  <2>1. AlikeAll(first, first)
    <3>1. d.fixed \o <<"authorization">> \in Wording
      BY <1>1, WordingIs DEF Described
    <3>2. /\ Text(d.fixed \o <<"authorization">>) \in Ops /\ Hole("Day") \in Ops
          /\ Text(ScopeText) \in Ops /\ Hole("Signature") \in Ops /\ Text(CRLF) \in Ops
      BY <1>1, <3>1, WordingIs, StillIs, OpIs
    <3>3. first \in Seq(Ops)
      BY <3>2, Many
    <3> HIDE DEF first
    <3> QED BY <3>3, AlikeSelf
  <2>2. whole(Target(d)) = line(Target(d)) \o first /\ whole(Target(e)) = line(Target(e)) \o first
    OBVIOUS
  <2>3. /\ HeadLayout(d) = whole(Target(d)) \o filled \o length \o md5 \o end
        /\ HeadLayout(e) = whole(Target(e)) \o filled \o length \o md5 \o end
    BY <1>5 DEF HeadLayout, S3Head, ButQuery
  <2> DEFINE a == line(Target(e))
             b == line(Target(d))
  <2>4. AlikeAll(a, b) /\ whole(Target(d)) = b \o first /\ whole(Target(e)) = a \o first
    BY <1>2, <2>2
  <2> HIDE DEF line, whole, first, length, filled, md5, end, a, b
  <2>5. AlikeAll(a \o first, b \o first)
    BY <2>1, <2>4, AlikeOn
  <2>6. AlikeAll(a \o first \o filled, b \o first \o filled)
    BY <1>3, <2>5, AlikeOn
  <2>7. AlikeAll(a \o first \o filled \o length, b \o first \o filled \o length)
    BY <1>3, <2>6, AlikeOn
  <2>8. AlikeAll(a \o first \o filled \o length \o md5, b \o first \o filled \o length \o md5)
    BY <1>3, <2>7, AlikeOn
  <2>9. AlikeAll(a \o first \o filled \o length \o md5 \o end, b \o first \o filled \o length \o md5 \o end)
    BY <1>3, <2>8, AlikeOn
  <2> QED BY <2>3, <2>4, <2>9
<1> QED BY <1>4, <1>5

LEMMA SignedAlike ==
  ASSUME NEW d, NEW e, Described(d), Described(e), ButQuery(d, e)
  PROVE  AlikeAll(SignedLayout(e), SignedLayout(d))
<1> DEFINE whole == <<Section(CanonicalSection), Text(<<"method">>)>>
           url(c) == IF UrlFixed(c)
                       THEN <<Text(PathText(c) \o <<"LF">> \o FixedQueryText(c.query, FALSE))>>
                       ELSE <<Hole("Path"), Text(<<"LF">>), Hole("Query")>>
           line == <<Text(<<"LF">>)>>
           signed == FilledFields(d.filled, TRUE)
           names == <<Text(d.fixed), Text(<<"names">>)>>
           hash == IF d.sha = NoHole THEN <<Text(<<"hash">>)>> ELSE <<Hole(d.sha)>>
<1>1. {"method", "LF", "Path", "Query", "names", "hash"} \subseteq Words
  BY DEF Words
<1>2. /\ whole \in Seq(Ops) /\ line \in Seq(Ops) /\ signed \in Seq(Ops) /\ names \in Seq(Ops)
      /\ hash \in Seq(Ops)
  <2>1. /\ Section(CanonicalSection) \in Ops /\ Text(<<"method">>) \in Ops /\ Text(<<"LF">>) \in Ops
        /\ Text(d.fixed) \in Ops /\ Text(<<"names">>) \in Ops /\ Text(<<"hash">>) \in Ops /\ Hole(d.sha) \in Ops
    BY <1>1, WordingIs, StillIs, OpIs DEF CanonicalSection, Sections, Described
  <2>2. whole \in Seq(Ops) /\ line \in Seq(Ops) /\ names \in Seq(Ops) /\ hash \in Seq(Ops)
    BY <2>1, Few
  <2>3. signed \in Seq(Still)
    BY FilledFieldsIn DEF Described
  <2> QED BY <2>2, <2>3, OpIs, SeqOfMore
<1>3. AlikeAll(url(e), url(d))
  <2>1. UrlFixed(d) <=> UrlFixed(e)
    BY TargetAlike
  <2>2. CASE UrlFixed(d)
    <3> DEFINE one == Text(PathText(e) \o <<"LF">> \o FixedQueryText(e.query, FALSE))
               two == Text(PathText(d) \o <<"LF">> \o FixedQueryText(d.query, FALSE))
    <3>1. /\ FixedQueryText(d.query, FALSE) \in Wording /\ PathText(d) \in Wording
          /\ FixedQueryText(e.query, FALSE) \in Wording /\ PathText(e) \in Wording
      BY FixedQueryTextIn, PathTextIn DEF Described
    <3>2. PathText(d) \o <<"LF">> \in Wording /\ PathText(e) \o <<"LF">> \in Wording
      BY <1>1, <3>1, WordingIs
    <3>3. /\ PathText(d) \o <<"LF">> \o FixedQueryText(d.query, FALSE) \in Wording
          /\ PathText(e) \o <<"LF">> \o FixedQueryText(e.query, FALSE) \in Wording
      BY <3>1, <3>2, WordingIs
    <3>4. one \in Ops /\ two \in Ops /\ Alike(one, two)
      BY <3>3, StillIs, OpIs DEF Alike, Text
    <3>5. url(e) = <<one>> /\ url(d) = <<two>>
      BY <2>1, <2>2
    <3> HIDE DEF one, two, url
    <3> QED BY <3>4, <3>5, AlikeOne
  <2>3. CASE ~ UrlFixed(d)
    <3> DEFINE seq == <<Hole("Path"), Text(<<"LF">>), Hole("Query")>>
    <3>1. Hole("Path") \in Ops /\ Text(<<"LF">>) \in Ops /\ Hole("Query") \in Ops
      BY <1>1, WordingIs, StillIs, OpIs
    <3>2. seq \in Seq(Ops) /\ url(e) = seq /\ url(d) = seq
      BY <2>1, <2>3, <3>1, Few
    <3> HIDE DEF seq, url
    <3> QED BY <3>2, AlikeSelf
  <2> QED BY <2>2, <2>3
<1>4. /\ S3Canonical(d) = whole \o url(d) \o line \o signed \o names \o hash
      /\ S3Canonical(e) = whole \o url(e) \o line \o signed \o names \o hash
  BY DEF S3Canonical, ButQuery
<1> DEFINE a == url(e)
           b == url(d)
<1>5. /\ S3Canonical(d) = whole \o b \o line \o signed \o names \o hash
      /\ S3Canonical(e) = whole \o a \o line \o signed \o names \o hash
      /\ AlikeAll(a, b)
  BY <1>3, <1>4
<1> HIDE DEF whole, line, signed, names, hash, url, a, b
<1>6. /\ AlikeAll(whole, whole) /\ AlikeAll(line, line) /\ AlikeAll(signed, signed)
      /\ AlikeAll(names, names) /\ AlikeAll(hash, hash)
  BY <1>2, AlikeSelf
<1>7. AlikeAll(whole \o a, whole \o b)
  BY <1>5, <1>6, AlikeOn
<1>8. AlikeAll(whole \o a \o line, whole \o b \o line)
  BY <1>6, <1>7, AlikeOn
<1>9. AlikeAll(whole \o a \o line \o signed, whole \o b \o line \o signed)
  BY <1>6, <1>8, AlikeOn
<1>10. AlikeAll(whole \o a \o line \o signed \o names, whole \o b \o line \o signed \o names)
  BY <1>6, <1>9, AlikeOn
<1>11. AlikeAll(S3Canonical(e), S3Canonical(d))
  BY <1>5, <1>6, <1>10, AlikeOn
<1>12. AlikeAll(<<>>, <<>>)
  <2>1. <<>> \in Seq(Ops)
    OBVIOUS
  <2> QED BY <2>1, AlikeSelf
<1> QED BY <1>11, <1>12 DEF SignedLayout, ButQuery

Required(seq) == seq \in Seq(Ops) /\ \A i \in 1 .. Len(seq) : ~ IsOptional(seq[i])

LEMMA RequiredOn ==
  ASSUME NEW one, NEW two, Required(one), Required(two)
  PROVE  Required(one \o two)
<1>1. one \in Seq(Ops) /\ two \in Seq(Ops) /\ Len(one) \in Nat /\ Len(two) \in Nat
  BY DEF Required
<1>2. /\ one \o two \in Seq(Ops) /\ Len(one \o two) = Len(one) + Len(two)
      /\ \A i \in 1 .. Len(one) + Len(two) :
           (one \o two)[i] = IF i <= Len(one) THEN one[i] ELSE two[i - Len(one)]
  BY <1>1, ConcatProperties
<1>3. ASSUME NEW i \in 1 .. Len(one \o two)
      PROVE  ~ IsOptional((one \o two)[i])
  <2>1. CASE i <= Len(one)
    <3>1. i \in 1 .. Len(one) /\ (one \o two)[i] = one[i]
      BY <1>1, <1>2, <2>1
    <3> QED BY <3>1 DEF Required
  <2>2. CASE ~ (i <= Len(one))
    <3>1. i - Len(one) \in 1 .. Len(two) /\ (one \o two)[i] = two[i - Len(one)]
      BY <1>1, <1>2, <2>2
    <3> QED BY <3>1 DEF Required
  <2> QED BY <2>1, <2>2
<1> QED BY <1>2, <1>3 DEF Required

LEMMA RequiredOne ==
  ASSUME NEW op \in Ops, op.op # "param"
  PROVE  Required(<<op>>) /\ Required(<<>>)
BY DEF Required, IsOptional

\* A request's pass runs the layout of its template, less the parameters that
\* it leaves out.
LEMMA AskedLeavesOut ==
  ASSUME NEW d \in Descriptions
  PROVE  \E from, skip : LeavesOut(Asked(d), LayoutOf(d), from, skip)
<1> DEFINE e == Narrow(d)
           start == <<Text(HostText)>>
           path == <<Section(PathSection)>>
           key == <<Text(PathText(d))>> \o (IF d.key /\ ~d.object THEN <<Hole("Key")>> ELSE <<>>)
           query == <<Section(QuerySection)>>
           front == start \o path \o key \o query
<1>1. d \in Describing /\ AsksFor(d.query, d.asked)
  BY TemplateAssumption, AskedAssumption
<1>2. /\ Described(d) /\ Described(e) /\ e.query = d.asked
      /\ d.query \in Seq(Parameters) /\ d.asked \in Seq(Parameters)
  <2>1. Described(d) /\ Described(e)
    BY <1>1, DescribedIs DEF Narrow
  <2>2. e.query = d.asked
    BY <1>1 DEF Narrow, Describing
  <2> QED BY <2>1, <2>2 DEF Described
<1>3. PICK from, skip : LeavesOut(ParamsOf(d.asked), ParamsOf(d.query), from, skip)
  BY <1>1, <1>2, AskedParams
<1>4. ButQuery(d, e)
  <2>1. FixedQuery(d.query) <=> FixedQuery(e.query)
    BY <1>1, <1>2, AskedParams
  <2> QED BY <1>1, <2>1 DEF ButQuery, Narrow, Describing
<1>5. Asked(d) = LayoutOf(e)
  BY DEF Asked, Narrow
<1> HIDE DEF e
<1>6. /\ UrlLayout(d) = front \o ParamsOf(d.query) /\ UrlLayout(e) = front \o ParamsOf(e.query)
      /\ front \in Seq(Ops) /\ \A i \in 1 .. Len(front) : ~ IsOptional(front[i])
  <2>1. /\ UrlLayout(d) = start \o path \o key \o query \o ParamsOf(d.query)
        /\ start \in Seq(Still) /\ path \in Seq(Ops) /\ key \in Seq(Still) /\ query \in Seq(Ops)
    BY <1>2, UrlLayoutIs DEF ParamsOf
  <2>2. UrlLayout(e) = start \o path \o key \o query \o ParamsOf(e.query)
    <3>1. PathText(e) = PathText(d) /\ e.key = d.key /\ e.object = d.object
      BY <1>2, <1>4, TargetAlike DEF ButQuery
    <3>2. UrlLayout(e) = start \o path
              \o (<<Text(PathText(e))>> \o (IF e.key /\ ~e.object THEN <<Hole("Key")>> ELSE <<>>))
              \o query \o ParamsOf(e.query)
      BY <1>2, UrlLayoutIs DEF ParamsOf
    <3> QED BY <3>1, <3>2
  <2>3. start \in Seq(Ops) /\ key \in Seq(Ops)
    <3> HIDE DEF start, key
    <3> QED BY <2>1, OpIs, SeqOfMore
  <2>4. front \in Seq(Ops)
    <3> HIDE DEF start, path, key, query
    <3> QED BY <2>1, <2>3
  <2>5. \A i \in 1 .. Len(front) : ~ IsOptional(front[i])
    <3> DEFINE x1 == Text(HostText)
               x2 == Section(PathSection)
               x3 == Text(PathText(d))
               x4 == Hole("Key")
               x5 == Section(QuerySection)
    <3>1. x1 \in Ops /\ x2 \in Ops /\ x3 \in Ops /\ x4 \in Ops /\ x5 \in Ops
      <4>1. "Key" \in Words /\ PathText(d) \in Wording
        BY PathTextIn DEF Words
      <4> QED BY <4>1, WordingIs, StillIs, OpIs DEF PathSection, QuerySection, Sections
    <3>2. x1.op # "param" /\ x2.op # "param" /\ x3.op # "param" /\ x4.op # "param" /\ x5.op # "param"
      BY DEF Text, Section, Hole
    <3> HIDE DEF x1, x2, x3, x4, x5
    <3>3. /\ Required(<<x1>>) /\ Required(<<x2>>) /\ Required(<<x3>>) /\ Required(<<x4>>)
          /\ Required(<<x5>>) /\ Required(<<>>)
      BY <3>1, <3>2, RequiredOne
    <3>4. Required(<<x3>> \o (IF d.key /\ ~d.object THEN <<x4>> ELSE <<>>))
      BY <3>3, RequiredOn
    <3>5. Required(start) /\ Required(path) /\ Required(query) /\ Required(key)
      BY <3>3, <3>4 DEF x1, x2, x3, x4, x5
    <3> HIDE DEF start, path, query, key
    <3>6. Required(start \o path)
      BY <3>5, RequiredOn
    <3>7. Required(start \o path \o key)
      BY <3>5, <3>6, RequiredOn
    <3>8. Required(start \o path \o key \o query)
      BY <3>5, <3>7, RequiredOn
    <3> QED BY <3>8 DEF Required
  <2> QED BY <2>1, <2>2, <2>4, <2>5
<1> HIDE DEF front
<1>7. LeavesOut(UrlLayout(e), UrlLayout(d), Len(front) + from, skip)
  BY <1>2, <1>3, <1>6, LeavesOutBefore
<1>8. AlikeAll(AfterUrl(e), AfterUrl(d))
  <2>1. BodyLayout(e) = BodyLayout(d)
    BY <1>4 DEF BodyLayout, ButQuery
  <2>2. BodyLayout(d) \in Seq(Ops)
    <3>1. Goes(BodyLayout(d), <<4, 1>>, <<5, 1>>)
      BY <1>2, PartsGo
    <3> QED BY <3>1 DEF Goes
  <2>3. AlikeAll(BodyLayout(e), BodyLayout(d))
    BY <2>1, <2>2, AlikeSelf
  <2>4. AlikeAll(HeadLayout(e) \o SignedLayout(e), HeadLayout(d) \o SignedLayout(d))
    BY <1>2, <1>4, HeadAlike, SignedAlike, AlikeOn
  <2>5. AlikeAll(HeadLayout(e) \o SignedLayout(e) \o BodyLayout(e), HeadLayout(d) \o SignedLayout(d) \o BodyLayout(d))
    BY <2>3, <2>4, AlikeOn
  <2> QED BY <2>5 DEF AfterUrl
<1>9. LeavesOut(LayoutOf(e), LayoutOf(d), Len(front) + from, skip)
  BY <1>7, <1>8, LeavesOutAfter DEF LayoutOf
<1> QED BY <1>5, <1>9

-----------------------------------------------------------------------------
(* The holes of a table are those of its layout.                            *)

\* What a builder closes on its way to another has no holes but these.
Gains(b, c, holes) ==
  /\ b \in Builders /\ c \in Builders /\ Grows(b, c)
  /\ \A n \in 1 .. Closed(c) : n > Closed(b) => c.steps[n].hole \in holes

LEMMA GainsOn ==
  ASSUME NEW b, NEW c, NEW d, NEW holes, NEW others, Gains(b, c, holes), Gains(c, d, others)
  PROVE  Gains(b, d, holes \cup others)
<1>1. /\ b \in Builders /\ c \in Builders /\ d \in Builders /\ Grows(b, c) /\ Grows(c, d)
      /\ \A n \in 1 .. Closed(c) : n > Closed(b) => c.steps[n].hole \in holes
      /\ \A n \in 1 .. Closed(d) : n > Closed(c) => d.steps[n].hole \in others
  BY DEF Gains
<1>2. Grows(b, d)
  BY <1>1, GrowsOn
<1>3. Closed(c) \in Nat /\ Closed(d) \in Nat /\ Closed(b) \in Nat
  BY <1>1, BuilderIs
<1>4. \A n \in 1 .. Closed(c) : d.steps[n] = c.steps[n]
  BY <1>1 DEF Grows, StepsStay
<1>5. ASSUME NEW n \in 1 .. Closed(d), n > Closed(b)
      PROVE  d.steps[n].hole \in holes \cup others
  <2>1. CASE n <= Closed(c)
    <3>1. n \in 1 .. Closed(c)
      BY <1>3, <2>1
    <3> QED BY <1>1, <1>4, <1>5, <3>1
  <2>2. CASE n > Closed(c)
    BY <1>1, <2>2
  <2> QED BY <1>3, <2>1, <2>2
<1> QED BY <1>1, <1>2, <1>5 DEF Gains

LEMMA GainsMore ==
  ASSUME NEW b, NEW c, NEW holes, NEW others, Gains(b, c, holes), holes \subseteq others
  PROVE  Gains(b, c, others)
BY DEF Gains

LEMMA GainsNone ==
  ASSUME NEW b \in Builders, NEW c \in Builders, Grows(b, c), Closed(c) = Closed(b)
  PROVE  Gains(b, c, {})
<1>1. Closed(b) \in Nat
  BY BuilderIs
<1> QED BY <1>1 DEF Gains

LEMMA GainsClose ==
  ASSUME NEW b \in Builders, NEW c, NEW hole, NEW name, NEW ends, Closes(b, c, hole, name, ends)
  PROVE  Gains(b, c, {hole})
<1>1. /\ c \in Builders /\ Grows(b, c) /\ Closed(c) = Closed(b) + 1
      /\ c.steps[Closed(b) + 1] = [len |-> Pending(b), hole |-> hole, name |-> name, ends |-> ends]
  BY DEF Closes, Neat
<1>2. Closed(b) \in Nat
  BY BuilderIs
<1>3. c.steps[Closed(b) + 1].hole = hole
  BY <1>1
<1>4. ASSUME NEW n \in 1 .. Closed(c), n > Closed(b)
      PROVE  n = Closed(b) + 1
  BY <1>1, <1>2, <1>4
<1> QED BY <1>1, <1>3, <1>4 DEF Gains

LEMMA GainsText ==
  ASSUME NEW b, Neat(b), NEW text \in Wording
  PROVE  Gains(b, BuildText(b, text), {})
<1>1. /\ Neat(BuildText(b, text)) /\ Grows(b, BuildText(b, text)) /\ Closed(BuildText(b, text)) = Closed(b)
  BY TextGrows
<1> QED BY <1>1, GainsNone DEF Neat

LEMMA GainsHole ==
  ASSUME NEW b, Neat(b), NEW hole \in Words
  PROVE  Gains(b, BuildHole(b, hole), {hole})
<1>1. Closes(b, BuildHole(b, hole), hole, 0, {})
  BY HoleCloses
<1> DEFINE c == BuildHole(b, hole)
           none == {}
           zero == 0
<1>2. Closes(b, c, hole, zero, none) /\ b \in Builders
  BY <1>1 DEF Neat
<1> HIDE DEF c, none, zero
<1>3. Gains(b, c, {hole})
  BY <1>2, GainsClose
<1> QED BY <1>3 DEF c

LEMMA GainsSeparator ==
  ASSUME NEW b, Tidy(b, b.section)
  PROVE  Gains(b, BuildSeparator(b), {"Separator"})
<1> DEFINE mark == IF b.params = 0 THEN <<"?">> ELSE <<"&">>
           t == BuildText(b, mark)
           h == BuildHole(b, "Separator")
           c == BuildSeparator(b)
<1>1. "Separator" \in Words /\ mark \in Wording /\ Neat(b) /\ b \in Builders
  <2>1. {"Separator", "?", "&"} \subseteq Words
    BY DEF Words
  <2> QED BY <2>1, WordingIs DEF Tidy, Neat
<1>2. c = IF b.optional THEN h ELSE [t EXCEPT !.params = @ + 1]
  BY DEF BuildSeparator
<1>3. CASE b.optional
  <2>1. Gains(b, h, {"Separator"})
    BY <1>1, GainsHole
  <2> QED BY <1>2, <1>3, <2>1
<1>4. CASE ~ b.optional
  <2>1. Closed(t) = Closed(b)
    BY <1>1, TextGrows
  <2>2. Onward(b, c) /\ c = [t EXCEPT !.params = @ + 1]
    BY <1>2, <1>4, OnwardSeparator
  <2>3. t \in BuilderRecords
    <3>1. t \in Builders
      BY <1>1, BuildTextKept
    <3> HIDE DEF t
    <3> QED BY <3>1, BuilderIs
  <2> HIDE DEF t, c
  <2>4. c.steps = t.steps /\ c.open = t.open
    BY <2>2, <2>3 DEF BuilderRecords
  <2>5. Closed(c) = Closed(b) /\ c \in Builders /\ Grows(b, c)
    BY <2>1, <2>2, <2>4 DEF Closed, Onward, Tidy, Neat
  <2>6. Gains(b, c, {})
    BY <1>1, <2>5, GainsNone
  <2>7. Gains(b, c, {"Separator"})
    BY <2>6, GainsMore
  <2> QED BY <2>7 DEF c
<1> QED BY <1>3, <1>4

\* The holes of the steps that an operation of a layout closes.
HolesOf(op) ==
  CASE op.op = "section" -> {NoHole}
    [] op.op = "hole"    -> {op.hole}
    [] op.op = "param"   -> {"Separator"} \cup (IF op.param.mode = "fixed" THEN {} ELSE {op.param.hole})
    [] OTHER             -> {}

LEMMA GainsParam ==
  ASSUME NEW b, Tidy(b, b.section), NEW param \in Parameters, Proper(Param(param))
  PROVE  /\ Gains(b, BuildParam(b, param),
                  {"Separator"} \cup (IF param.mode = "fixed" THEN {} ELSE {param.hole}))
         /\ param.mode # "optional" => BuildParam(b, param).optional = b.optional
<1>0. /\ param.mode \in {"fixed", "hole", "optional"} /\ param.name \in Words
      /\ param.value \in Wording /\ param.hole \in Words /\ "=" \in Words
  BY DEF Parameters, Words
<1>2. <<param.name, "=">> \in Wording
  BY <1>0, Few DEF Wording
<1>3. <<param.name, "=">> \o param.value \in Wording
  BY <1>0, <1>2, WordingIs
<1> DEFINE s == BuildSeparator(b)
           head == <<param.name, "=">>
           whole == head \o param.value
<1>4. Tidy(s, s.section) /\ Neat(s) /\ s.optional = b.optional /\ Gains(b, s, {"Separator"})
  BY OnwardSeparator, GainsSeparator DEF Onward, Tidy
<1> HIDE DEF s
<1>5. CASE param.mode = "fixed"
  <2> DEFINE c == BuildText(s, whole)
  <2>1. BuildParam(b, param) = c
    BY <1>5 DEF BuildParam, s
  <2>2. whole \in Wording
    BY <1>3
  <2> HIDE DEF whole
  <2>3. Gains(s, c, {}) /\ c.optional = s.optional
    BY <1>4, <2>2, GainsText, TextGrows DEF Else
  <2> HIDE DEF c
  <2>4. Gains(b, c, {"Separator"} \cup {})
    BY <1>4, <2>3, GainsOn
  <2> QED BY <1>4, <1>5, <2>1, <2>3, <2>4
<1>6. CASE param.mode = "hole"
  <2> DEFINE t == BuildText(s, head)
             hole == param.hole
             c == BuildHole(t, hole)
  <2>1. BuildParam(b, param) = c
    BY <1>6 DEF BuildParam, s
  <2>2. head \in Wording /\ hole \in Words
    BY <1>0, <1>2
  <2> HIDE DEF head, hole
  <2>3. Gains(s, t, {}) /\ t.optional = s.optional /\ Neat(t)
    BY <1>4, <2>2, GainsText, TextGrows DEF Else
  <2> HIDE DEF t
  <2>4. Gains(t, c, {hole}) /\ c.optional = t.optional
    BY <2>2, <2>3, GainsHole, HoleCloses DEF Else
  <2> HIDE DEF c
  <2>5. Gains(b, t, {"Separator"} \cup {})
    BY <1>4, <2>3, GainsOn
  <2>6. Gains(b, c, ({"Separator"} \cup {}) \cup {hole})
    BY <2>4, <2>5, GainsOn
  <2>7. ({"Separator"} \cup {}) \cup {hole}
          = {"Separator"} \cup (IF param.mode = "fixed" THEN {} ELSE {param.hole})
    BY <1>6 DEF hole
  <2> QED BY <1>4, <2>1, <2>3, <2>4, <2>6, <2>7
<1>7. CASE param.mode = "optional"
  <2> DEFINE t == [b EXCEPT !.optional = TRUE]
             hole == param.hole
             word == param.name
             c == Named(BuildHole(t, hole), word)
  <2>1. BuildParam(b, param) = c
    BY <1>7 DEF BuildParam, Named
  <2>2. Neat(t) /\ Grows(b, t)
    BY TurnedStays DEF Tidy
  <2>3. b \in Builders /\ t.steps = b.steps /\ t.open = b.open
    <3>1. b \in Builders /\ b \in BuilderRecords
      BY BuilderIs DEF Tidy, Neat
    <3> QED BY <3>1 DEF BuilderRecords
  <2> HIDE DEF t
  <2>4. Gains(b, t, {})
    <3>1. Closed(t) = Closed(b) /\ t \in Builders
      BY <2>2, <2>3 DEF Closed, Neat
    <3> QED BY <2>2, <2>3, <3>1, GainsNone
  <2>5. hole \in Words /\ word \in Words
    BY <1>0
  <2> HIDE DEF hole, word
  <2>6. Closes(t, c, hole, 1, {})
    BY <2>2, <2>5, NameCloses
  <2> DEFINE one == 1
             none == {}
  <2>7. Closes(t, c, hole, one, none) /\ t \in Builders
    BY <2>2, <2>6 DEF Neat
  <2> HIDE DEF c, one, none
  <2>8. Gains(t, c, {hole})
    BY <2>7, GainsClose
  <2>9. Gains(b, c, {} \cup {hole})
    BY <2>4, <2>8, GainsOn
  <2>10. Gains(b, c, {"Separator"} \cup {hole})
    BY <2>9, GainsMore
  <2> QED BY <1>7, <2>1, <2>10 DEF hole
<1> QED BY <1>0, <1>5, <1>6, <1>7

LEMMA GainsOp ==
  ASSUME NEW b, Tidy(b, b.section), NEW op \in Ops, Proper(op), NEW p, NEW q \in Stages, Moves(op, p, q),
         b.section = p[1]
  PROVE  /\ Gains(b, Build(b, op), HolesOf(op))
         /\ ~ IsOptional(op) => Build(b, op).optional = b.optional
<1>0. b \in Builders /\ Neat(b) /\ q[1] \in 0 .. 5 /\ b.section \in 0 .. 5
  BY BuilderIs DEF Tidy, Neat, Stages, Sections
<1>1. CASE op.op = "section"
  <2>1. op.section = q[1] /\ q[1] \in {b.section + 1, b.section + 2} /\ Build(b, op) = BuildSection(b, q[1])
    BY <1>1 DEF Moves, Build
  <2> DEFINE one == EndOf(b)
  <2>2. b.section < 5
    BY <1>0, <2>1
  <2>3. ASSUME NEW x, Neat(x)
        PROVE  Gains(x, EndOf(x), {NoHole}) /\ EndOf(x).optional = x.optional
    <3>1. Closes(x, EndOf(x), NoHole, 0, {x.section}) /\ EndOf(x).optional = x.optional
      BY <2>3, EndCloses
    <3> DEFINE y == EndOf(x)
               none == NoHole
               zero == 0
               ends == {x.section}
    <3>2. Closes(x, y, none, zero, ends) /\ x \in Builders
      BY <2>3, <3>1 DEF Neat
    <3> HIDE DEF y, none, zero, ends
    <3>3. Gains(x, y, {none})
      BY <3>2, GainsClose
    <3> QED BY <3>1, <3>3 DEF y, none
  <2>4. Gains(b, one, {NoHole}) /\ one.optional = b.optional
    BY <1>0, <2>3
  <2>5. Tidy(one, one.section) /\ one.section = b.section + 1
    BY <2>2, EndsOn
  <2>6. HolesOf(op) = {NoHole}
    BY <1>1 DEF HolesOf
  <2>7. CASE q[1] = b.section + 1
    <3>1. Build(b, op) = one
      BY <1>0, <2>1, <2>2, <2>7, SectionsEnd
    <3> QED BY <2>4, <2>6, <3>1
  <2>8. CASE q[1] = b.section + 2
    <3> DEFINE two == EndOf(one)
    <3>1. b.section < 4
      BY <1>0, <2>8
    <3>2. Build(b, op) = two
      BY <1>0, <2>1, <2>8, <3>1, SectionsEnd
    <3> HIDE DEF one
    <3>3. Gains(one, two, {NoHole}) /\ two.optional = one.optional
      BY <2>3, <2>5 DEF Tidy
    <3> HIDE DEF two
    <3>4. Gains(b, two, {NoHole} \cup {NoHole})
      BY <2>4, <3>3, GainsOn
    <3> QED BY <2>4, <2>6, <3>2, <3>3, <3>4
  <2> QED BY <2>1, <2>7, <2>8
<1>2. CASE op.op = "text" /\ op.text \in Wording
  <2> DEFINE text == op.text
  <2>1. Build(b, op) = BuildText(b, text) /\ HolesOf(op) = {}
    BY <1>2 DEF Build, HolesOf
  <2>2. text \in Wording
    BY <1>2
  <2> HIDE DEF text
  <2>3. Gains(b, BuildText(b, text), {}) /\ BuildText(b, text).optional = b.optional
    BY <1>0, <2>2, GainsText, TextGrows DEF Else
  <2> QED BY <2>1, <2>3
<1>3. CASE op.op = "hole" /\ op.hole \in Words
  <2> DEFINE hole == op.hole
  <2>1. Build(b, op) = BuildHole(b, hole) /\ HolesOf(op) = {hole}
    BY <1>3 DEF Build, HolesOf
  <2>2. hole \in Words
    BY <1>3
  <2> HIDE DEF hole
  <2>3. Gains(b, BuildHole(b, hole), {hole}) /\ BuildHole(b, hole).optional = b.optional
    BY <1>0, <2>2, GainsHole, HoleCloses DEF Else
  <2> QED BY <2>1, <2>3
<1>4. CASE op.op = "fields"
  <2>1. Build(b, op) = BuildFields(b) /\ HolesOf(op) = {}
    BY <1>4 DEF Build, HolesOf
  <2> DEFINE c == BuildFields(b)
  <2>2. Neat(c) /\ Grows(b, c)
    BY <1>0, TurnedStays
  <2>3. c.steps = b.steps /\ c.open = b.open /\ c.optional = b.optional
    <3>1. b \in BuilderRecords
      BY <1>0, BuilderIs
    <3> QED BY <3>1 DEF BuildFields, BuilderRecords
  <2> HIDE DEF c
  <2>4. Closed(c) = Closed(b) /\ c \in Builders
    BY <2>2, <2>3 DEF Closed, Neat
  <2>5. Gains(b, c, {})
    BY <1>0, <2>2, <2>4, GainsNone
  <2> QED BY <2>1, <2>3, <2>5 DEF c
<1>5. CASE op.op = "param" /\ op.param \in Parameters
  <2> DEFINE param == op.param
  <2>1. /\ Build(b, op) = BuildParam(b, param)
        /\ HolesOf(op) = {"Separator"} \cup (IF param.mode = "fixed" THEN {} ELSE {param.hole})
        /\ ~ IsOptional(op) => param.mode # "optional"
    BY <1>5 DEF Build, HolesOf, IsOptional
  <2>2. param \in Parameters /\ Proper(Param(param))
    BY <1>5 DEF Proper, Param
  <2> HIDE DEF param
  <2>3. /\ Gains(b, BuildParam(b, param),
                 {"Separator"} \cup (IF param.mode = "fixed" THEN {} ELSE {param.hole}))
        /\ param.mode # "optional" => BuildParam(b, param).optional = b.optional
    BY <2>2, GainsParam
  <2> QED BY <2>1, <2>3
<1> QED BY <1>1, <1>2, <1>3, <1>4, <1>5, OpIsOneOf

-----------------------------------------------------------------------------
(* A pass that leaves out parameters ends as one over the whole layout.     *)

\* No parameter is optional, and no builder of them counts one.
LEMMA RequiredSoFar ==
  ASSUME NEW layout, NEW at, NEW r, NEW e, NEW table, NEW steps, NEW text,
         Layed(layout, at, r, e, table, steps, text), NEW n \in 0 .. Len(layout),
         \A i \in 1 .. n : ~ IsOptional(layout[i])
  PROVE  \A i \in 0 .. n : ~ r[i].optional
<1> DEFINE S == {i \in 0 .. n : ~ r[i].optional}
<1>0. n \in Nat /\ 0 \in 0 .. n /\ Len(layout) \in Nat
  BY LayedIs
<1>1. 0 \in S
  <2>1. r[0] = NewBuilder
    BY DEF Layed, Built
  <2> QED BY <1>0, <2>1 DEF NewBuilder
<1>2. ASSUME NEW i \in 1 .. n, i - 1 \in S
      PROVE  i \in S
  <2> DEFINE b == r[i - 1]
             op == layout[i]
             p == at[i - 1]
             q == at[i]
  <2>1. i \in 1 .. Len(layout) /\ i \in 0 .. n /\ i - 1 \in 0 .. Len(layout) /\ i \in 0 .. Len(layout)
    BY <1>0
  <2>2. Tidy(b, b.section) /\ b.section = p[1]
    BY <2>1, LayedIs
  <2>3. op \in Ops /\ Proper(op) /\ q \in Stages /\ Moves(op, p, q) /\ r[i] = Build(b, op)
    BY <2>1, LayedIs
  <2>4. ~ IsOptional(op) /\ ~ b.optional
    BY <1>2
  <2> HIDE DEF b, op, p, q
  <2>5. Build(b, op).optional = b.optional
    BY <2>2, <2>3, <2>4, GainsOp
  <2> QED BY <2>1, <2>3, <2>4, <2>5
<1> HIDE DEF S
<1>3. \A i \in 0 .. n : i \in S
  BY <1>0, <1>1, <1>2, Induction
<1> QED BY <1>3 DEF S

LEMMA PassAlike ==
  ASSUME NEW w, NEW one \in Ops, NEW two \in Ops, Alike(one, two),
         NEW table, NEW f, NEW steps, NEW text
  PROVE  Pass(w, one, table, f, steps, text) = Pass(w, two, table, f, steps, text)
<1>1. one.op = "text" /\ two.op = "text"
        => Pass(w, one, table, f, steps, text) = w /\ Pass(w, two, table, f, steps, text) = w
  BY DEF Pass
<1> QED BY <1>1 DEF Alike

LEMMA PassFixed ==
  ASSUME NEW w, NEW op, IsFixed(op), ~ w.optional, NEW table, NEW f, NEW steps, NEW text
  PROVE  Pass(w, op, table, f, steps, text) = w
<1>1. op.op = "param" /\ op.param.mode = "fixed"
  BY DEF IsFixed
<1>2. Pass(w, op, table, f, steps, text) = PassParam(w, op.param, f, steps, text)
  BY <1>1 DEF Pass
<1>3. PassParam(w, op.param, f, steps, text) = w
  BY <1>1 DEF PassParam
<1> QED BY <1>2, <1>3

LEMMA AskedPass ==
  ASSUME NEW layout, NEW at, NEW r, NEW e, NEW table, NEW steps, NEW text,
         Layed(layout, at, r, e, table, steps, text), NEW f, Filled(layout, f), NEW len,
         NEW v, PassRun(v, layout, NewState(table, len), table, f, steps, text, len),
         NEW m, LayoutKept(layout, r, v, m, table, text, len),
         NEW asks, NEW from, NEW skip, LeavesOut(asks, layout, from, skip),
         NEW w, PassRun(w, asks, NewState(table, len), table, f, steps, text, len)
  PROVE  w[Len(asks)] = v[Len(layout)]
<1> DEFINE k == Len(layout)
           j == Len(asks)
           More(x, op) == Pass(x, op, table, f, steps, text)
<1>0. /\ k \in Nat /\ j \in Nat /\ skip \in Nat /\ from \in 0 .. j /\ k = j + skip
      /\ asks \in Seq(Ops) /\ layout \in Seq(Ops) /\ from + skip \in 0 .. k
      /\ \A i \in 1 .. j : Alike(asks[i], layout[Past(i, from, skip)])
      /\ \A i \in 1 .. from : ~ IsOptional(layout[i])
      /\ \A i \in from + 1 .. from + skip : IsFixed(layout[i])
  <2>1. Len(layout) \in Nat
    BY LayedIs
  <2> QED BY <2>1 DEF LeavesOut
<1>1. /\ v[0] = NewState(table, len) /\ w[0] = NewState(table, len)
      /\ \A i \in 1 .. k : v[i] = More(v[i - 1], layout[i])
      /\ \A i \in 1 .. j : w[i] = More(w[i - 1], asks[i])
  BY DEF PassRun
<1> HIDE DEF k, j, More
<1>2. \A i \in 0 .. from + skip : ~ v[i].optional
  <2> DEFINE n == from + skip
  <2>1. \A i \in 1 .. n : ~ IsOptional(layout[i])
    <3> SUFFICES ASSUME NEW i \in 1 .. n PROVE ~ IsOptional(layout[i])
      OBVIOUS
    <3>1. i \in 1 .. from \/ i \in from + 1 .. from + skip
      BY <1>0
    <3> QED BY <1>0, <3>1 DEF IsOptional, IsFixed
  <2>2. n \in 0 .. Len(layout)
    BY <1>0 DEF k
  <2> HIDE DEF n
  <2>3. \A i \in 0 .. n : ~ r[i].optional
    BY <2>1, <2>2, RequiredSoFar
  <2>4. ASSUME NEW i \in 0 .. n
        PROVE  v[i].optional = r[i].optional
    <3>1. i \in 0 .. Len(layout)
      BY <1>0, <2>2
    <3>2. Keeps(r[i], v[i], m[i], table, text, len)
      BY <3>1 DEF LayoutKept, Paced
    <3> QED BY <3>2 DEF Keeps
  <2>5. \A i \in 0 .. n : ~ v[i].optional
    BY <2>3, <2>4
  <2> QED BY <2>5 DEF n
<1>3. v[from + skip] = v[from]
  <2> DEFINE S == {i \in 0 .. skip : v[from + i] = v[from]}
  <2>1. 0 \in S
    BY <1>0
  <2>2. ASSUME NEW i \in 1 .. skip, i - 1 \in S
        PROVE  i \in S
    <3> DEFINE n == from + i
    <3>1. n \in 1 .. k /\ n \in from + 1 .. from + skip /\ n - 1 = from + (i - 1) /\ n - 1 \in 0 .. from + skip
      BY <1>0
    <3>2. v[n - 1] = v[from]
      BY <2>2, <3>1
    <3>3. v[n] = More(v[n - 1], layout[n]) /\ IsFixed(layout[n]) /\ ~ v[n - 1].optional
      BY <1>0, <1>1, <1>2, <3>1
    <3> HIDE DEF n
    <3>4. v[n] = v[n - 1]
      BY <3>3, PassFixed DEF More
    <3> QED BY <3>2, <3>4 DEF n
  <2> HIDE DEF S
  <2>3. \A i \in 0 .. skip : i \in S
    BY <1>0, <2>1, <2>2, Induction
  <2>4. skip \in 0 .. skip
    BY <1>0
  <2> QED BY <2>3, <2>4 DEF S
<1> DEFINE T == {i \in 0 .. j : w[i] = v[Past(i, from, skip)]}
<1>4. 0 \in T
  <2>1. Past(0, from, skip) = 0 /\ 0 \in 0 .. j
    BY <1>0 DEF Past
  <2> QED BY <1>1, <2>1
<1>5. ASSUME NEW i \in 1 .. j, i - 1 \in T
      PROVE  i \in T
  <2> DEFINE n == Past(i, from, skip)
             l == Past(i - 1, from, skip)
  <2>1. n \in 1 .. k /\ i \in 0 .. j
    BY <1>0 DEF Past
  <2>2. v[l] = v[n - 1]
    <3>1. CASE i <= from
      <4>1. l = n - 1
        BY <1>0, <3>1 DEF Past
      <4> QED BY <4>1
    <3>2. CASE i = from + 1
      <4>1. l = from /\ n - 1 = from + skip
        BY <1>0, <3>2 DEF Past
      <4> QED BY <1>3, <4>1
    <3>3. CASE i > from + 1
      <4>1. l = n - 1
        BY <1>0, <3>3 DEF Past
      <4> QED BY <4>1
    <3> QED BY <1>0, <3>1, <3>2, <3>3
  <2>3. w[i - 1] = v[l] /\ Alike(asks[i], layout[n]) /\ w[i] = More(w[i - 1], asks[i])
    BY <1>0, <1>1, <1>5
  <2> HIDE DEF n, l
  <2>4. asks[i] \in Ops /\ layout[n] \in Ops /\ v[n] = More(v[n - 1], layout[n])
    BY <1>0, <1>1, <2>1 DEF j, k
  <2>5. More(w[i - 1], asks[i]) = More(w[i - 1], layout[n])
    BY <2>3, <2>4, PassAlike DEF More
  <2>6. w[i] = v[n]
    BY <2>2, <2>3, <2>4, <2>5
  <2> QED BY <2>1, <2>6 DEF n
<1>6. w[j] = v[Past(j, from, skip)]
  <2>1. \A i \in 0 .. j : i \in T
    <3> HIDE DEF T
    <3> QED BY <1>0, <1>4, <1>5, Induction
  <2>2. j \in 0 .. j
    BY <1>0
  <2> QED BY <2>1, <2>2
<1>7. v[Past(j, from, skip)] = v[k]
  <2>1. CASE j <= from
    <3>1. Past(j, from, skip) = from /\ k = from + skip
      BY <1>0, <2>1 DEF Past
    <3> QED BY <1>3, <3>1
  <2>2. CASE ~ (j <= from)
    <3>1. Past(j, from, skip) = k
      BY <1>0, <2>2 DEF Past
    <3> QED BY <3>1
  <2> QED BY <2>1, <2>2
<1> QED BY <1>6, <1>7 DEF j, k

-----------------------------------------------------------------------------
(* The holes of a whole table.                                              *)

LEMMA GainsSelf ==
  ASSUME NEW b \in Builders, NEW holes
  PROVE  Gains(b, b, holes)
<1>1. Grows(b, b)
  BY GrowsSelf
<1>2. Closed(b) \in Nat
  BY BuilderIs
<1> QED BY <1>1, <1>2 DEF Gains

\* From the builder of one operation to that of a later one.
LEMMA GainsRun ==
  ASSUME NEW layout, NEW at, NEW r, NEW e, NEW table, NEW steps, NEW text,
         Layed(layout, at, r, e, table, steps, text),
         NEW j \in 0 .. Len(layout), NEW holes,
         \A i \in j + 1 .. Len(layout) : HolesOf(layout[i]) \subseteq holes
  PROVE  Gains(r[j], r[Len(layout)], holes)
<1> DEFINE k == Len(layout)
           S == {i \in 0 .. k - j : Gains(r[j], r[j + i], holes)}
<1>0. k \in Nat /\ j \in Nat /\ j <= k /\ k - j \in Nat
  BY LayedIs
<1>1. 0 \in S
  <2>1. r[j] \in Builders
    BY LayedIs
  <2>2. Gains(r[j], r[j], holes)
    BY <2>1, GainsSelf
  <2>3. j + 0 = j /\ 0 \in 0 .. k - j
    BY <1>0
  <2> QED BY <2>2, <2>3
<1>2. ASSUME NEW i \in 1 .. k - j, i - 1 \in S
      PROVE  i \in S
  <2> DEFINE n == j + i
             a == r[j]
             b == r[n - 1]
             op == layout[n]
             p == at[n - 1]
             q == at[n]
             had == HolesOf(op)
  <2>1. n \in 1 .. Len(layout) /\ n \in j + 1 .. Len(layout) /\ n - 1 \in 0 .. Len(layout)
        /\ j + (i - 1) = n - 1
    BY <1>0
  <2>2. Tidy(b, b.section) /\ b.section = p[1]
    BY <2>1, LayedIs
  <2>3. op \in Ops /\ Proper(op) /\ q \in Stages /\ Moves(op, p, q) /\ r[n] = Build(b, op)
    BY <2>1, LayedIs
  <2>4. Gains(a, b, holes)
    BY <1>2, <2>1
  <2>5. had \subseteq holes
    BY <2>1
  <2> HIDE DEF a, b, op, p, q, n
  <2>6. Gains(b, Build(b, op), had)
    BY <2>2, <2>3, GainsOp
  <2> HIDE DEF had
  <2> DEFINE c == Build(b, op)
  <2>7. Gains(b, c, had)
    BY <2>6
  <2> HIDE DEF c
  <2>8. Gains(b, c, holes)
    BY <2>5, <2>7, GainsMore
  <2>9. Gains(a, c, holes \cup holes)
    BY <2>4, <2>8, GainsOn
  <2>10. holes \cup holes = holes
    OBVIOUS
  <2>11. Gains(a, r[n], holes)
    BY <2>3, <2>9, <2>10 DEF c
  <2> QED BY <1>2, <2>11 DEF n, a
<1> HIDE DEF S
<1>3. \A i \in 0 .. k - j : i \in S
  BY <1>0, <1>1, <1>2, Induction
<1>4. k - j \in 0 .. k - j /\ j + (k - j) = k
  BY <1>0
<1>5. k - j \in S
  BY <1>3, <1>4
<1> QED BY <1>4, <1>5 DEF S

\* And to the end, which has no hole of its own.
LEMMA GainsEnd ==
  ASSUME NEW layout, NEW at, NEW r, NEW e, NEW table, NEW steps, NEW text,
         Layed(layout, at, r, e, table, steps, text),
         NEW j \in 0 .. Len(layout), NEW holes, NoHole \in holes,
         \A i \in j + 1 .. Len(layout) : HolesOf(layout[i]) \subseteq holes
  PROVE  Gains(r[j], e, holes)
<1> DEFINE a == r[j]
           b == r[Len(layout)]
           none == {NoHole}
           hole == NoHole
           name == 0
           ends == {b.section}
           c == EndOf(b)
<1>1. Gains(a, b, holes)
  BY GainsRun
<1>2. Neat(b) /\ b \in Builders /\ e = c
  <2>1. Len(layout) \in 0 .. Len(layout)
    BY LayedIs
  <2>2. Tidy(b, b.section)
    BY <2>1, LayedIs
  <2> QED BY <2>2 DEF Tidy, Neat, Layed
<1>3. Closes(b, c, hole, name, ends)
  <2> HIDE DEF b
  <2> QED BY <1>2, EndCloses
<1> HIDE DEF a, b, c, hole, name, ends
<1>4. Gains(b, c, {hole})
  BY <1>2, <1>3, GainsClose
<1> DEFINE one == {hole}
<1>5. one \subseteq holes
  BY DEF hole
<1>6. Gains(b, c, one)
  BY <1>4
<1> HIDE DEF one
<1>7. Gains(b, c, holes)
  BY <1>5, <1>6, GainsMore
<1>8. Gains(a, c, holes \cup holes)
  BY <1>1, <1>7, GainsOn
<1>9. holes \cup holes = holes
  OBVIOUS
<1> QED BY <1>2, <1>8, <1>9 DEF a

\* What a request fills: every hole of its table has a value.
Ready(f) == {hole \in Words : hole = NoHole \/ CanFill(hole, f)}
Able(steps, f) == \A n \in 1 .. Len(steps) : steps[n].hole \in Ready(f)

LEMMA FilledHoles ==
  ASSUME NEW op \in Ops, NEW f, Fillable(op, f)
  PROVE  HolesOf(op) \subseteq Ready(f) /\ NoHole \in Ready(f)
<1>1. NoHole \in Words /\ "Separator" \in Words
  BY DEF Words, NoHole
<1>2. NoHole \in Ready(f) /\ "Separator" \in Ready(f)
  BY <1>1 DEF Ready, CanFill
<1>3. CASE op.op = "section"
  BY <1>2, <1>3 DEF HolesOf
<1>4. CASE op.op = "hole"
  <2>1. op.hole \in Words
    BY <1>4, OpIsOneOf
  <2>2. op.hole \in Ready(f)
    BY <1>4, <2>1 DEF Fillable, Ready
  <2> QED BY <1>2, <1>4, <2>2 DEF HolesOf
<1>5. CASE op.op = "param"
  <2>1. op.param \in Parameters
    BY <1>5, OpIsOneOf
  <2>2. op.param.hole \in Words
    BY <2>1 DEF Parameters
  <2>3. op.param.mode # "fixed" => op.param.hole \in Ready(f)
    BY <1>5, <2>2 DEF Fillable, Ready
  <2> QED BY <1>2, <1>5, <2>3 DEF HolesOf
<1>6. CASE op.op \notin {"section", "hole", "param"}
  BY <1>2, <1>6 DEF HolesOf
<1> QED BY <1>3, <1>4, <1>5, <1>6

LEMMA LayedAble ==
  ASSUME NEW layout, NEW at, NEW r, NEW e, NEW table, NEW steps, NEW text,
         Layed(layout, at, r, e, table, steps, text), NEW f, Filled(layout, f)
  PROVE  Able(steps, f)
<1> DEFINE holes == Ready(f)
           j == 0
<1>1. j \in 0 .. Len(layout) /\ Len(layout) \in Nat
  BY LayedIs
<1>2. \A i \in j + 1 .. Len(layout) : HolesOf(layout[i]) \subseteq holes
  BY LayedIs, FilledHoles DEF Filled
<1>3. NoHole \in holes
  <2>1. NoHole \in Words
    BY DEF Words, NoHole
  <2> QED BY <2>1 DEF Ready
<1>4. r[j] = NewBuilder
  BY DEF Layed, Built
<1> HIDE DEF holes
<1>5. Gains(r[j], e, holes)
  <2> HIDE DEF j
  <2> QED BY <1>1, <1>2, <1>3, GainsEnd
<1>6. Closed(NewBuilder) = 0
  BY DEF NewBuilder, Closed
<1>7. \A n \in 1 .. Closed(e) : e.steps[n].hole \in holes
  <2>1. \A n \in 1 .. Closed(e) : n > 0
    BY <1>5, BuilderIs DEF Gains
  <2> QED BY <1>4, <1>5, <1>6, <2>1 DEF Gains
<1>8. steps = e.steps /\ Len(steps) = Closed(e)
  BY FinishedIs DEF Layed, Finished
<1> QED BY <1>7, <1>8 DEF Able, holes

-----------------------------------------------------------------------------
(* The steps of a body.                                                     *)

\* What is closed before the body begins is not one of its steps.
LEMMA BodyAfter ==
  ASSUME NEW b, NEW e, NEW holes, Gains(b, e, holes), Tidy(b, b.section), b.section < 5, Tidy(e, Sections)
  PROVE  /\ StepsBefore(e.counts, 5) \in Nat /\ StepsBefore(e.counts, 5) >= Closed(b)
         /\ \A n \in 1 .. Closed(e) : n > StepsBefore(e.counts, 5) => e.steps[n].hole \in holes
<1> DEFINE last == StepsBefore(e.counts, 5)
           s == 4
<1>1. b \in Builders /\ e \in Builders /\ StepsStay(b, e)
  BY DEF Gains, Grows
<1>2. Closed(b) \in Nat /\ Closed(e) \in Nat /\ b.section \in 0 .. Sections - 1
  BY <1>1, BuilderIs
<1>3. s \in 0 .. Sections - 1 /\ s < Sections /\ s + 1 = 5 /\ ~ (s < b.section)
  BY <1>2 DEF Sections
<1>4. EndsOf(e, s) = {last}
  BY <1>3 DEF Tidy, EndsBefore
<1>5. EndsOf(b, s) = {}
  BY <1>3 DEF Tidy, EndsBefore
<1> HIDE DEF last, s
<1>6. last \in 1 .. Closed(e) /\ s \in e.steps[last].ends
  BY <1>4 DEF EndsOf
<1>7. last > Closed(b)
  <2> SUFFICES ASSUME last <= Closed(b) PROVE FALSE
    BY <1>2, <1>6
  <2>1. last \in 1 .. Closed(b)
    BY <1>2, <1>6
  <2>2. e.steps[last] = b.steps[last]
    BY <1>1, <2>1 DEF StepsStay
  <2>3. last \in EndsOf(b, s)
    BY <1>6, <2>1, <2>2 DEF EndsOf
  <2> QED BY <1>5, <2>3
<1>8. \A n \in 1 .. Closed(e) : n > last => e.steps[n].hole \in holes
  <2>1. \A n \in 1 .. Closed(e) : n > last => n > Closed(b)
    BY <1>2, <1>6, <1>7
  <2> QED BY <2>1 DEF Gains
<1> QED BY <1>2, <1>6, <1>7, <1>8 DEF last

\* The holes that a body may have.
BodyHoles(d) == {NoHole} \cup (IF d.body = "each" THEN {"Body"} ELSE {})

\* The operations of a body, after a layout's first j.
BodyEnds(d, layout, j) ==
  \/ d.body = "none" /\ Len(layout) = j + 1
  \/ d.body = "fixed" /\ Len(layout) = j + 2 /\ layout[j + 2] = Text(BodyText)
  \/ d.body = "each" /\ Len(layout) = j + 2 /\ layout[j + 2] = Hole("Body")

\* The last operations of a layout are those of the body.
LEMMA BodyLast ==
  ASSUME NEW d, Described(d)
  PROVE  \E j \in 0 .. Len(LayoutOf(d)) :
           /\ j < Len(LayoutOf(d)) /\ LayoutOf(d)[j + 1] = Section(BodySection)
           /\ \A i \in j + 1 .. Len(LayoutOf(d)) : HolesOf(LayoutOf(d)[i]) \subseteq BodyHoles(d)
           /\ BodyEnds(d, LayoutOf(d), j)
<1> DEFINE url == UrlLayout(d)
           head == HeadLayout(d)
           signed == SignedLayout(d)
           body == BodyLayout(d)
           layout == LayoutOf(d)
           pre == url \o head \o signed
           rest == Tail(body)
<1>1. url \in Seq(Ops) /\ head \in Seq(Ops) /\ signed \in Seq(Ops)
  <2>1. url \in Seq(Ops) /\ head \in Seq(Ops)
    BY PartsGo DEF Goes, Heads, BeginsHead
  <2>2. CASE d.service = "s3"
    <3>1. Signs(signed)
      BY <2>2, PartsGo
    <3> HIDE DEF signed
    <3> QED BY <2>1, <3>1 DEF Goes, Signs
  <2>3. CASE d.service # "s3"
    <3>1. signed = <<>>
      BY <2>3, PartsGo
    <3> QED BY <2>1, <3>1
  <2> QED BY <2>2, <2>3
<1>2. /\ body \in Seq(Ops) /\ Len(body) \in Nat /\ Len(body) >= 1 /\ body[1] = Section(BodySection)
      /\ \A i \in 1 .. Len(body) : HolesOf(body[i]) \subseteq BodyHoles(d)
      /\ \/ d.body = "none" /\ Len(body) = 1
         \/ d.body = "fixed" /\ Len(body) = 2 /\ body[2] = Text(BodyText)
         \/ d.body = "each" /\ Len(body) = 2 /\ body[2] = Hole("Body")
  <2>1. Section(BodySection) \in Ops /\ Text(BodyText) \in Ops /\ Hole("Body") \in Ops
    <3>1. BodySection \in 0 .. Sections - 1
      BY DEF BodySection, Sections
    <3>2. Text(BodyText) \in Still /\ Hole("Body") \in Still
      <4>1. "Body" \in Words
        BY DEF Words
      <4> QED BY <4>1, WordingIs, StillIs
    <3> QED BY <3>1, <3>2, OpIs
  <2>2. HolesOf(Section(BodySection)) = {NoHole} /\ HolesOf(Text(BodyText)) = {}
        /\ HolesOf(Hole("Body")) = {"Body"}
    BY DEF HolesOf, Section, Text, Hole
  <2> DEFINE a == Section(BodySection)
             t == Text(BodyText)
             h == Hole("Body")
  <2>3. \/ body = <<a>> \o <<>> /\ d.body = "none"
        \/ body = <<a>> \o <<t>> /\ d.body = "fixed"
        \/ body = <<a>> \o <<h>> /\ d.body = "each"
    BY DEF BodyLayout, Described
  <2>4. a \in Ops /\ t \in Ops /\ h \in Ops /\ HolesOf(a) = {NoHole} /\ HolesOf(t) = {} /\ HolesOf(h) = {"Body"}
    BY <2>1, <2>2
  <2>5. \/ Len(body) = 1 /\ body[1] = a /\ body \in Seq(Ops) /\ d.body = "none"
        \/ Len(body) = 2 /\ body[1] = a /\ body[2] = t /\ body \in Seq(Ops) /\ d.body = "fixed"
        \/ Len(body) = 2 /\ body[1] = a /\ body[2] = h /\ body \in Seq(Ops) /\ d.body = "each"
    <3>1. /\ Len(<<a>> \o <<>>) = 1 /\ (<<a>> \o <<>>)[1] = a /\ <<a>> \o <<>> \in Seq(Ops)
          /\ Len(<<a>> \o <<t>>) = 2 /\ (<<a>> \o <<t>>)[1] = a /\ (<<a>> \o <<t>>)[2] = t
          /\ <<a>> \o <<t>> \in Seq(Ops)
          /\ Len(<<a>> \o <<h>>) = 2 /\ (<<a>> \o <<h>>)[1] = a /\ (<<a>> \o <<h>>)[2] = h
          /\ <<a>> \o <<h>> \in Seq(Ops)
      <4> HIDE DEF a, t, h
      <4> QED BY <2>4
    <3> HIDE DEF a, t, h, body
    <3> QED BY ONLY <2>3, <3>1
  <2> HIDE DEF a, t, h, body
  <2>6. /\ body \in Seq(Ops) /\ Len(body) \in Nat /\ Len(body) >= 1 /\ body[1] = a
        /\ \A i \in 1 .. Len(body) : HolesOf(body[i]) \subseteq BodyHoles(d)
    BY <2>4, <2>5 DEF BodyHoles
  <2> QED BY <2>5, <2>6 DEF a, t, h
<1>3. layout = pre \o body
  <2>1. layout = url \o (head \o signed \o body)
    BY DEF LayoutOf, AfterUrl
  <2> HIDE DEF url, head, signed, body, layout
  <2>2. url \o ((head \o signed) \o body) = (url \o (head \o signed)) \o body
    <3>1. head \o signed \in Seq(Ops)
      BY <1>1
    <3> DEFINE more == head \o signed
               X == Ops
    <3>2. more \in Seq(X) /\ url \in Seq(X) /\ body \in Seq(X)
      BY <1>1, <1>2, <3>1
    <3> HIDE DEF more, X
    <3>3. (url \o more) \o body = url \o (more \o body)
      BY <3>2, ConcatAssociative
    <3> QED BY <3>3 DEF more
  <2>3. (url \o head) \o signed = url \o (head \o signed)
    BY SMTT(20), <1>1, ConcatAssociative
  <2> QED BY <2>1, <2>2, <2>3
<1>4. pre \in Seq(Ops) /\ Len(pre) \in Nat
  <2> HIDE DEF url, head, signed
  <2> QED BY <1>1
<1> DEFINE j == Len(pre)
           n == Len(body)
<1> HIDE DEF url, head, signed, body, layout, pre, j
<1>5. /\ Len(layout) = j + n /\ j \in Nat /\ n \in Nat /\ n >= 1
      /\ \A i \in 1 .. n : layout[j + i] = body[i]
  BY <1>2, <1>3, <1>4 DEF j
<1>6. j \in 0 .. Len(layout) /\ j < Len(layout)
  BY <1>5
<1>7. layout[j + 1] = Section(BodySection)
  <2>1. 1 \in 1 .. n
    BY <1>5
  <2> QED BY <1>2, <1>5, <2>1
<1>8. ASSUME NEW i \in j + 1 .. Len(layout)
      PROVE  HolesOf(layout[i]) \subseteq BodyHoles(d)
  <2>1. i - j \in 1 .. n /\ j + (i - j) = i
    BY <1>5
  <2>2. layout[i] = body[i - j]
    BY <1>5, <2>1
  <2> QED BY <1>2, <2>1, <2>2
<1>9. BodyEnds(d, layout, j)
  <2>1. n = 2 => layout[j + 2] = body[2]
    BY <1>5
  <2>2. \/ d.body = "none" /\ n = 1
        \/ d.body = "fixed" /\ n = 2 /\ body[2] = Text(BodyText)
        \/ d.body = "each" /\ n = 2 /\ body[2] = Hole("Body")
    BY <1>2
  <2> HIDE DEF n
  <2> QED BY <1>5, <2>1, <2>2 DEF BodyEnds
<1> QED BY <1>6, <1>7, <1>8, <1>9 DEF layout

\* The steps of a table's body have a body's holes.
BodyIs(steps, counts, d) ==
  /\ StepsBefore(counts, BodySection) \in Nat
  /\ \A n \in 1 .. Len(steps) : n > StepsBefore(counts, BodySection) => steps[n].hole \in BodyHoles(d)

LEMMA LayedBody ==
  ASSUME NEW d, Described(d), NEW at, NEW r, NEW e, NEW table, NEW steps, NEW text,
         Layed(LayoutOf(d), at, r, e, table, steps, text), Tidy(e, Sections)
  PROVE  BodyIs(steps, table.counts, d)
<1> DEFINE layout == LayoutOf(d)
           holes == BodyHoles(d)
<1>1. PICK j \in 0 .. Len(layout) :
        /\ j < Len(layout) /\ layout[j + 1] = Section(BodySection)
        /\ \A i \in j + 1 .. Len(layout) : HolesOf(layout[i]) \subseteq holes
  BY BodyLast
<1>2. Layed(layout, at, r, e, table, steps, text) /\ NoHole \in holes
  BY DEF BodyHoles
<1> HIDE DEF layout, holes
<1>3. Gains(r[j], e, holes)
  BY <1>1, <1>2, GainsEnd
<1>4. Tidy(r[j], r[j].section) /\ r[j].section < 5
  <2> DEFINE i == j + 1
             p == at[j]
             q == at[i]
             op == layout[i]
  <2>1. i \in 1 .. Len(layout) /\ i - 1 = j /\ Len(layout) \in Nat
    <3>1. Len(layout) \in Nat
      BY <1>2, LayedIs
    <3> QED BY <1>1, <3>1
  <2>2. Tidy(r[j], r[j].section) /\ r[j].section = p[1] /\ p \in Stages
    BY <1>2, LayedIs
  <2>3. Moves(op, p, q) /\ op = Section(BodySection)
    BY <1>1, <1>2, <2>1, LayedIs
  <2> HIDE DEF p, q, op
  <2>4. op.op = "section" /\ op.section = 5
    BY <2>3 DEF Section, BodySection
  <2>5. q[1] = 5 /\ q[1] \in {p[1] + 1, p[1] + 2}
    BY <2>3, <2>4 DEF Moves
  <2>6. p[1] \in 0 .. 5
    BY <2>2 DEF Stages, Sections
  <2> QED BY <2>2, <2>5, <2>6
<1> DEFINE b == r[j]
<1> HIDE DEF b
<1>5. Gains(b, e, holes) /\ Tidy(b, b.section) /\ b.section < 5
  BY <1>3, <1>4 DEF b
<1>6. /\ StepsBefore(e.counts, 5) \in Nat
      /\ \A n \in 1 .. Closed(e) : n > StepsBefore(e.counts, 5) => e.steps[n].hole \in holes
  BY <1>5, BodyAfter
<1>7. steps = e.steps /\ Len(steps) = Closed(e) /\ table.counts = e.counts /\ BodySection = 5
  BY FinishedIs DEF Layed, Finished, BodySection
<1> QED BY <1>6, <1>7 DEF BodyIs, holes

-----------------------------------------------------------------------------
(* The walk over a template's own steps.                                    *)

\* Some sections of a table, and the steps before them.
LEMMA SomeSteps ==
  ASSUME NEW table, IsTable(table)
  PROVE  /\ StepsBefore(table.counts, OriginSection) = 0
         /\ StepsBefore(table.counts, HeadSection) \in 0 .. table.total
         /\ StepsBefore(table.counts, BodySection) \in 0 .. table.total
         /\ StepsBefore(table.counts, Sections) = table.total
<1> DEFINE counts == table.counts
<1>1. counts \in Counting /\ CountOf(counts) = table.total
  BY DEF IsTable, Counting
<1> HIDE DEF counts
<1>2. /\ counts[0] \in Nat /\ counts[1] \in Nat /\ counts[2] \in Nat /\ counts[3] \in Nat
      /\ counts[4] \in Nat /\ counts[5] \in Nat
  BY <1>1 DEF Sections, Counting
<1>3. StepsBefore(counts, 3) \in 0 .. table.total
  <2>1. 3 \in Nat /\ 3 <= Sections
    BY DEF Sections
  <2>2. PICK r : Totals(r, 3, counts) /\ StepsBefore(counts, 3) = r[3]
    BY <1>1, <2>1, StepsBeforeIs
  <2>3. r[0] = 0 /\ r[1] = r[0] + counts[0] /\ r[2] = r[1] + counts[1] /\ r[3] = r[2] + counts[2]
    BY <2>2 DEF Totals
  <2> QED BY <1>1, <1>2, <2>2, <2>3 DEF CountOf
<1>4. StepsBefore(counts, 5) \in 0 .. table.total
  <2>1. 5 \in Nat /\ 5 <= Sections
    BY DEF Sections
  <2>2. PICK r : Totals(r, 5, counts) /\ StepsBefore(counts, 5) = r[5]
    BY <1>1, <2>1, StepsBeforeIs
  <2>3. r[0] = 0 /\ r[1] = r[0] + counts[0] /\ r[2] = r[1] + counts[1] /\ r[3] = r[2] + counts[2]
        /\ r[4] = r[3] + counts[3] /\ r[5] = r[4] + counts[4]
    BY <2>2 DEF Totals
  <2> QED BY <1>1, <1>2, <2>2, <2>3 DEF CountOf
<1>5. StepsBefore(counts, OriginSection) = 0 /\ StepsBefore(counts, Sections) = table.total
  BY <1>1, AllSteps
<1> QED BY <1>3, <1>4, <1>5 DEF counts, HeadSection, BodySection

\* What a walk from a section on starts with.
WalkFrom(table, steps, first, len) ==
  [NewState(table, len) EXCEPT !.cursor = SumOf(SubSeq(steps, 1, first), StepText)]

\* What it leaves of its last state, once the later sections have ended too.
WalkEnded(w, until) ==
  [w EXCEPT !.ends = [s \in DOMAIN @ |-> IF s >= until THEN Position(w) ELSE @[s]]]

\* Some of the steps are steps, and so is their sum a number.
LEMMA SumSoFar ==
  ASSUME NEW steps \in Seq(StepsKept), NEW first \in 0 .. Len(steps)
  PROVE  \E r : /\ Sums(r, steps, Len(steps)) /\ SumOf(steps, StepText) = r[Len(steps)]
                /\ SumOf(SubSeq(steps, 1, first), StepText) = r[first]
<1> DEFINE some == SubSeq(steps, 1, first)
           k == Len(steps)
<1>1. PICK r : Sums(r, steps, k) /\ SumOf(steps, StepText) = r[k]
  BY SumIs
<1>2. /\ some \in Seq(StepsKept) /\ Len(some) = first /\ \A n \in 1 .. first : some[n] = steps[n]
  OBVIOUS
<1>3. k \in Nat /\ first \in Nat /\ first <= k
  OBVIOUS
<1> HIDE DEF some, k
<1>4. PICK q : Sums(q, some, first) /\ SumOf(some, StepText) = q[first]
  BY <1>2, SumIs
<1> DEFINE p == [i \in 0 .. first |-> r[i]]
<1>5. Sums(p, some, first)
  <2>1. /\ r \in [0 .. k -> Nat] /\ r[0] = 0
        /\ \A i \in 1 .. k : r[i] = r[i - 1] + StepText(steps[i])
    BY <1>1 DEF Sums
  <2>2. p \in [0 .. first -> Nat] /\ p[0] = 0
    BY <1>3, <2>1
  <2>3. ASSUME NEW i \in 1 .. first
        PROVE  p[i] = p[i - 1] + StepText(some[i])
    <3>1. i \in 1 .. k /\ i \in 0 .. first /\ i - 1 \in 0 .. first
      BY <1>3
    <3> QED BY <1>2, <2>1, <3>1
  <2> QED BY <2>2, <2>3 DEF Sums
<1>6. first \in 0 .. first
  BY <1>3
<1>7. p[first] = r[first]
  BY <1>6
<1> HIDE DEF p
<1>8. p[first] = q[first]
  BY <1>3, <1>4, <1>5, <1>6, SumsSame
<1> QED BY <1>1, <1>4, <1>7, <1>8 DEF some, k

\* A sum goes up.
LEMMA SumsUp ==
  ASSUME NEW r, NEW steps \in Seq(StepsKept), Sums(r, steps, Len(steps)),
         NEW n \in 0 .. Len(steps)
  PROVE  r[n] \in Nat /\ r[n] <= r[Len(steps)]
<1> DEFINE k == Len(steps)
           S == {i \in 0 .. k - n : r[n] <= r[n + i]}
<1>0. /\ k \in Nat /\ r \in [0 .. k -> Nat]
      /\ \A i \in 1 .. k : r[i] = r[i - 1] + StepText(steps[i]) /\ StepText(steps[i]) \in Nat
  <2>1. \A i \in 1 .. k : steps[i] \in StepsKept
    OBVIOUS
  <2> QED BY <2>1 DEF Sums, StepText, StepsKept
<1> HIDE DEF k
<1>1. n \in 0 .. k /\ k - n \in Nat /\ n \in Nat /\ k \in Nat
  BY <1>0 DEF k
<1>2. 0 \in S
  BY <1>0, <1>1
<1>3. ASSUME NEW i \in 1 .. k - n, i - 1 \in S
      PROVE  i \in S
  <2>1. n + i \in 1 .. k /\ n + (i - 1) = n + i - 1 /\ n + i - 1 \in 0 .. k /\ n + i \in 0 .. k
    BY <1>1
  <2>2. r[n] <= r[n + i - 1] /\ r[n + i] = r[n + i - 1] + StepText(steps[n + i])
        /\ StepText(steps[n + i]) \in Nat /\ r[n + i - 1] \in Nat /\ r[n] \in Nat
    BY <1>0, <1>1, <1>3, <2>1
  <2> QED BY <2>2
<1> HIDE DEF S
<1>4. \A i \in 0 .. k - n : i \in S
  BY <1>1, <1>2, <1>3, Induction
<1>5. k - n \in 0 .. k - n /\ n + (k - n) = k
  BY <1>1
<1>6. k - n \in S
  BY <1>4, <1>5
<1> QED BY <1>0, <1>1, <1>5, <1>6 DEF S, k

\* A step that is read whole, with a hole that the request fills.
ReadsOn(w, v, step) == ~ v.failed /\ v.cursor = w.cursor + StepText(step)
Readable(w, at, steps, text, f) ==
  /\ ~ w.failed /\ at \in Nat /\ at < Len(steps) /\ steps[at + 1].hole \in Ready(f)
  /\ w.cursor + StepText(steps[at + 1]) <= Len(text)
LEMMA WalkStepHolds ==
  ASSUME NEW len, NEW w \in Passes(len, FALSE), NEW table, NEW f, FillOf(f),
         NEW steps \in Seq(StepsKept), NEW text \in Wording, NEW at, Readable(w, at, steps, text, f)
  PROVE  ReadsOn(w, WalkStep(w, at, table, steps, text, f), steps[at + 1])
<1> DEFINE step == steps[at + 1]
           before == Position(w) + (IF step.len < table.fields[2] THEN step.len ELSE table.fields[2])
           marked == IF at = table.fields[1] THEN [w EXCEPT !.fields = before] ELSE w
           run == Run(text, w.cursor, step.len)
           copied == [marked EXCEPT !.out = @ \o run]
           name == Run(text, w.cursor + step.len, step.name)
           hole == step.hole
           filled == IF hole = NoHole THEN copied ELSE WriteHole(copied, hole, name, f)
           read == IF hole = NoHole THEN step.len ELSE StepText(step)
           more == StepLen(step)
           ends == [s \in DOMAIN filled.ends |-> IF s \in step.ends THEN Position(filled) ELSE filled.ends[s]]
           walked == [filled EXCEPT !.cursor = @ + more, !.ends = ends]
<1>0. /\ ~ w.failed /\ at \in Nat /\ at < Len(steps) /\ step.hole \in Ready(f)
      /\ w.cursor + StepText(step) <= Len(text)
  BY DEF Readable
<1>1. WalkStep(w, at, table, steps, text, f) =
        IF w.failed THEN w
        ELSE IF w.cursor + read > Len(text) THEN [w EXCEPT !.failed = TRUE]
        ELSE walked
  BY Zenon DEF WalkStep
<1>2. step.len \in Nat /\ step.name \in Nat /\ step \in StepsKept
  <2>1. at + 1 \in 1 .. Len(steps)
    BY <1>0
  <2>2. step \in StepsKept
    BY <2>1
  <2> QED BY <2>2 DEF StepsKept
<1>3. w.cursor \in Nat /\ Len(text) \in Nat
  <2>1. w.cursor \in Nat
    BY PassIs
  <2> QED BY <2>1 DEF Wording
<1>4. more = StepText(step) /\ more \in Nat /\ ~ (w.cursor + read > Len(text))
  <2>1. StepText(step) = step.len + step.name
    BY DEF StepText
  <2>2. more = StepText(step)
    BY DEF StepLen
  <2>3. read <= StepText(step) /\ read \in Nat
    BY <1>2, <2>1
  <2> HIDE DEF read, more, step
  <2> QED BY SMTT(20), <1>0, <1>2, <1>3, <2>1, <2>2, <2>3 DEF step
<1>5. {"failed", "cursor", "ends"} \subseteq DOMAIN w
  BY DEF Passes, PassRecords
<1>6. hole = NoHole \/ CanFill(hole, f)
  BY <1>0 DEF Ready
<1> HIDE DEF step, run, name, read, more, before, hole
<1>7. {"failed", "cursor", "ends"} \subseteq DOMAIN marked /\ marked.failed = w.failed /\ marked.cursor = w.cursor
  <2>1. "fields" # "failed" /\ "fields" # "cursor"
    OBVIOUS
  <2>2. CASE at = table.fields[1]
    <3> DEFINE other == [w EXCEPT !.fields = before]
    <3>1. DOMAIN other = DOMAIN w /\ other.failed = w.failed /\ other.cursor = w.cursor
      BY <1>5
    <3>2. marked = other
      BY <2>2
    <3> QED BY <1>5, <3>1, <3>2
  <2>3. CASE at # table.fields[1]
    BY <1>5, <2>3
  <2> QED BY <2>2, <2>3
<1> HIDE DEF marked
<1>8. {"failed", "cursor", "ends"} \subseteq DOMAIN copied /\ copied.failed = w.failed /\ copied.cursor = w.cursor
  BY <1>7
<1> HIDE DEF copied
<1>9. {"failed", "cursor", "ends"} \subseteq DOMAIN filled /\ filled.failed = w.failed /\ filled.cursor = w.cursor
  <2>1. CASE hole = NoHole
    BY <1>8, <2>1
  <2>2. CASE hole # NoHole
    <3>1. CanFill(hole, f)
      BY <1>6, <2>2
    <3> DEFINE wrote == WriteHole(copied, hole, name, f)
               said == HoleText(copied, hole, name, f)
               span == SpanOf(Position(copied), Len(said))
               params == IF CountsParam(hole, f) THEN copied.params + 1 ELSE copied.params
               signature == IF hole = "Signature" THEN span ELSE copied.signature
               hash == IF hole = "BodyHash" THEN Recorded(copied.bodyHash, 3, span) ELSE copied.bodyHash
               checksum == IF hole = "BodyChecksum" THEN Recorded(copied.bodyChecksum, 2, span)
                           ELSE copied.bodyChecksum
    <3>2. wrote = [copied EXCEPT !.out = @ \o said, !.params = params, !.signature = signature,
                                 !.bodyHash = hash, !.bodyChecksum = checksum]
      BY <3>1, Zenon DEF WriteHole
    <3> HIDE DEF wrote, said, params, signature, hash, checksum
    <3>3. DOMAIN wrote = DOMAIN copied /\ wrote.failed = copied.failed /\ wrote.cursor = copied.cursor
      BY <1>8, <3>2
    <3>4. filled = wrote
      BY <2>2 DEF wrote
    <3> QED BY <1>8, <3>3, <3>4
  <2> QED BY <2>1, <2>2
<1> HIDE DEF filled
<1>10. walked.failed = w.failed /\ walked.cursor = w.cursor + more
  <2> HIDE DEF ends
  <2> QED BY <1>9
<1> HIDE DEF walked
<1>11. WalkStep(w, at, table, steps, text, f) = walked
  BY <1>0, <1>1, <1>4
<1>12. walked.cursor = w.cursor + StepText(step)
  BY <1>4, <1>10
<1>13. ~ walked.failed
  BY <1>0, <1>10
<1> QED BY <1>11, <1>12, <1>13 DEF step, ReadsOn

\* A walk that goes on, over the steps after the first.
WalkOver(r, table, steps, text, f, from, until, first, last, len) ==
  /\ WalkRun(r, first, last - first, table, steps, text, f, WalkFrom(table, steps, first, len), len)
  /\ Walk(table, steps, text, f, from, until, len) = WalkEnded(r[last - first], until)
LEMMA WalkRuns ==
  ASSUME NEW len, NEW table, IsTable(table), NEW f, FillOf(f),
         NEW steps \in Seq(StepsKept), NEW text \in Wording, NEW from, NEW until,
         NEW first \in Nat, first = StepsBefore(table.counts, from),
         NEW last \in Nat, last = StepsBefore(table.counts, until), first <= last, last <= Len(steps)
  PROVE  \E r : WalkOver(r, table, steps, text, f, from, until, first, last, len)
<1> DEFINE start == WalkFrom(table, steps, first, len)
           seq == [n \in 1 .. last - first |-> first + n - 1]
           k == last - first
           X == Passes(len, FALSE)
           Eq(f1) == f1 = [s \in SUBSET DOMAIN seq |->
                       IF s = {} THEN start
                       ELSE WalkStep(f1[s \ {Max(s)}], seq[Max(s)], table, steps, text, f)]
           fold == CHOOSE f1 : Eq(f1)
           step == [n \in 1 .. k |-> [x \in X |-> WalkStep(x, seq[n], table, steps, text, f)]]
           walked == FoldLeft(LAMBDA w, at : WalkStep(w, at, table, steps, text, f), start, seq)
<1>1. k \in Nat
  OBVIOUS
<1>2. Walk(table, steps, text, f, from, until, len) = WalkEnded(walked, until)
  BY Zenon DEF Walk, WalkEnded, WalkFrom
<1>3. start \in X
  <2>1. NewState(table, len) \in X
    BY NewStateKept
  <2>2. NewState(table, len).ends \in EndsWithin(Len(NewState(table, len).out))
    BY <2>1, PassIs
  <2> DEFINE some == SubSeq(steps, 1, first)
             cursor == SumOf(some, StepText)
  <2>3. cursor \in Nat
    <3>1. some \in Seq(StepsKept)
      OBVIOUS
    <3> HIDE DEF some
    <3>2. PICK r : Sums(r, some, Len(some)) /\ cursor = r[Len(some)]
      BY <3>1, SumIs
    <3>3. Len(some) \in 0 .. Len(some)
      BY <3>1
    <3> QED BY <3>2, <3>3 DEF Sums
  <2> HIDE DEF cursor
  <2>4. [NewState(table, len) EXCEPT !.cursor = cursor] \in X
    BY <2>1, <2>2, <2>3, PassPlaced
  <2> QED BY <2>4 DEF WalkFrom, cursor
<1>4. DOMAIN seq = 1 .. k /\ \A n \in 1 .. k : seq[n] \in Nat /\ seq[n] < Len(steps) /\ seq[n] = first + n - 1
  <2>1. DOMAIN seq = 1 .. k /\ \A n \in 1 .. k : seq[n] = first + n - 1
    OBVIOUS
  <2>2. Len(steps) \in Nat /\ first \in Nat /\ last \in Nat /\ last <= Len(steps)
    OBVIOUS
  <2>3. \A n \in 1 .. k : first + n - 1 \in Nat /\ first + n - 1 < Len(steps)
    <3> SUFFICES ASSUME NEW n \in 1 .. k
                 PROVE  first + n - 1 \in Nat /\ first + n - 1 < Len(steps)
      OBVIOUS
    <3>1. n \in Nat /\ n >= 1 /\ n <= last - first
      BY <1>1
    <3> QED BY ONLY <2>2, <3>1
  <2> HIDE DEF seq, k
  <2> QED BY <2>1, <2>3
<1>5. walked = fold[1 .. k]
  <2> HIDE DEF seq, start
  <2> QED BY <1>4, Zenon DEF FoldLeft, MapThenFoldSet
<1> HIDE DEF start, seq, k, walked
<1>6. step \in StepsOver(k, X)
  <2>1. \A n \in 1 .. k : \A x \in X : WalkStep(x, seq[n], table, steps, text, f) \in X
    BY <1>4, WalkStepKept
  <2> HIDE DEF X
  <2> QED BY <2>1 DEF StepsOver
<1> HIDE DEF X
<1>7. PICK g : Solves(g, k, X, start, step)
  <2> HIDE DEF step
  <2> QED BY <1>1, <1>3, <1>6, FoldExists
<1>8. Eq(g)
  <2>1. \A s \in SUBSET (1 .. k) :
          s # {} => g[s] = WalkStep(g[s \ {Max(s)}], seq[Max(s)], table, steps, text, f)
    <3> SUFFICES ASSUME NEW s \in SUBSET (1 .. k), s # {}
                 PROVE  g[s] = WalkStep(g[s \ {Max(s)}], seq[Max(s)], table, steps, text, f)
      OBVIOUS
    <3>1. Max(s) \in 1 .. k /\ g[s \ {Max(s)}] \in X
      BY <1>7 DEF Solves
    <3> QED BY <3>1, <1>7 DEF Solves
  <2> QED BY <1>4, <1>7, <2>1 DEF Solves
<1>9. Eq(fold)
  <2> HIDE DEF Eq
  <2> QED BY <1>8, Zenon
<1> HIDE DEF fold
<1>10. Folds(fold, k, X, start, step)
  BY <1>4, <1>9 DEF Folds
<1>11. PICK r : Runs(r, k, X, start, step) /\ fold[1 .. k] = r[k]
  <2> HIDE DEF step, Eq
  <2> QED BY <1>1, <1>3, <1>6, <1>10, FoldRuns
<1>12. WalkRun(r, first, k, table, steps, text, f, start, len)
  <2>1. r \in [0 .. k -> X] /\ r[0] = start /\ \A n \in 1 .. k : r[n] = step[n][r[n - 1]]
    BY <1>11 DEF Runs
  <2>2. ASSUME NEW n \in 1 .. k
        PROVE  r[n] = WalkStep(r[n - 1], first + n - 1, table, steps, text, f)
    <3>1. n - 1 \in 0 .. k
      BY <1>1
    <3>2. r[n - 1] \in X
      BY <2>1, <3>1
    <3>3. r[n] = WalkStep(r[n - 1], seq[n], table, steps, text, f)
      BY <2>1, <3>2
    <3> QED BY <1>4, <3>3
  <2> QED BY <2>1, <2>2 DEF WalkRun, X
<1>13. Walk(table, steps, text, f, from, until, len) = WalkEnded(r[k], until)
  BY <1>2, <1>5, <1>11
<1> QED BY <1>12, <1>13 DEF k, start, WalkOver

\* It never fails, over the steps of a template's own, whatever its sections.
LEMMA WalkHolds ==
  ASSUME NEW len, NEW table, IsTable(table), NEW f, FillOf(f),
         NEW steps \in Seq(StepsKept), NEW text \in Wording, NEW from, NEW until,
         NEW first \in Nat, first = StepsBefore(table.counts, from),
         NEW last \in Nat, last = StepsBefore(table.counts, until), first <= last, last <= Len(steps),
         Able(steps, f), SumOf(steps, StepText) <= Len(text)
  PROVE  /\ ~ Walk(table, steps, text, f, from, until, len).failed
         /\ Position(Walk(table, steps, text, f, from, until, len)) \in Nat
<1> DEFINE start == WalkFrom(table, steps, first, len)
           k == last - first
           walked == Walk(table, steps, text, f, from, until, len)
<1>1. PICK r : WalkRun(r, first, k, table, steps, text, f, start, len) /\ walked = WalkEnded(r[k], until)
  <2>1. PICK r : WalkOver(r, table, steps, text, f, from, until, first, last, len)
    BY WalkRuns
  <2> QED BY <2>1 DEF WalkOver
<1>2. first \in 0 .. Len(steps) /\ Len(steps) \in Nat /\ k \in Nat /\ Len(text) \in Nat
  BY DEF Wording
<1>3. PICK q : /\ Sums(q, steps, Len(steps)) /\ SumOf(steps, StepText) = q[Len(steps)]
               /\ SumOf(SubSeq(steps, 1, first), StepText) = q[first]
  BY <1>2, SumSoFar
<1>4. ~ start.failed /\ start.cursor = q[first]
  BY <1>3 DEF WalkFrom, NewState
<1> HIDE DEF start, walked
<1>5. /\ r \in [0 .. k -> Passes(len, FALSE)] /\ r[0] = start
      /\ \A n \in 1 .. k : r[n] = WalkStep(r[n - 1], first + n - 1, table, steps, text, f)
  BY <1>1 DEF WalkRun
<1> DEFINE S == {i \in 0 .. k : ~ r[i].failed /\ r[i].cursor = q[first + i]}
<1>6. 0 \in S
  <2>1. first + 0 = first /\ 0 \in 0 .. k
    BY <1>2
  <2> QED BY <1>4, <1>5, <2>1
<1>7. ASSUME NEW i \in 1 .. k, i - 1 \in S
      PROVE  i \in S
  <2> DEFINE w == r[i - 1]
             n == first + i - 1
             v == r[i]
  <2>1. n \in Nat /\ n < Len(steps) /\ n + 1 = first + i /\ i - 1 \in 0 .. k /\ first + (i - 1) = n
        /\ n + 1 \in 1 .. Len(steps) /\ n + 1 \in 0 .. Len(steps) /\ (n + 1) - 1 = n
    <3>1. i \in Nat /\ i >= 1 /\ i <= last - first /\ first \in Nat /\ last \in Nat
          /\ Len(steps) \in Nat /\ last <= Len(steps)
      BY <1>2
    <3> QED BY ONLY <3>1
  <2>2. w \in Passes(len, FALSE) /\ ~ w.failed /\ w.cursor = q[n]
        /\ v = WalkStep(w, n, table, steps, text, f)
    BY <1>5, <1>7, <2>1
  <2> HIDE DEF w, n, v
  <2>3. q[n + 1] = q[n] + StepText(steps[n + 1])
    BY <1>3, <2>1 DEF Sums
  <2>4. q[n + 1] \in Nat /\ q[n + 1] <= q[Len(steps)]
    <3> DEFINE l == n + 1
    <3>1. l \in 0 .. Len(steps)
      BY <2>1
    <3> HIDE DEF l
    <3>2. q[l] \in Nat /\ q[l] <= q[Len(steps)]
      BY <1>3, <3>1, SumsUp
    <3> QED BY <3>2 DEF l
  <2>5. q[Len(steps)] \in Nat
    BY <1>2, <1>3 DEF Sums
  <2>6. w.cursor + StepText(steps[n + 1]) <= Len(text)
    <3> DEFINE more == StepText(steps[n + 1])
               end == q[n + 1]
               whole == q[Len(steps)]
    <3>1. w.cursor + more = end /\ end \in Nat /\ whole \in Nat /\ end <= whole
      BY <2>2, <2>3, <2>4, <2>5
    <3>2. whole <= Len(text) /\ Len(text) \in Nat
      BY <1>2, <1>3
    <3> HIDE DEF more, end, whole
    <3>3. w.cursor + more <= Len(text)
      BY ONLY <3>1, <3>2
    <3> QED BY <3>3 DEF more
  <2>7. steps[n + 1].hole \in Ready(f)
    BY <2>1 DEF Able
  <2>8. ReadsOn(w, WalkStep(w, n, table, steps, text, f), steps[n + 1])
    <3>1. Readable(w, n, steps, text, f)
      BY <2>1, <2>2, <2>6, <2>7 DEF Readable
    <3> QED BY <2>2, <3>1, WalkStepHolds
  <2>9. ~ v.failed /\ v.cursor = q[first + i]
    BY <2>1, <2>2, <2>3, <2>8 DEF ReadsOn
  <2>10. i \in 0 .. k
    BY <1>2
  <2> QED BY <2>9, <2>10 DEF v
<1> HIDE DEF S
<1>8. \A i \in 0 .. k : i \in S
  BY <1>2, <1>6, <1>7, Induction
<1>9. k \in 0 .. k
  BY <1>2
<1>10. ~ r[k].failed /\ r[k] \in Passes(len, FALSE)
  BY <1>5, <1>8, <1>9 DEF S
<1> DEFINE w == r[k]
           ends == [s \in DOMAIN w.ends |-> IF s >= until THEN Position(w) ELSE w.ends[s]]
<1>11. walked = [w EXCEPT !.ends = ends]
  BY <1>1, Zenon DEF WalkEnded
<1>12. w \in PassRecords(len, FALSE) /\ ~ w.failed /\ Len(w.out) \in Nat
  <2>1. w \in PassRecords(len, FALSE)
    BY Zenon, <1>10 DEF Passes
  <2>2. ~ w.failed /\ w \in Passes(len, FALSE)
    BY Zenon, <1>10
  <2> HIDE DEF w
  <2>3. Len(w.out) \in Nat
    BY <2>2, PassIs
  <2> QED BY <2>1, <2>2, <2>3
<1> HIDE DEF w, ends
<1>13. ~ walked.failed /\ walked.out = w.out
  BY <1>11, <1>12 DEF PassRecords
<1> QED BY <1>12, <1>13 DEF Position, walked

-----------------------------------------------------------------------------
(* The length of a body, from a template's own table.                       *)

LEMMA AddedIn ==
  ASSUME NEW numbers \in Seq(Nat)
  PROVE  Added(numbers) \in Nat
<1>1. PICK r : Adding(r, numbers) /\ Added(numbers) = r[Len(numbers)]
  BY AddedIs
<1>2. Len(numbers) \in 0 .. Len(numbers)
  OBVIOUS
<1> QED BY <1>1, <1>2 DEF Adding

LEMMA LeastIn ==
  ASSUME NEW S, S \subseteq Nat, S # {}
  PROVE  Min(S) \in S
<1>1. \E n \in S : \A k \in S : n <= k
  BY LeastNatural
<1> QED BY <1>1, Zenon DEF Min

\* A request whose pass writes what its template describes.
Fits(table, steps, text, f, d) ==
  /\ IsTable(table) /\ FillOf(f) /\ steps \in Seq(StepsKept) /\ Len(steps) = table.total
  /\ text \in Wording /\ Able(steps, f) /\ SumOf(steps, StepText) <= Len(text)
  /\ BodyIs(steps, table.counts, d) /\ (d.body = "each" => f.writes)

\* The walk of its URL, and that of its body, read no more than there is.
LEMMA FitsWalks ==
  ASSUME NEW table, NEW steps, NEW text, NEW f, NEW d, Fits(table, steps, text, f, d)
  PROVE  /\ ~ UrlWalk(table, steps, text, f).failed
         /\ ~ Walk(table, steps, text, f, BodySection, Sections, 0).failed
         /\ Position(Walk(table, steps, text, f, BodySection, Sections, 0)) \in Nat
<1>0. /\ IsTable(table) /\ FillOf(f) /\ steps \in Seq(StepsKept) /\ Len(steps) = table.total
      /\ text \in Wording /\ Able(steps, f) /\ SumOf(steps, StepText) <= Len(text)
  BY DEF Fits
<1>1. /\ StepsBefore(table.counts, OriginSection) = 0
      /\ StepsBefore(table.counts, HeadSection) \in 0 .. table.total
      /\ StepsBefore(table.counts, BodySection) \in 0 .. table.total
      /\ StepsBefore(table.counts, Sections) = table.total /\ table.total \in Nat
  BY <1>0, SomeSteps DEF IsTable
<1>2. ~ UrlWalk(table, steps, text, f).failed
  <2> DEFINE from == OriginSection
             until == HeadSection
             len == 0
             first == StepsBefore(table.counts, from)
             last == StepsBefore(table.counts, until)
  <2>1. first \in Nat /\ last \in Nat /\ first <= last /\ last <= Len(steps)
    BY <1>0, <1>1
  <2> HIDE DEF from, until, len
  <2>2. ~ Walk(table, steps, text, f, from, until, len).failed
    BY <1>0, <2>1, WalkHolds
  <2> QED BY <2>2 DEF UrlWalk, from, until, len
<1>3. /\ ~ Walk(table, steps, text, f, BodySection, Sections, 0).failed
      /\ Position(Walk(table, steps, text, f, BodySection, Sections, 0)) \in Nat
  <2> DEFINE from == BodySection
             until == Sections
             len == 0
             first == StepsBefore(table.counts, from)
             last == StepsBefore(table.counts, until)
  <2>1. first \in Nat /\ last \in Nat /\ first <= last /\ last <= Len(steps)
    BY <1>0, <1>1
  <2> HIDE DEF from, until, len
  <2>2. /\ ~ Walk(table, steps, text, f, from, until, len).failed
        /\ Position(Walk(table, steps, text, f, from, until, len)) \in Nat
    BY <1>0, <2>1, WalkHolds
  <2> QED BY <2>2 DEF from, until, len
<1> QED BY <1>2, <1>3

LEMMA FitsBody ==
  ASSUME NEW table, NEW steps, NEW text, NEW f, NEW d, Fits(table, steps, text, f, d)
  PROVE  BodyLen(table, steps, text, f) \in Nat
<1> DEFINE first == StepsBefore(table.counts, BodySection)
           body == SubSeq(steps, first + 1, Len(steps))
           counted == Walk(table, steps, text, f, BodySection, Sections, 0)
           plain == Added([n \in DOMAIN body |-> body[n].len])
           whole == Added([n \in DOMAIN body |->
                       StepText(body[n]) + (IF body[n].hole = "Body" THEN Len(f.body) ELSE 0)])
           holed == \E n \in DOMAIN body : body[n].hole # NoHole
           stops == {n \in DOMAIN body : body[n].hole \notin {NoHole, "Body"}
                                           \/ (body[n].hole = "Body" /\ ~f.known)}
           first2 == Min(stops)
           len == BodyLen(table, steps, text, f)
<1>1. len = IF ~ table.body THEN 0
            ELSE IF ~ f.writes THEN IF holed THEN -1 ELSE plain
            ELSE IF stops = {} THEN whole
            ELSE IF body[first2].hole # "Body" \/ counted.failed THEN -1
            ELSE Position(counted)
  BY Zenon DEF BodyLen, SumOf
<1>2. /\ first \in Nat /\ steps \in Seq(StepsKept) /\ f.body \in Wording /\ (d.body = "each" => f.writes)
      /\ \A n \in 1 .. Len(steps) : n > first => steps[n].hole \in BodyHoles(d)
  <2>1. FillOf(f) /\ steps \in Seq(StepsKept) /\ BodyIs(steps, table.counts, d) /\ (d.body = "each" => f.writes)
    BY DEF Fits
  <2>2. f.body \in Wording
    BY <2>1, Worded DEF FillOf
  <2> QED BY <2>1, <2>2 DEF BodyIs
<1>3. ~ counted.failed /\ Position(counted) \in Nat
  BY FitsWalks
<1> HIDE DEF first, counted, len
<1>4. PICK k \in Nat : /\ DOMAIN body = 1 .. k
                       /\ \A n \in 1 .. k : body[n] \in StepsKept /\ body[n].hole \in BodyHoles(d)
  <2>1. body \in Seq(StepsKept)
    BY <1>2
  <2>2. \A n \in 1 .. Len(body) : /\ first + n \in 1 .. Len(steps) /\ first + n > first
                                  /\ body[n] = steps[first + n]
    BY <1>2
  <2>3. \A n \in 1 .. Len(body) : body[n].hole \in BodyHoles(d)
    BY <1>2, <2>2
  <2> HIDE DEF body
  <2>4. Len(body) \in Nat /\ DOMAIN body = 1 .. Len(body) /\ \A n \in 1 .. Len(body) : body[n] \in StepsKept
    BY <2>1
  <2> QED BY <2>3, <2>4
<1> HIDE DEF body
<1>5. plain \in Nat
  <2> DEFINE numbers == [n \in DOMAIN body |-> body[n].len]
  <2>1. numbers \in [1 .. k -> Nat]
    BY <1>4 DEF StepsKept
  <2> HIDE DEF numbers
  <2>2. numbers \in Seq(Nat)
    BY <2>1, FunctionIsSeq
  <2>3. Added(numbers) \in Nat
    BY <2>2, AddedIn
  <2> QED BY <2>3 DEF numbers
<1>6. whole \in Nat
  <2> DEFINE numbers == [n \in DOMAIN body |->
                           StepText(body[n]) + (IF body[n].hole = "Body" THEN Len(f.body) ELSE 0)]
  <2>0. Len(f.body) \in Nat
    BY <1>2 DEF Wording
  <2>1. numbers \in [1 .. k -> Nat]
    <3>1. \A n \in 1 .. k : StepText(body[n]) \in Nat
      BY <1>4 DEF StepsKept, StepText
    <3> QED BY <1>4, <2>0, <3>1
  <2> HIDE DEF numbers
  <2>2. numbers \in Seq(Nat)
    BY <2>1, FunctionIsSeq
  <2>3. Added(numbers) \in Nat
    BY <2>2, AddedIn
  <2> QED BY <2>3 DEF numbers
<1>7. ~ f.writes => ~ holed
  BY <1>2, <1>4 DEF BodyHoles
<1>8. stops # {} => body[first2].hole = "Body"
  <2> SUFFICES ASSUME stops # {} PROVE body[first2].hole = "Body"
    OBVIOUS
  <2>1. stops \subseteq Nat
    BY <1>4
  <2>2. \A n \in stops : n \in 1 .. k /\ (body[n].hole \notin {NoHole, "Body"} \/ body[n].hole = "Body")
    BY <1>4
  <2> HIDE DEF stops
  <2>3. first2 \in stops
    BY <2>1, LeastIn
  <2> HIDE DEF first2
  <2>4. body[first2].hole \in {NoHole, "Body"}
    BY <1>4, <2>2, <2>3 DEF BodyHoles
  <2> QED BY <2>2, <2>3, <2>4
<1> HIDE DEF plain, whole, holed, stops, first2
<1>9. len \in Nat
  BY <1>1, <1>3, <1>5, <1>6, <1>7, <1>8
<1> QED BY <1>9 DEF len

-----------------------------------------------------------------------------
(* A template's own bytes, as a request reads them.                         *)

\* They hold the table, and read as what they are: nothing else is taken for a
\* step, whatever text may read as.
OwnRead(table, bytes, junk) ==
  /\ Holds(table, bytes) /\ StepsOf(table, bytes, junk) = bytes.steps /\ TextOf(table, bytes) = bytes.text

LEMMA OwnIsRead ==
  ASSUME NEW table, IsTable(table), NEW bytes \in Bytes, NEW junk,
         table.start = Len(bytes.text), table.total = Len(bytes.steps)
  PROVE  OwnRead(table, bytes, junk)
<1> DEFINE text == bytes.text
           steps == bytes.steps
           start == table.start
           total == table.total
           read == [n \in 1 .. total |->
                      LET at == start + n
                      IN  IF at <= Len(text) THEN junk ELSE steps[at - Len(text)]]
           said == [n \in 1 .. start |-> IF n <= Len(text) THEN text[n] ELSE "junk"]
<1>1. /\ text \in Seq(Words) /\ steps \in Seq(StepsKept) /\ start = Len(text) /\ total = Len(steps)
  BY DEF Bytes, Wording
<1>2. TextOf(table, bytes) = said /\ StepsOf(table, bytes, junk) = read
  <2>1. TextOf(table, bytes) = said
    BY DEF TextOf
  <2>2. StepsOf(table, bytes, junk) = read
    BY DEF StepsOf
  <2> QED BY <2>1, <2>2
<1>3. Holds(table, bytes) <=> start + total <= Len(text) + Len(steps)
  BY DEF Holds, BytesLen
<1> HIDE DEF text, steps, start, total
<1>4. said = text
  <2>1. said = [n \in 1 .. Len(text) |-> text[n]]
    BY <1>1
  <2> QED BY <1>1, <2>1
<1>5. read = steps
  <2> DEFINE k == Len(steps)
  <2>1. read = [n \in 1 .. k |-> steps[n]]
    <3>1. Len(text) \in Nat /\ total = k /\ start = Len(text) /\ k \in Nat
      BY <1>1
    <3>2. \A n \in 1 .. k : ~ (start + n <= Len(text)) /\ (start + n) - Len(text) = n
      BY <3>1
    <3> HIDE DEF k
    <3> QED BY <3>1, <3>2
  <2> QED BY <1>1, <2>1
<1> HIDE DEF said, read
<1>6. Holds(table, bytes)
  BY <1>1, <1>3
<1> QED BY <1>2, <1>4, <1>5, <1>6 DEF OwnRead, text, steps

\* The key of a template's own object is the end of its text.
LEMMA OwnKey ==
  ASSUME NEW d, d.object, NEW text \in Wording, NEW table, table.start = Len(text \o StashText(d))
  PROVE  LET span == KeySpan(d, table)
         IN  /\ span # None /\ span.start + span.len <= Len(text \o StashText(d))
             /\ SubSeq(text \o StashText(d), span.start + 1, span.start + span.len) = ObjectKey
<1> DEFINE scope == IF d.service = "s3" THEN ScopeText ELSE <<>>
           before == text \o scope
           all == text \o StashText(d)
           span == KeySpan(d, table)
<1>1. scope \in Wording /\ ObjectKey \in Wording /\ Len(ObjectKey) = 2
  BY WordingIs DEF ObjectKey
<1>2. StashText(d) = scope \o ObjectKey
  BY DEF StashText, KeyText
<1> HIDE DEF scope
<1>3. all = before \o ObjectKey
  <2> DEFINE X == Words
             key == ObjectKey
  <2>1. text \in Seq(X) /\ scope \in Seq(X) /\ key \in Seq(X)
    BY <1>1 DEF Wording
  <2> HIDE DEF X, key
  <2>2. (text \o scope) \o key = text \o (scope \o key)
    BY SMTT(20), <2>1, ConcatAssociative
  <2> QED BY <1>2, <2>2 DEF key
<1>4. before \in Seq(Words) /\ ObjectKey \in Seq(Words)
  BY <1>1 DEF Wording
<1>5. table.start = Len(all)
  OBVIOUS
<1> HIDE DEF before, all
<1> DEFINE key == ObjectKey
           m == Len(before)
<1>6. key \in Seq(Words) /\ before \in Seq(Words) /\ Len(key) = 2 /\ all = before \o key
  BY <1>1, <1>3, <1>4
<1>7. span = SpanOf(table.start - Len(key), Len(key))
  BY DEF KeySpan
<1> HIDE DEF key, span
<1>8. Len(all) = m + 2 /\ m \in Nat /\ \A i \in 1 .. 2 : all[m + i] = key[i]
  <2> DEFINE X == Words
  <2>1. key \in Seq(X) /\ before \in Seq(X)
    BY <1>6
  <2> HIDE DEF X
  <2>2. /\ Len(before \o key) = Len(before) + Len(key) /\ Len(before) \in Nat
        /\ \A i \in 1 .. Len(key) : (before \o key)[Len(before) + i] = key[i]
    BY ONLY <2>1
  <2> QED BY ONLY <1>6, <2>2 DEF m
<1>9. all \in Seq(Words)
  BY ONLY <1>6
<1> HIDE DEF m
<1>10. span = SpanOf(m, 2)
  BY <1>5, <1>6, <1>7, <1>8
<1>11. span.start = m /\ span.len = 2 /\ span # None
  BY <1>10 DEF SpanOf, None
<1>12. SubSeq(all, m + 1, m + 2) = key
  <2> DEFINE part == SubSeq(all, m + 1, m + 2)
  <2>1. part \in Seq(Words) /\ Len(part) = 2 /\ \A i \in 1 .. 2 : part[i] = all[m + i]
    <3> DEFINE X == Words
    <3>1. all \in Seq(X) /\ m \in Nat /\ Len(all) = m + 2
      BY <1>8, <1>9
    <3> HIDE DEF X
    <3>2. /\ SubSeq(all, m + 1, m + 2) \in Seq(X) /\ Len(SubSeq(all, m + 1, m + 2)) = 2
          /\ \A i \in 1 .. 2 : SubSeq(all, m + 1, m + 2)[i] = all[m + i]
      BY ONLY <3>1
    <3> QED BY <3>2 DEF X
  <2> HIDE DEF part
  <2>2. \A i \in 1 .. 2 : part[i] = key[i]
    BY <1>8, <2>1
  <2>3. part = key
    <3>1. Len(part) = Len(key) /\ key \in Seq(Words)
      BY <1>6, <2>1
    <3>2. \A i \in 1 .. Len(part) : part[i] = key[i]
      BY <1>6, <2>1, <2>2
    <3> QED BY <2>1, <3>1, <3>2, SeqEqual
  <2> QED BY <2>3 DEF part
<1> QED BY <1>8, <1>11, <1>12 DEF key, span, all

\* Which keys a request of an operation may name.
KeyMeant(d, key) == d.object => key \in {<<>>, ObjectKey}

\* What is made of a description reads its own key from its own bytes.
Made(d, made, e) ==
  /\ made.key = KeySpan(d, made.table) /\ made.table.start = Len(made.bytes.text)
  /\ made.bytes.text = e.text \o StashText(d) /\ e.text \in Wording

LEMMA OwnKeyTaken ==
  ASSUME NEW e, Made(describe, template, e), describe.object \in BOOLEAN, NEW key
  PROVE  KeyTaken(template.bytes, key) <=> KeyMeant(describe, key)
<1> DEFINE d == describe
           table == template.table
           text == e.text
           all == text \o StashText(d)
           span == KeySpan(d, table)
<1>1. template.key = span /\ table.start = Len(all) /\ template.bytes.text = all /\ text \in Wording
  BY DEF Made
<1> DEFINE ended == template.key.start + template.key.len
<1>2. KeyTaken(template.bytes, key)
        <=> \/ template.key = None
            \/ key = <<>>
            \/ /\ ended <= Len(template.bytes.text)
               /\ SubSeq(template.bytes.text, template.key.start + 1, ended) = key
  BY DEF KeyTaken
<1>3. CASE d.object
  <2>1. /\ span # None /\ span.start + span.len <= Len(all)
        /\ SubSeq(all, span.start + 1, span.start + span.len) = ObjectKey
    <3> HIDE DEF d, table, text
    <3> QED BY <1>1, <1>3, OwnKey
  <2> HIDE DEF d, table, all, span
  <2> QED BY <1>1, <1>2, <1>3, <2>1 DEF KeyMeant, d
<1>4. CASE ~ d.object
  <2>1. template.key = None
    BY <1>1, <1>4 DEF KeySpan
  <2> QED BY <1>2, <1>4, <2>1 DEF KeyMeant
<1> QED BY <1>3, <1>4

-----------------------------------------------------------------------------
(* A pass over the bytes of its own template.                               *)

\* What a template of a description is made from: the builders of its layout,
\* and what the last of them has finished.
MadeBy(d, made, at, r, e) ==
  /\ Layed(LayoutOf(d), at, r, e, made.table, made.bytes.steps, made.bytes.text)
  /\ Prepares(e, made.bytes, made.table, StashText(d))
  /\ Made(d, made, e) /\ made.bytes \in Bytes /\ IsTable(made.table)

LEMMA OfLayoutMade ==
  ASSUME NEW d \in Descriptions, NEW made, OfLayout(d, made)
  PROVE  \E at, r, e : MadeBy(d, made, at, r, e)
<1> DEFINE layout == LayoutOf(d)
           stash == StashText(d)
           k == Len(layout)
<1>1. PICK r : Built(r, layout, k) /\ Prepared6(d, made, r[k])
  BY DEF OfLayout
<1>2. PICK at : Runs6(layout, at)
  BY DescriptionRuns
<1>3. layout \in Seq(Ops) /\ stash \in Wording /\ k \in 0 .. k
  BY DescriptionIs, StashTextIn
<1> DEFINE b == r[k]
           bytes == made.bytes
           table == made.table
           e == EndOf(b)
<1>4. made.key = KeySpan(d, table) /\ bytes = Finish(Stash(b, stash)).bytes /\ table = Finish(Stash(b, stash)).table
  <2> DEFINE f == Finish(Stash(b, stash))
  <2>1. bytes = f.bytes /\ table = f.table /\ made.key = KeySpan(d, f.table)
    BY <1>1 DEF Prepared6
  <2> HIDE DEF f
  <2>2. made.key = KeySpan(d, table) /\ bytes = f.bytes /\ table = f.table
    BY <2>1
  <2> QED BY <2>2 DEF f
<1> HIDE DEF layout, stash
<1>5. Tidy(b, b.section) /\ b.section = 5
  <2>1. Tidy(b, b.section) /\ b.section = at[k][1]
    BY <1>1, <1>2, <1>3, BuiltTidy
  <2> QED BY <1>2, <2>1 DEF Runs6
<1>6. b \in Builders
  BY <1>5 DEF Tidy, Neat
<1> HIDE DEF b, e, bytes, table
<1>7. Prepares(e, bytes, table, stash)
  BY <1>3, <1>4, <1>5, FinishPrepares DEF e
<1>8. bytes \in Bytes /\ IsTable(table)
  <2> DEFINE c == Stash(b, stash)
  <2>1. c \in Builders
    BY <1>3, <1>6, StashKept
  <2> HIDE DEF c
  <2>2. Finish(c).bytes \in Bytes /\ IsTable(Finish(c).table)
    BY <2>1, FinishIs
  <2> QED BY <1>4, <2>2 DEF c
<1>9. /\ Tidy(e, Sections) /\ ~ e.open /\ bytes.text = e.text \o stash /\ bytes.steps = e.steps
      /\ table.start = Len(bytes.text) /\ table.total = Len(e.steps) /\ table.counts = e.counts
      /\ table.params = e.params /\ table.fields = e.fields
  BY <1>7 DEF Prepares
<1>10. e \in Builders /\ e.text \in Wording
  BY <1>9, BuilderIs DEF Tidy, Neat
<1> DEFINE text == bytes.text
           steps == bytes.steps
<1>11. text \in Wording /\ Len(e.text) <= Len(text) /\ \A n \in 1 .. Len(e.text) : text[n] = e.text[n]
  <2> DEFINE X == Words
             one == e.text
  <2>1. one \in Seq(X) /\ stash \in Seq(X)
    BY <1>3, <1>10 DEF Wording
  <2> HIDE DEF X, one
  <2>2. one \o stash \in Seq(X) /\ Len(one) <= Len(one \o stash) /\ \A n \in 1 .. Len(one) : (one \o stash)[n] = one[n]
    BY ONLY <2>1
  <2>3. text = one \o stash
    BY <1>9 DEF one
  <2> QED BY ONLY <2>2, <2>3 DEF Wording, X, one
<1>12. Finished(e, table, steps, text)
  BY <1>8, <1>9, <1>10, <1>11 DEF Finished
<1>13. Layed(layout, at, r, e, table, steps, text)
  BY <1>1, <1>2, <1>12 DEF Layed, b, e
<1>14. Made(d, made, e)
  BY <1>4, <1>9, <1>10 DEF Made, bytes, table, stash
<1>15. MadeBy(d, made, at, r, e)
  BY <1>7, <1>8, <1>13, <1>14 DEF MadeBy, layout, bytes, table, stash
<1> QED BY <1>15

\* A template has steps.
LEMMA MadeSteps ==
  ASSUME NEW d, NEW made, NEW at, NEW r, NEW e, MadeBy(d, made, at, r, e)
  PROVE  made.bytes.steps # <<>>
<1> DEFINE s == 0
<1>1. Tidy(e, Sections) /\ made.bytes.steps = e.steps
  BY DEF MadeBy, Prepares
<1>2. s \in 0 .. Sections - 1 /\ s < Sections
  BY DEF Sections
<1> HIDE DEF s
<1>3. EndsOf(e, s) # {}
  BY <1>1, <1>2 DEF Tidy, EndsBefore
<1>4. e \in Builders
  BY <1>1 DEF Tidy, Neat
<1>5. Closed(e) <= Len(e.steps) /\ Closed(e) \in Nat /\ Len(e.steps) \in Nat
  BY <1>4, BuilderIs
<1>6. Closed(e) # 0
  BY <1>3 DEF EndsOf
<1>7. Len(e.steps) # 0
  BY <1>5, <1>6
<1> QED BY <1>1, <1>7

\* A request that has the values of its operation.
Answers(d, f) ==
  /\ FillOf(f) /\ (\A n \in DOMAIN LayoutOf(d) : Fillable(LayoutOf(d)[n], f)) /\ (d.body = "each" => f.writes)

LEMMA RequestAnswers ==
  ASSUME NEW d \in Descriptions, NEW asked \in Requests(d)
  PROVE  Answers(d, asked.fill)
BY TemplateAssumption, FillAssumption DEF Answers

LEMMA AnswersFilled ==
  ASSUME NEW d \in Descriptions, NEW f, Answers(d, f)
  PROVE  Filled(LayoutOf(d), f)
<1> DEFINE layout == LayoutOf(d)
<1>1. layout \in Seq(Ops)
  BY DescriptionIs
<1>2. FillOf(f) /\ \A n \in DOMAIN layout : Fillable(layout[n], f)
  BY DEF Answers
<1> HIDE DEF layout
<1>3. Filled(layout, f)
  BY <1>1, <1>2 DEF Filled
<1> QED BY <1>3 DEF layout

LEMMA MadeFits ==
  ASSUME NEW d \in Descriptions, NEW made, NEW at, NEW r, NEW e, MadeBy(d, made, at, r, e),
         NEW f, Answers(d, f)
  PROVE  Fits(made.table, made.bytes.steps, made.bytes.text, f, d)
<1> DEFINE layout == LayoutOf(d)
           table == made.table
           bytes == made.bytes
           steps == bytes.steps
           text == bytes.text
           stash == StashText(d)
<1>1. /\ Layed(layout, at, r, e, table, steps, text) /\ Prepares(e, bytes, table, stash)
      /\ bytes \in Bytes /\ IsTable(table)
  BY DEF MadeBy
<1>2. Filled(layout, f) /\ FillOf(f) /\ (d.body = "each" => f.writes)
  BY AnswersFilled DEF Answers
<1>3. Described(d) /\ stash \in Wording
  BY TemplateAssumption, DescribedIs, StashTextIn
<1>4. BodyIs(steps, table.counts, d)
  <2>1. Tidy(e, Sections)
    BY <1>1 DEF Prepares
  <2>2. Layed(LayoutOf(d), at, r, e, table, steps, text)
    BY <1>1
  <2> HIDE DEF table, steps, text
  <2> QED BY <1>3, <2>1, <2>2, LayedBody
<1> HIDE DEF layout, table, bytes, stash
<1>5. steps \in Seq(StepsKept) /\ text \in Wording /\ Len(steps) = table.total
  <2>1. table.total = Len(e.steps) /\ steps = e.steps
    BY <1>1 DEF Prepares
  <2> QED BY <1>1, <2>1 DEF Bytes
<1>6. Able(steps, f)
  <2> HIDE DEF steps, text
  <2> QED BY <1>1, <1>2, LayedAble
<1>7. SumOf(steps, StepText) <= Len(text)
  <2>1. Tabled(bytes, table, stash)
    BY <1>1, <1>3, PreparedIsTabled
  <2>2. SumOf(steps, StepText) + Len(stash) = table.start /\ table.start = Len(text)
    BY <1>1, <2>1 DEF Tabled, Prepares
  <2>3. Len(stash) \in Nat /\ Len(text) \in Nat
    BY <1>3, <1>5 DEF Wording
  <2>4. PICK q : Sums(q, steps, Len(steps)) /\ SumOf(steps, StepText) = q[Len(steps)]
    BY <1>5, SumIs
  <2>5. Len(steps) \in 0 .. Len(steps)
    BY <1>5
  <2>6. SumOf(steps, StepText) \in Nat
    BY <2>4, <2>5 DEF Sums
  <2> QED BY <2>2, <2>3, <2>6
<1>8. Fits(table, steps, text, f, d)
  BY <1>1, <1>2, <1>4, <1>5, <1>6, <1>7 DEF Fits
<1> QED BY <1>8 DEF table, bytes

\* A request's pass over its own template's bytes.
AskedRun(w, d, made, f, len) ==
  PassRun(w, Asked(d), NewState(made.table, len), made.table, f, made.bytes.steps, made.bytes.text, len)

\* One runs to the end, and does not fail.
LEMMA AskedEnds ==
  ASSUME NEW d \in Descriptions, NEW made, NEW at, NEW r, NEW e, MadeBy(d, made, at, r, e),
         NEW f, Answers(d, f), NEW len, NEW w, AskedRun(w, d, made, f, len)
  PROVE  ~ FinishPass(w[Len(Asked(d))], made.bytes.steps, made.bytes.text).failed
<1> DEFINE layout == LayoutOf(d)
           asks == Asked(d)
           table == made.table
           steps == made.bytes.steps
           text == made.bytes.text
           start == NewState(table, len)
<1>1. Layed(layout, at, r, e, table, steps, text) /\ IsTable(table) /\ made.bytes \in Bytes
  BY DEF MadeBy
<1>2. steps \in Seq(StepsKept) /\ text \in Wording
  BY <1>1 DEF Bytes
<1>3. Filled(layout, f) /\ FillOf(f)
  BY AnswersFilled DEF Answers
<1>4. layout \in Seq(Ops) /\ start \in Passes(len, FALSE)
  BY <1>1, DescriptionIs, NewStateKept
<1>5. PICK from, skip : LeavesOut(asks, layout, from, skip)
  BY AskedLeavesOut
<1>6. PassRun(w, asks, start, table, f, steps, text, len)
  BY DEF AskedRun
<1> HIDE DEF layout, asks, table, steps, text
<1>7. PICK v : PassRun(v, layout, start, table, f, steps, text, len)
  <2> HIDE DEF start
  <2> QED BY <1>1, <1>2, <1>3, <1>4, PassRunExists
<1>8. PICK m : LayoutKept(layout, r, v, m, table, text, len)
  BY <1>1, <1>3, <1>7, LayoutKeeps
<1>9. w[Len(asks)] = v[Len(layout)]
  BY <1>1, <1>3, <1>5, <1>6, <1>7, <1>8, AskedPass
<1> DEFINE k == Len(layout)
           x == v[k]
           n == m[k]
<1>10. Paced(r[Len(layout)], x, n, table, text, len)
  <2>1. k \in 0 .. Len(layout)
    BY <1>4
  <2> QED BY <1>8, <2>1 DEF LayoutKept
<1> HIDE DEF x, n, k
<1>11. AsSaid(FinishPass(x, steps, text), SaidEnd(n))
  BY <1>1, <1>10, LastKeeps
<1>12. ~ FinishPass(x, steps, text).failed
  BY <1>11 DEF AsSaid
<1> QED BY <1>9, <1>12 DEF x, k, asks, steps, text

-----------------------------------------------------------------------------
(* A walk over a template's own steps, that its layout says.                *)

\* A step of the walk that does not fail marks the fields if they are its own.
LEMMA WalkStepFields ==
  ASSUME NEW len, NEW w \in Passes(len, FALSE), NEW table, NEW f, NEW steps, NEW text, NEW at
  PROVE  \/ WalkStep(w, at, table, steps, text, f).failed
         \/ WalkStep(w, at, table, steps, text, f).fields = MarkOf(w, at, table, steps[at + 1])
<1> DEFINE step == steps[at + 1]
           before == Position(w) + (IF step.len < table.fields[2] THEN step.len ELSE table.fields[2])
           marked == IF at = table.fields[1] THEN [w EXCEPT !.fields = before] ELSE w
           run == Run(text, w.cursor, step.len)
           copied == [marked EXCEPT !.out = @ \o run]
           name == Run(text, w.cursor + step.len, step.name)
           filled == IF step.hole = NoHole THEN copied ELSE WriteHole(copied, step.hole, name, f)
           read == IF step.hole = NoHole THEN step.len ELSE StepText(step)
           more == StepLen(step)
           walked == [filled EXCEPT !.cursor = @ + more,
                        !.ends = [s \in DOMAIN @ |-> IF s \in step.ends THEN Position(filled) ELSE @[s]]]
<1>0. {"fields", "failed"} \subseteq DOMAIN w
  BY DEF Passes, PassRecords
<1>1. WalkStep(w, at, table, steps, text, f) =
        IF w.failed THEN w
        ELSE IF w.cursor + read > Len(text) THEN [w EXCEPT !.failed = TRUE]
        ELSE walked
  BY Zenon DEF WalkStep
<1>2. marked.fields = MarkOf(w, at, table, step) /\ DOMAIN marked = DOMAIN w
  <2>1. CASE at = table.fields[1]
    <3>1. before = MarkOf(w, at, table, step)
      BY <2>1, Zenon DEF MarkOf, Position
    <3>2. marked = [w EXCEPT !.fields = before]
      BY <2>1
    <3> HIDE DEF before, marked
    <3>3. marked.fields = before /\ DOMAIN marked = DOMAIN w
      BY <1>0, <3>2
    <3> QED BY <3>1, <3>3
  <2>2. CASE at # table.fields[1]
    <3>1. MarkOf(w, at, table, step) = w.fields
      BY <2>2, Zenon DEF MarkOf
    <3>2. marked = w
      BY <2>2
    <3> QED BY <3>1, <3>2
  <2> QED BY <2>1, <2>2
<1> HIDE DEF marked
<1>3. copied.fields = marked.fields /\ DOMAIN copied = DOMAIN marked
  <2> DEFINE out == marked.out \o run
  <2>1. copied = [marked EXCEPT !.out = out]
    OBVIOUS
  <2> HIDE DEF out, copied
  <2> QED BY <1>0, <1>2, <2>1
<1> HIDE DEF copied, name
<1>4. filled.fields = copied.fields /\ DOMAIN filled = DOMAIN copied
  <2> DEFINE hole == step.hole
  <2>1. filled = IF hole = NoHole THEN copied ELSE WriteHole(copied, hole, name, f)
    BY DEF filled
  <2> HIDE DEF hole, filled
  <2>2. Unmarked(copied, WriteHole(copied, hole, name, f))
    BY UnmarkedSaid
  <2>3. "fields" \in DOMAIN copied
    BY <1>0, <1>2, <1>3
  <2> QED BY <2>1, <2>2, <2>3 DEF Unmarked
<1> HIDE DEF filled
<1>5. walked.fields = filled.fields
  <2> DEFINE cursor == filled.cursor + more
             ends == [s \in DOMAIN filled.ends |-> IF s \in step.ends THEN Position(filled) ELSE filled.ends[s]]
  <2>1. walked = [filled EXCEPT !.cursor = cursor, !.ends = ends]
    BY Zenon
  <2> HIDE DEF walked, cursor, ends
  <2>2. "fields" \in DOMAIN filled
    BY <1>0, <1>2, <1>3, <1>4
  <2> QED BY <2>1, <2>2
<1> DEFINE gone == [w EXCEPT !.failed = TRUE]
<1>6. gone.failed
  BY <1>0
<1> HIDE DEF walked, read, step, gone
<1>7. CASE w.failed
  BY <1>1, <1>7
<1>8. CASE ~ w.failed
  <2>1. WalkStep(w, at, table, steps, text, f) \in {gone, walked}
    BY <1>1, <1>8 DEF gone
  <2> QED BY <1>2, <1>3, <1>4, <1>5, <1>6, <2>1 DEF step
<1> QED BY <1>7, <1>8

\* One that has failed stays so.
LEMMA WalkStepFailed ==
  ASSUME NEW w, w.failed, NEW table, NEW f, NEW steps, NEW text, NEW at
  PROVE  WalkStep(w, at, table, steps, text, f).failed
<1>1. WalkStep(w, at, table, steps, text, f) = w
  BY Zenon DEF WalkStep
<1> QED BY <1>1

\* The table says of a step and its run where the fields are.
FieldsFit(table, steps) ==
  /\ table.fields[1] \in Nat /\ table.fields[2] \in Nat /\ Len(steps) \in Nat /\ table.fields[1] < Len(steps)
  /\ steps[table.fields[1] + 1].len \in Nat /\ table.fields[2] <= steps[table.fields[1] + 1].len

LEMMA WalkMarks ==
  ASSUME NEW u, NEW table, NEW steps, NEW text, NEW f, NEW start, NEW len,
         WalkRun(u, 0, Len(steps), table, steps, text, f, start, len), FieldsFit(table, steps),
         ~ u[Len(steps)].failed
  PROVE  u[Len(steps)].fields = MarkedIn(u, table)
<1> DEFINE k == Len(steps)
           at == table.fields[1]
           mark == Len(u[at].out) + table.fields[2]
           S == {n \in 0 .. k : n > at => u[n].failed \/ u[n].fields = mark}
<1>0. k \in Nat /\ at \in Nat /\ at < k
  BY DEF FieldsFit
<1>1. 0 \in S
  BY <1>0
<1>2. ASSUME NEW n \in 1 .. k, n - 1 \in S
      PROVE  n \in S
  <2> DEFINE i == n - 1
             x == u[i]
             y == u[n]
  <2>1. i \in 0 .. k /\ n \in 0 .. k /\ 0 + n - 1 = i /\ i \in Nat
    BY <1>0
  <2>2. x \in Passes(len, FALSE)
    BY <2>1 DEF WalkRun
  <2>3. y = WalkStep(x, i, table, steps, text, f)
    BY <2>1 DEF WalkRun
  <2> HIDE DEF S
  <2>4. i > at => x.failed \/ x.fields = mark
    BY <1>2, <2>1 DEF S
  <2> HIDE DEF x, y, i
  <2>5. y.failed \/ y.fields = MarkOf(x, i, table, steps[i + 1])
    BY <2>2, <2>3, WalkStepFields
  <2>6. x.failed => y.failed
    BY <2>3, WalkStepFailed
  <2>7. n > at => y.failed \/ y.fields = mark
    <3>1. CASE i = at
      <4> DEFINE step == steps[i + 1]
      <4>1. step.len \in Nat /\ table.fields[2] \in Nat /\ table.fields[2] <= step.len
        BY <3>1 DEF FieldsFit
      <4>2. MarkOf(x, i, table, step)
              = Len(x.out) + (IF step.len < table.fields[2] THEN step.len ELSE table.fields[2])
        BY <3>1 DEF MarkOf
      <4>3. ~ (step.len < table.fields[2])
        BY <4>1
      <4>4. x.out = u[at].out
        BY <3>1 DEF x
      <4> QED BY <2>5, <4>2, <4>3, <4>4
    <3>2. CASE i # at
      <4>1. MarkOf(x, i, table, steps[i + 1]) = x.fields
        BY <3>2 DEF MarkOf
      <4>2. n > at => i > at
        BY <1>0, <2>1, <3>2 DEF i
      <4> QED BY <2>4, <2>5, <2>6, <4>1, <4>2
    <3> QED BY <3>1, <3>2
  <2> QED BY <2>1, <2>7 DEF S, y
<1>3. \A n \in 0 .. k : n \in S
  <2> HIDE DEF S
  <2> QED BY <1>0, <1>1, <1>2, Induction
<1>4. k \in S /\ k > at
  BY <1>0, <1>3
<1> QED BY <1>4 DEF MarkedIn

\* A layout marks its fields somewhere.
LEMMA FieldsSomewhere ==
  ASSUME NEW layout, NEW at, NEW r, NEW e, NEW table, NEW steps, NEW text,
         Layed(layout, at, r, e, table, steps, text)
  PROVE  \E i \in 1 .. Len(layout) : layout[i].op = "fields"
<1> DEFINE k == Len(layout)
           S == {i \in 0 .. k : (\A j \in 1 .. i : layout[j].op # "fields") => at[i][2] = 0}
<1>0. k \in Nat
  BY LayedIs
<1>1. at[0] = <<0, 0>> /\ at[k] = <<5, 1>>
  BY DEF Layed, Runs6
<1>2. 0 \in S
  BY <1>0, <1>1
<1>3. ASSUME NEW i \in 1 .. k, i - 1 \in S
      PROVE  i \in S
  <2> DEFINE p == at[i - 1]
             q == at[i]
             op == layout[i]
  <2>1. i \in 0 .. k /\ i - 1 \in 0 .. k /\ i \in 1 .. i /\ (\A j \in 1 .. i - 1 : j \in 1 .. i)
    BY <1>0
  <2>2. Moves(op, p, q)
    BY LayedIs
  <2>3. op.op # "fields" => q[2] = p[2]
    <3> HIDE DEF op, p, q
    <3> QED BY <2>2 DEF Moves
  <2>4. (\A j \in 1 .. i - 1 : layout[j].op # "fields") => p[2] = 0
    BY <1>3
  <2>5. ASSUME \A j \in 1 .. i : layout[j].op # "fields"
        PROVE  q[2] = 0
    BY <2>1, <2>3, <2>4, <2>5
  <2> QED BY <2>1, <2>5
<1>4. \A i \in 0 .. k : i \in S
  <2> HIDE DEF S
  <2> QED BY <1>0, <1>2, <1>3, Induction
<1>5. k \in S
  BY <1>0, <1>4
<1> QED BY <1>1, <1>5

\* The builder of a layout closes one more step to end its last section.
LEMMA LastCloses ==
  ASSUME NEW layout, NEW at, NEW r, NEW e, NEW table, NEW steps, NEW text,
         Layed(layout, at, r, e, table, steps, text)
  PROVE  /\ Neat(r[Len(layout)]) /\ e = EndOf(r[Len(layout)]) /\ e \in Builders /\ Grows(e, e)
         /\ Closed(r[Len(layout)]) \in Nat /\ Closed(r[Len(layout)]) < Len(steps)
         /\ Closed(e) = Len(steps) /\ Pending(e) = 0 /\ Len(steps) \in Nat /\ steps = e.steps
<1> DEFINE b == r[Len(layout)]
<1>1. Finished(e, table, steps, text) /\ e = EndOf(b) /\ e \in Builders /\ ~ e.open /\ steps = e.steps
  BY DEF Layed, Finished
<1>2. Tidy(b, b.section) /\ b \in Builders
  <2>1. Len(layout) \in 0 .. Len(layout)
    BY LayedIs
  <2> QED BY <2>1, LayedIs
<1>3. Neat(b)
  BY <1>2 DEF Tidy
<1>4. Len(steps) \in Nat /\ Closed(e) = Len(steps)
  BY <1>1, FinishedIs
<1> HIDE DEF b
<1>5. Closes(b, EndOf(b), NoHole, 0, {b.section})
  BY <1>3, EndCloses
<1>6. Closed(e) = Closed(b) + 1 /\ Closed(b) \in Nat
  BY <1>1, <1>2, <1>5, BuilderIs DEF Closes
<1>7. Pending(e) = 0 /\ Grows(e, e)
  BY <1>1, BuilderIs, GrowsSelf
<1> QED BY <1>1, <1>3, <1>4, <1>6, <1>7 DEF b

LEMMA LayedFields ==
  ASSUME NEW layout, NEW at, NEW r, NEW e, NEW table, NEW steps, NEW text,
         Layed(layout, at, r, e, table, steps, text)
  PROVE  FieldsFit(table, steps)
<1>1. PICK i \in 1 .. Len(layout) : layout[i].op = "fields"
  BY FieldsSomewhere
<1> DEFINE b == r[i - 1]
           c == r[Len(layout)]
<1>2. table.fields = <<Closed(b), Pending(b)>>
  BY <1>1, FieldsAre
<1>3. i - 1 \in 0 .. Len(layout) /\ b \in Builders /\ Grows(b, e)
  BY LayedIs
<1>4. Grows(b, c)
  <2> DEFINE k == Len(layout)
             j == i - 1
  <2>1. Runs6(layout, at) /\ Built(r, layout, k)
    BY DEF Layed
  <2>2. k \in Nat /\ j \in 0 .. k /\ k \in 0 .. Len(layout) /\ k \in j .. k
    BY LayedIs
  <2> HIDE DEF k, j
  <2>3. \A l \in j .. k : Grows(r[j], r[l])
    BY <2>1, <2>2, BuiltGrows
  <2> QED BY <2>2, <2>3 DEF j, k
<1>5. Closed(c) \in Nat /\ Closed(c) < Len(steps) /\ Len(steps) \in Nat /\ steps = e.steps
  BY LastCloses
<1>6. steps \in Seq(StepsKept)
  <2>1. Finished(e, table, steps, text)
    BY DEF Layed
  <2> QED BY <2>1, FinishedIs
<1> HIDE DEF b, c
<1>7. Closed(b) <= Closed(c)
  BY <1>4 DEF Grows, StepsStay
<1>8. Closed(b) \in Nat /\ Pending(b) \in Nat /\ (~ b.open => Pending(b) = 0)
  BY <1>3, BuilderIs
<1>9. Closed(b) < Len(steps)
  BY <1>5, <1>7, <1>8
<1> DEFINE n == Closed(b) + 1
<1>10. n \in 1 .. Len(steps)
  BY <1>5, <1>8, <1>9
<1> HIDE DEF n
<1>11. steps[n].len \in Nat
  <2>1. steps[n] \in StepsKept
    BY <1>6, <1>10
  <2> QED BY <2>1 DEF StepsKept, StepsRead
<1>12. Pending(b) <= steps[n].len
  <2>1. b.open => steps[n].len >= Pending(b)
    BY <1>3, <1>5 DEF Grows, RunStays, n
  <2> QED BY <1>8, <1>11, <2>1
<1>13. table.fields[1] = Closed(b) /\ table.fields[2] = Pending(b)
  BY <1>2
<1> QED BY <1>5, <1>8, <1>9, <1>11, <1>12, <1>13 DEF FieldsFit, n

\* The walk of a template's own table has written, at its end, what the layout
\* says, and has marked what it marks.
LEMMA WalkSays ==
  ASSUME NEW layout, NEW at, NEW r, NEW e, NEW table, NEW steps, NEW text,
         Layed(layout, at, r, e, table, steps, text), NEW f, Filled(layout, f), NEW len,
         NEW u, WalkRun(u, 0, Len(steps), table, steps, text, f, NewState(table, len), len),
         NEW m, SaidRun(m, layout, Silence(table, len), f, len)
  PROVE  AsSaid(u[Len(steps)], SaidEnd(m[Len(layout)])) /\ SaidEnd(m[Len(layout)]).at = 1
<1> DEFINE k == Len(layout)
           b == r[k]
           said == m[k]
           n == SaidEnd(said)
           w == u[Len(steps)]
<1>1. Walking(u, e, table, steps, text, f, len)
  BY DEF Walking, Layed, Filled
<1>2. Along(b, u, said, table, text, len) /\ said.at = 1
  <2>1. k \in 0 .. k
    BY LayedIs
  <2>2. LayoutAlong(layout, at, r, u, m, table, text, len)
    BY <1>1, LayoutWalks
  <2>3. at[k] = <<5, 1>>
    BY DEF Layed, Runs6
  <2> QED BY <2>1, <2>2, <2>3 DEF LayoutAlong
<1>3. Neat(b) /\ e = EndOf(b) /\ Grows(e, e) /\ Closed(e) = Len(steps) /\ Pending(e) = 0
  BY LastCloses
<1> HIDE DEF b, said
<1>4. Along(e, u, n, table, text, len)
  <2>1. Grows(EndOf(b), e)
    BY <1>3
  <2>2. Along(EndOf(b), u, SaidEnd(said), table, text, len)
    BY <1>1, <1>2, <1>3, <2>1, AlongEnd
  <2> QED BY <1>3, <2>2
<1>5. n.at = 1
  <2>1. Unmarked(said, SaidEnd(said))
    BY UnmarkedSaid
  <2>2. "at" \in DOMAIN said
    BY <1>2 DEF Along, Passes, PassRecords
  <2> QED BY <1>2, <2>1, <2>2 DEF Unmarked
<1> HIDE DEF n
<1>6. w \in Passes(len, FALSE) /\ Follows(e, w, n, table, text) /\ n.fields = MarkedIn(u, table)
  BY <1>3, <1>4, <1>5, Zenon DEF Along
<1>7. ~ w.failed /\ Same(w, n)
  BY <1>6 DEF Follows
<1>8. w.fields = MarkedIn(u, table)
  <2>1. FieldsFit(table, steps)
    BY LayedFields
  <2> QED BY <1>7, <2>1, WalkMarks
<1>9. n.out = w.out
  <2> DEFINE c == w.cursor
             out == w.out
             X == Told(len)
  <2>1. c \in Nat /\ out \in Seq(X)
    BY <1>6, PassIs DEF Said
  <2>2. n.out = out \o Run(text, c, 0)
    BY <1>3, <1>6 DEF Follows
  <2>3. text \in Seq(Words)
    BY DEF Layed, Finished, Wording
  <2> HIDE DEF c, out, X
  <2>4. Run(text, c, 0) = <<>>
    <3>1. c + 1 > c + 0
      BY <2>1
    <3>2. SubSeq(text, c + 1, c + 0) = <<>>
      BY <2>1, <2>3, <3>1
    <3> QED BY <3>2 DEF Run
  <2>5. out \o <<>> = out
    BY <2>1
  <2> QED BY <2>2, <2>4, <2>5 DEF out
<1>10. AsSaid(w, n)
  BY <1>5, <1>6, <1>7, <1>8, <1>9 DEF AsSaid
<1> QED BY <1>5, <1>10 DEF n, said

\* The parts of a request are told by what it has written and marked.
LEMMA PartsAlike ==
  ASSUME NEW x, NEW y, x.out = y.out, Same(x, y), x.fields = y.fields, NEW table
  PROVE  Parts(x, table) = Parts(y, table)
<1>1. /\ x.ends = y.ends /\ x.signature = y.signature /\ x.fields = y.fields
      /\ x.bodyHash = y.bodyHash /\ x.bodyChecksum = y.bodyChecksum /\ Position(x) = Position(y)
  <2>1. /\ x.ends = y.ends /\ x.signature = y.signature /\ x.bodyHash = y.bodyHash
        /\ x.bodyChecksum = y.bodyChecksum
    BY Zenon DEF Same
  <2>2. Position(x) = Position(y)
    BY Zenon DEF Position
  <2>3. x.fields = y.fields
    OBVIOUS
  <2> QED BY <2>1, <2>2, <2>3, Zenon
<1> QED BY <1>1 DEF Parts

\* The walk of a whole table is the last of its steps.
LEMMA WholeWalk ==
  ASSUME NEW len, NEW table, IsTable(table), NEW f, FillOf(f),
         NEW steps \in Seq(StepsKept), NEW text \in Wording, table.total = Len(steps)
  PROVE  \E u : /\ WalkRun(u, 0, Len(steps), table, steps, text, f, NewState(table, len), len)
                /\ Walk(table, steps, text, f, OriginSection, Sections, len) = u[Len(steps)]
<1> DEFINE k == Len(steps)
           start == NewState(table, len)
           walk == Walk(table, steps, text, f, OriginSection, Sections, len)
<1>1. StepsBefore(table.counts, OriginSection) = 0 /\ StepsBefore(table.counts, Sections) = k /\ k \in Nat
  BY SomeSteps
<1>2. PICK u : /\ WalkRun(u, 0, k - 0, table, steps, text, f, WalkFrom(table, steps, 0, len), len)
               /\ walk = WalkEnded(u[k - 0], Sections)
  <2> DEFINE first == 0
  <2>1. first \in Nat /\ first = StepsBefore(table.counts, OriginSection) /\ first <= k /\ k <= Len(steps)
        /\ k \in Nat /\ k = StepsBefore(table.counts, Sections)
    BY <1>1
  <2> DEFINE from == OriginSection
             until == Sections
  <2>0. first = StepsBefore(table.counts, from) /\ k = StepsBefore(table.counts, until)
    BY <2>1
  <2> HIDE DEF first, k, from, until
  <2>2. \E u : WalkOver(u, table, steps, text, f, from, until, first, k, len)
    BY <2>0, <2>1, WalkRuns
  <2> QED BY <2>2 DEF WalkOver, first, from, until
<1>3. k - 0 = k
  BY <1>1
<1>4. WalkFrom(table, steps, 0, len) = start
  <2> DEFINE sum == SumOf(SubSeq(steps, 1, 0), StepText)
  <2>1. sum = 0
    BY NoSteps
  <2>2. WalkFrom(table, steps, 0, len) = [start EXCEPT !.cursor = sum]
    BY Zenon DEF WalkFrom
  <2>3. start \in Passes(len, FALSE)
    BY NewStateKept
  <2>4. start.cursor = 0
    BY DEF NewState
  <2> HIDE DEF sum, start
  <2>5. [start EXCEPT !.cursor = 0] = start
    BY <2>3, <2>4 DEF Passes, PassRecords
  <2> QED BY <2>1, <2>2, <2>5
<1> HIDE DEF start, walk
<1>5. WalkRun(u, 0, k, table, steps, text, f, start, len)
  BY <1>2, <1>3, <1>4
<1> DEFINE w == u[k]
<1>6. w \in Passes(len, FALSE)
  <2>1. k \in 0 .. k
    BY <1>1
  <2> QED BY <1>5, <2>1 DEF WalkRun
<1>7. walk = WalkEnded(w, Sections)
  BY <1>2, <1>3
<1> HIDE DEF w, k
<1>8. WalkEnded(w, Sections) = w
  <2> DEFINE ends == [s \in DOMAIN w.ends |-> IF s >= Sections THEN Position(w) ELSE w.ends[s]]
  <2>1. w \in PassRecords(len, FALSE)
    BY <1>6 DEF Passes
  <2>2. w.ends \in [0 .. Sections - 1 -> Nat]
    BY <2>1 DEF PassRecords
  <2>3. ends = w.ends
    <3>1. \A s \in DOMAIN w.ends : ~ (s >= Sections)
      <4> DEFINE X == DOMAIN w.ends
      <4>1. X = 0 .. 5
        BY <2>2 DEF Sections
      <4> HIDE DEF X
      <4>2. \A s \in X : ~ (s >= 6)
        BY <4>1
      <4> QED BY <4>2 DEF X, Sections
    <3>2. ends = [s \in DOMAIN w.ends |-> w.ends[s]]
      BY <3>1
    <3> QED BY <2>2, <3>2
  <2>4. WalkEnded(w, Sections) = [w EXCEPT !.ends = ends]
    BY Zenon DEF WalkEnded
  <2> HIDE DEF ends
  <2>5. [w EXCEPT !.ends = w.ends] = w
    BY <2>1 DEF PassRecords
  <2> QED BY <2>3, <2>4, <2>5
<1>9. walk = w
  BY <1>7, <1>8
<1> QED BY <1>5, <1>9 DEF start, walk, w, k

\* A walk that writes what a pass has written.
WritesAlike(walked, y, table) ==
  ~ walked.failed /\ walked.out = y.out /\ Parts(walked, table) = Parts(y, table)
LEMMA AskedWalksAlike ==
  ASSUME NEW d \in Descriptions, NEW made, NEW at, NEW r, NEW e, MadeBy(d, made, at, r, e),
         NEW f, Answers(d, f), NEW w,
         AskedRun(w, d, made, f, BodyLen(made.table, made.bytes.steps, made.bytes.text, f))
  PROVE  WritesAlike(WalkRequest(made.table, made.bytes.steps, made.bytes.text, f),
                     FinishPass(w[Len(Asked(d))], made.bytes.steps, made.bytes.text), made.table)
<1> DEFINE layout == LayoutOf(d)
           asks == Asked(d)
           table == made.table
           steps == made.bytes.steps
           text == made.bytes.text
           len == BodyLen(table, steps, text, f)
           start == NewState(table, len)
<1>1. /\ Layed(layout, at, r, e, table, steps, text) /\ IsTable(table) /\ made.bytes \in Bytes
      /\ table.total = Len(steps)
  BY DEF MadeBy, Layed, Finished
<1>2. steps \in Seq(StepsKept) /\ text \in Wording
  BY <1>1 DEF Bytes
<1>3. Filled(layout, f) /\ FillOf(f)
  BY AnswersFilled DEF Answers
<1>4. layout \in Seq(Ops) /\ start \in Passes(len, FALSE)
  BY <1>1, DescriptionIs, NewStateKept
<1>5. PICK from, skip : LeavesOut(asks, layout, from, skip)
  BY AskedLeavesOut
<1>6. PassRun(w, asks, start, table, f, steps, text, len)
  BY DEF AskedRun
<1>7. len \in Nat
  BY MadeFits, FitsBody
<1>8. WalkRequest(table, steps, text, f)
        = LET walked == Walk(table, steps, text, f, OriginSection, Sections, len)
          IN  [walked EXCEPT !.failed = @ \/ len < 0]
  BY Zenon DEF WalkRequest
<1> HIDE DEF layout, asks, table, steps, text, len
<1>9. PICK v : PassRun(v, layout, start, table, f, steps, text, len)
  <2> HIDE DEF start
  <2> QED BY <1>1, <1>2, <1>3, <1>4, PassRunExists
<1>10. PICK m : SaidRun(m, layout, Silence(table, len), f, len) /\ LayoutKept(layout, r, v, m, table, text, len)
  BY <1>1, <1>3, <1>9, LayoutKeeps
<1>11. w[Len(asks)] = v[Len(layout)]
  BY <1>1, <1>3, <1>5, <1>6, <1>9, <1>10, AskedPass
<1> DEFINE k == Len(layout)
           x == v[k]
           said == m[k]
           n == SaidEnd(said)
           y == FinishPass(x, steps, text)
<1>12. Paced(r[Len(layout)], x, said, table, text, len)
  <2>1. k \in 0 .. Len(layout)
    BY <1>4
  <2> QED BY <1>10, <2>1 DEF LayoutKept
<1>13. PICK u : /\ WalkRun(u, 0, Len(steps), table, steps, text, f, start, len)
                /\ Walk(table, steps, text, f, OriginSection, Sections, len) = u[Len(steps)]
  BY <1>1, <1>2, <1>3, WholeWalk
<1> DEFINE z == u[Len(steps)]
<1>14. AsSaid(z, n) /\ n.at = 1
  <2>1. AsSaid(u[Len(steps)], SaidEnd(m[Len(layout)])) /\ SaidEnd(m[Len(layout)]).at = 1
    BY <1>1, <1>3, <1>10, <1>13, WalkSays
  <2> QED BY <2>1
<1>15. z \in Passes(len, FALSE)
  <2>1. Len(steps) \in 0 .. Len(steps)
    BY <1>2
  <2> QED BY <1>13, <2>1 DEF WalkRun
<1> HIDE DEF x, said, k
<1>16. AsSaid(y, n)
  BY <1>1, <1>12, LastKeeps
<1> HIDE DEF y, n, z
<1>17. WalkRequest(table, steps, text, f) = z
  <2>1. WalkRequest(table, steps, text, f) = [z EXCEPT !.failed = z.failed \/ len < 0]
    BY <1>8, <1>13, Zenon DEF z
  <2>2. z.failed \in BOOLEAN /\ z \in PassRecords(len, FALSE)
    BY <1>15 DEF Passes, PassRecords, Flags
  <2>3. ~ (len < 0)
    BY <1>7
  <2>4. (z.failed \/ len < 0) = z.failed
    BY <2>2, <2>3
  <2>5. [z EXCEPT !.failed = z.failed] = z
    BY <2>2 DEF PassRecords
  <2> QED BY <2>1, <2>4, <2>5
<1>18. z.out = y.out /\ Same(z, y) /\ z.fields = y.fields /\ ~ z.failed
  BY <1>14, <1>16 DEF AsSaid, Same
<1>19. WritesAlike(z, y, table)
  BY <1>18, PartsAlike DEF WritesAlike
<1> QED BY <1>11, <1>17, <1>19 DEF x, y, k, asks, table, steps, text

-----------------------------------------------------------------------------
(* What one operation of a layout says.                                     *)

EndsFrom(m, n, from, to) ==
  \A s \in 0 .. Sections - 1 : n.ends[s] = IF from <= s /\ s < to THEN Len(m.out) ELSE m.ends[s]

OpTells(m, n, op, p, q, f, len) ==
  /\ Len(m.out) <= Len(n.out) /\ n.section = q[1]
  /\ op.op = "text" => SaysOn(m, n, op.text)
  /\ op.op = "hole" => SaysOn(m, n, HoleText(m, op.hole, <<>>, f))
  /\ op.op = "section" => n.out = m.out /\ n.fields = m.fields /\ EndsFrom(m, n, p[1], q[1])
  /\ op.op = "fields" => n.out = m.out /\ n.ends = m.ends /\ n.fields = Len(m.out)
  /\ op.op = "param" => n.ends = m.ends /\ n.fields = m.fields
  /\ op.op \in {"text", "section"} => n.params = m.params
  /\ op.op = "hole" => AddsParam(m, n, op.hole, f)

LEMMA SaysMore ==
  ASSUME NEW len, NEW m \in Passes(len, FALSE), NEW n, NEW text \in Said(len), SaysOn(m, n, text)
  PROVE  Len(m.out) <= Len(n.out)
<1> DEFINE out == m.out
<1>1. out \in Said(len)
  BY DEF Passes, PassRecords
<1> HIDE DEF out
<1>2. Len(out) <= Len(out \o text)
  BY <1>1, MoreIs
<1> QED BY <1>2 DEF SaysOn, out

LEMMA SectionTells ==
  ASSUME NEW len, NEW m \in Passes(len, FALSE), NEW p \in Stages, NEW q \in Stages,
         m.section = p[1], q[1] \in {p[1] + 1, p[1] + 2}
  PROVE  LET n == SaidSection(m, q[1])
         IN  /\ n.out = m.out /\ n.fields = m.fields /\ n.section = q[1] /\ n.params = m.params
             /\ EndsFrom(m, n, p[1], q[1])
<1> DEFINE one == SaidEnd(m)
           two == SaidEnd(one)
           s == p[1]
           t == q[1]
<1>1. s \in 0 .. 5 /\ t \in 0 .. 5 /\ s < 5 /\ m.section = s /\ t \in {s + 1, s + 2}
  BY DEF Stages, Sections
<1>2. m.ends \in [0 .. 5 -> Nat] /\ Len(m.out) \in Nat
  BY DEF Passes, PassRecords, Said, Sections
<1>3. one \in Passes(len, FALSE) /\ EndedAs(m, one)
  <2>1. m.section \in 0 .. Sections - 1
    BY <1>1 DEF Sections
  <2> HIDE DEF s, t
  <2> QED BY <2>1, SaidEndIs
<1>4. /\ one.out = m.out /\ one.ends = [m.ends EXCEPT ![s] = Len(m.out)]
      /\ one.section = s + 1 /\ one.fields = m.fields /\ one.params = m.params
  BY <1>1, <1>3 DEF EndedAs, Later, Sections
<1> HIDE DEF one, s, t
<1>5. CASE t = s + 1
  <2>1. SaidSection(m, t) = one
    BY <1>1, <1>5 DEF SaidSection, one
  <2>2. EndsFrom(m, one, s, t)
    BY <1>1, <1>2, <1>4, <1>5 DEF EndsFrom, Sections
  <2> QED BY <1>4, <1>5, <2>1, <2>2 DEF s, t
<1>6. CASE t = s + 2
  <2>1. SaidSection(m, t) = two
    BY <1>1, <1>6 DEF SaidSection, one
  <2>2. s + 1 \in 0 .. 5 /\ s + 1 < 5
    BY <1>1, <1>6
  <2>3. two \in Passes(len, FALSE) /\ EndedAs(one, two)
    <3>1. one.section \in 0 .. Sections - 1
      BY <1>4, <2>2 DEF Sections
    <3> QED BY <1>3, <3>1, SaidEndIs
  <2>4. /\ two.out = m.out /\ two.ends = [one.ends EXCEPT ![s + 1] = Len(m.out)]
        /\ two.section = s + 2 /\ two.fields = m.fields /\ two.params = m.params
    BY <1>1, <1>4, <2>2, <2>3 DEF EndedAs, Later, Sections
  <2> HIDE DEF two
  <2>5. EndsFrom(m, two, s, t)
    <3> DEFINE had == m.ends
               top == Len(m.out)
               now == two.ends
    <3>1. had \in [0 .. 5 -> Nat] /\ s \in 0 .. 5 /\ s < 5
          /\ now = [[had EXCEPT ![s] = top] EXCEPT ![s + 1] = top]
      BY <1>1, <1>2, <1>4, <2>4
    <3> HIDE DEF had, top, now
    <3>2. \A i \in 0 .. 5 : now[i] = IF s <= i /\ i < s + 2 THEN top ELSE had[i]
      BY <2>2, <3>1
    <3> QED BY <1>6, <3>2 DEF EndsFrom, Sections, had, top, now
  <2> QED BY <1>6, <2>1, <2>4, <2>5 DEF s, t
<1> QED BY <1>1, <1>5, <1>6

LEMMA OpSays ==
  ASSUME NEW len, NEW m \in Passes(len, FALSE), NEW op \in Ops, Proper(op),
         NEW f, FillOf(f), Fillable(op, f), NEW p \in Stages, NEW q \in Stages, Moves(op, p, q),
         m.section = p[1]
  PROVE  OpTells(m, SaidOp(m, op, f), op, p, q, f, len)
<1> DEFINE n == SaidOp(m, op, f)
<1>0. Len(m.out) \in Nat /\ <<>> \in Said(len)
  BY DEF Passes, PassRecords, Said
<1>1. CASE op.op = "section"
  <2>1. n = SaidSection(m, q[1]) /\ q[1] \in {p[1] + 1, p[1] + 2}
    BY <1>1 DEF Moves, SaidOp
  <2> HIDE DEF n
  <2>2. n.out = m.out /\ n.fields = m.fields /\ n.section = q[1] /\ n.params = m.params
        /\ EndsFrom(m, n, p[1], q[1])
    BY <2>1, SectionTells
  <2> QED BY <1>0, <1>1, <2>2 DEF OpTells, n
<1>2. CASE op.op = "text"
  <2> DEFINE text == op.text
  <2>1. n = SaidText(m, text) /\ text \in Wording /\ q = p
    BY <1>2, OpIsOneOf DEF SaidOp, Moves
  <2> HIDE DEF n, text
  <2>2. SaysOn(m, n, text) /\ text \in Said(len) /\ n.params = m.params
    BY <2>1, SaysOnText, SaidIs
  <2>3. Len(m.out) <= Len(n.out)
    BY <2>2, SaysMore
  <2>4. n.section = q[1]
    BY <2>1, <2>2 DEF SaysOn
  <2> QED BY <1>2, <2>2, <2>3, <2>4 DEF OpTells, n, text
<1>3. CASE op.op = "hole"
  <2> DEFINE hole == op.hole
             none == <<>>
             text == HoleText(m, hole, none, f)
  <2>1. n = WriteHole(m, hole, none, f) /\ CanFill(hole, f) /\ none \in Wording /\ q = p
    BY <1>3, WordingIs DEF SaidOp, Fillable, Moves
  <2> HIDE DEF n, hole, none
  <2>2. SaysOn(m, n, text) /\ text \in Said(len) /\ AddsParam(m, n, hole, f)
    BY <2>1, SaysOnHole
  <2> HIDE DEF text
  <2>3. Len(m.out) <= Len(n.out)
    BY <2>2, SaysMore
  <2>4. n.section = q[1]
    BY <2>1, <2>2 DEF SaysOn
  <2> QED BY <1>3, <2>2, <2>3, <2>4 DEF OpTells, n, text, hole, none
<1>4. CASE op.op = "fields"
  <2>1. n = SaidFields(m) /\ q[1] = p[1]
    BY <1>4 DEF SaidOp, Moves
  <2>2. n.out = m.out /\ n.ends = m.ends /\ n.fields = Len(m.out) /\ n.section = m.section
    <3>1. m \in PassRecords(len, FALSE)
      BY DEF Passes
    <3> QED BY <2>1, <3>1 DEF SaidFields, Position, PassRecords
  <2> HIDE DEF n
  <2> QED BY <1>0, <1>4, <2>1, <2>2 DEF OpTells, n
<1>5. CASE op.op = "param"
  <2> DEFINE param == op.param
             text == Separator(m) \o MeantParam(param, f)
             none == <<>>
  <2>1. n = SaidParam(m, param, f) /\ param \in Parameters /\ op = Param(param) /\ q = p
    <3>1. op = Param(op.param)
      BY <1>5 DEF Ops, Section, Text, Hole, Fields, Param
    <3> QED BY <1>5, <3>1, OpIsOneOf DEF SaidOp, Moves
  <2>2. Sendable(param, f)
    BY <2>1 DEF Sendable
  <2> HIDE DEF n, param
  <2>3. SendsParam(m, n, param, f)
    BY <2>1, <2>2, SaysOnParam
  <2>4. none \in Said(len) /\ (Sent(param, f) => text \in Said(len))
    <3>1. Separator(m) \in Said(len)
      BY SaysOnSeparator, SaidIs
    <3>2. Sent(param, f) => MeantParam(param, f) \in Said(len)
      BY <2>2, MeantParamIn, SaidIs
    <3> QED BY <1>0, <3>1, <3>2, SaidIs
  <2>5. (SaysOn(m, n, text) /\ Sent(param, f)) \/ SaysOn(m, n, none)
    BY <2>3 DEF SendsParam
  <2> HIDE DEF text, none
  <2>6. Len(m.out) <= Len(n.out)
    BY <2>4, <2>5, SaysMore
  <2>7. n.section = q[1] /\ n.ends = m.ends /\ n.fields = m.fields
    BY <2>1, <2>5 DEF SaysOn
  <2> QED BY <1>5, <2>6, <2>7 DEF OpTells, n
<1> QED BY <1>1, <1>2, <1>3, <1>4, <1>5, OpIsOneOf

-----------------------------------------------------------------------------
(* What a layout says: where a section ends and where the fields are.       *)

Saying(m, layout, at, f, len) ==
  /\ Runs6(layout, at) /\ Filled(layout, f) /\ SaidRun(m, layout, m[0], f, len) /\ m[0].section = 0

LEMMA SayingIs ==
  ASSUME NEW layout, NEW at, NEW f, NEW len, NEW m, Saying(m, layout, at, f, len)
  PROVE  /\ Len(layout) \in Nat
         /\ \A i \in 0 .. Len(layout) : at[i] \in Stages /\ m[i] \in Passes(len, FALSE) /\ m[i].section = at[i][1]
         /\ \A i \in 1 .. Len(layout) :
              /\ layout[i] \in Ops /\ Proper(layout[i]) /\ Fillable(layout[i], f)
              /\ Moves(layout[i], at[i - 1], at[i])
              /\ OpTells(m[i - 1], m[i], layout[i], at[i - 1], at[i], f, len)
<1> DEFINE k == Len(layout)
<1>1. /\ k \in Nat /\ layout \in Seq(Ops) /\ at \in [0 .. k -> Stages] /\ at[0] = <<0, 0>>
      /\ \A i \in 1 .. k : Moves(layout[i], at[i - 1], at[i]) /\ Proper(layout[i])
      /\ FillOf(f) /\ \A i \in 1 .. k : Fillable(layout[i], f)
      /\ m \in [0 .. k -> Passes(len, FALSE)] /\ \A i \in 1 .. k : m[i] = SaidOp(m[i - 1], layout[i], f)
      /\ m[0].section = 0
  <2>1. Runs6(layout, at) /\ Filled(layout, f) /\ SaidRun(m, layout, m[0], f, len) /\ m[0].section = 0
    BY DEF Saying
  <2>2. /\ k \in Nat /\ layout \in Seq(Ops) /\ at \in [0 .. k -> Stages] /\ at[0] = <<0, 0>>
        /\ \A i \in 1 .. k : Moves(layout[i], at[i - 1], at[i]) /\ Proper(layout[i])
    BY <2>1 DEF Runs6, GoesBy
  <2>3. FillOf(f) /\ \A i \in 1 .. k : Fillable(layout[i], f)
    BY <2>1 DEF Filled
  <2>4. m \in [0 .. k -> Passes(len, FALSE)] /\ \A i \in 1 .. k : m[i] = SaidOp(m[i - 1], layout[i], f)
    BY <2>1 DEF SaidRun
  <2> QED BY <2>1, <2>2, <2>3, <2>4
<1>2. \A i \in 1 .. k : layout[i] \in Ops /\ i - 1 \in 0 .. k /\ i \in 0 .. k
  BY <1>1
<1> HIDE DEF k
<1>3. ASSUME NEW i \in 1 .. k, m[i - 1].section = at[i - 1][1]
      PROVE  OpTells(m[i - 1], m[i], layout[i], at[i - 1], at[i], f, len)
  <2> DEFINE x == m[i - 1]
             y == m[i]
             p == at[i - 1]
             q == at[i]
             op == layout[i]
  <2>1. x \in Passes(len, FALSE) /\ y = SaidOp(x, op, f) /\ p \in Stages /\ q \in Stages
        /\ Moves(op, p, q) /\ op \in Ops /\ Proper(op) /\ Fillable(op, f) /\ x.section = p[1]
    BY <1>1, <1>2, <1>3
  <2> HIDE DEF x, y, p, q, op
  <2>2. OpTells(x, y, op, p, q, f, len)
    BY <1>1, <2>1, OpSays
  <2> QED BY <2>2 DEF x, y, p, q, op
<1> DEFINE S == {i \in 0 .. k : m[i].section = at[i][1]}
<1>4. 0 \in S
  BY <1>1
<1>5. ASSUME NEW i \in 1 .. k, i - 1 \in S PROVE i \in S
  <2>1. OpTells(m[i - 1], m[i], layout[i], at[i - 1], at[i], f, len)
    BY <1>3, <1>5
  <2> QED BY <1>2, <2>1 DEF OpTells
<1> HIDE DEF S
<1>6. \A i \in 0 .. k : i \in S
  BY <1>1, <1>4, <1>5, Induction
<1>7. \A i \in 0 .. k : m[i].section = at[i][1]
  BY <1>6 DEF S
<1>8. \A i \in 1 .. k : OpTells(m[i - 1], m[i], layout[i], at[i - 1], at[i], f, len)
  BY <1>2, <1>3, <1>7
<1> QED BY <1>1, <1>2, <1>7, <1>8 DEF k

\* A layout goes forward, and what it says grows.
LEMMA SayingGoes ==
  ASSUME NEW layout, NEW at, NEW f, NEW len, NEW m, Saying(m, layout, at, f, len),
         NEW j \in 0 .. Len(layout), NEW i \in 0 .. Len(layout), j <= i
  PROVE  at[j][1] <= at[i][1] /\ at[j][2] <= at[i][2] /\ Len(m[j].out) <= Len(m[i].out)
<1> DEFINE k == Len(layout)
           GoneOn(n) == at[j][1] <= at[n][1] /\ at[j][2] <= at[n][2] /\ Len(m[j].out) <= Len(m[n].out)
           S == {n \in 0 .. k : j <= n => GoneOn(n)}
<1>1. /\ k \in Nat
      /\ \A n \in 0 .. k : at[n] \in Stages /\ Len(m[n].out) \in Nat
      /\ \A n \in 1 .. k : Moves(layout[n], at[n - 1], at[n]) /\ Len(m[n - 1].out) <= Len(m[n].out)
  <2>0. \A n \in 0 .. k : m[n] \in Passes(len, FALSE)
    BY SayingIs
  <2>1. \A n \in 0 .. k : m[n].out \in Said(len)
    BY <2>0 DEF Passes, PassRecords
  <2>2. \A n \in 1 .. k : Len(m[n - 1].out) <= Len(m[n].out)
    <3> TAKE n \in 1 .. k
    <3> DEFINE x == m[n - 1]
               y == m[n]
    <3>1. OpTells(x, y, layout[n], at[n - 1], at[n], f, len)
      BY SayingIs
    <3> HIDE DEF x, y
    <3>2. Len(x.out) <= Len(y.out)
      BY <3>1 DEF OpTells
    <3> QED BY <3>2 DEF x, y
  <2>3. \A n \in 0 .. k : Len(m[n].out) \in Nat
    BY <2>1 DEF Said
  <2>4. k \in Nat /\ (\A n \in 0 .. k : at[n] \in Stages)
        /\ \A n \in 1 .. k : Moves(layout[n], at[n - 1], at[n])
    BY SayingIs
  <2> QED BY <2>2, <2>3, <2>4
<1>2. \A n \in 0 .. k : at[n][1] \in Nat /\ at[n][2] \in {0, 1}
  BY <1>1 DEF Stages, Sections
<1>3. \A n \in 1 .. k : at[n - 1][1] <= at[n][1] /\ at[n - 1][2] <= at[n][2]
  <2> SUFFICES ASSUME NEW n \in 1 .. k PROVE at[n - 1][1] <= at[n][1] /\ at[n - 1][2] <= at[n][2]
    OBVIOUS
  <2>1. n - 1 \in 0 .. k /\ n \in 0 .. k
    BY <1>1
  <2> DEFINE p == at[n - 1]
             q == at[n]
             op == layout[n]
  <2>2. Moves(op, p, q) /\ p[1] \in Nat /\ q[1] \in Nat /\ p[2] \in {0, 1} /\ q[2] \in {0, 1}
    BY <1>1, <1>2, <2>1
  <2> HIDE DEF p, q, op
  <2>3. p[1] <= q[1] /\ p[2] <= q[2]
    BY <2>2 DEF Moves
  <2> QED BY <2>3 DEF p, q
<1>4. 0 \in S
  BY <1>1, <1>2
<1>5. ASSUME NEW n \in 1 .. k, n - 1 \in S PROVE n \in S
  <2>1. n - 1 \in 0 .. k /\ n \in 0 .. k
    BY <1>1
  <2>2. CASE j = n
    <3>1. at[n][1] \in Nat /\ at[n][2] \in {0, 1} /\ Len(m[n].out) \in Nat
      BY <1>1, <1>2, <2>1
    <3>2. GoneOn(n)
      BY <2>2, <3>1
    <3> QED BY <2>1, <3>2
  <2>3. CASE j <= n - 1
    <3>1. GoneOn(n - 1)
      BY <1>5, <2>3
    <3>2. at[n - 1][1] <= at[n][1] /\ at[n - 1][2] <= at[n][2] /\ Len(m[n - 1].out) <= Len(m[n].out)
      BY <1>1, <1>3
    <3>3. at[j][1] \in Nat /\ at[j][2] \in {0, 1} /\ Len(m[j].out) \in Nat
      BY <1>1, <1>2
    <3>4. at[n - 1][1] \in Nat /\ at[n][1] \in Nat /\ at[n - 1][2] \in {0, 1} /\ at[n][2] \in {0, 1}
          /\ Len(m[n - 1].out) \in Nat /\ Len(m[n].out) \in Nat
      BY <1>1, <1>2, <2>1
    <3>5. at[j][1] <= at[n][1]
      BY <3>1, <3>2, <3>3, <3>4
    <3>6. at[j][2] <= at[n][2]
      BY <3>1, <3>2, <3>3, <3>4
    <3>7. Len(m[j].out) <= Len(m[n].out)
      <4> DEFINE a == Len(m[j].out)
                 b == Len(m[n - 1].out)
                 c == Len(m[n].out)
      <4>1. a \in Nat /\ b \in Nat /\ c \in Nat /\ a <= b /\ b <= c
        BY <3>1, <3>2, <3>3, <3>4
      <4> HIDE DEF a, b, c
      <4>2. a <= c
        BY <4>1
      <4> QED BY <4>2 DEF a, c
    <3>8. GoneOn(n)
      BY <3>5, <3>6, <3>7
    <3> QED BY <2>1, <3>8
  <2>4. CASE j > n
    BY <2>1, <2>4
  <2>5. j \in Int /\ n \in Int
    OBVIOUS
  <2> QED BY <2>2, <2>3, <2>4, <2>5
<1> HIDE DEF S
<1>6. \A n \in 0 .. k : n \in S
  BY <1>1, <1>4, <1>5, Induction
<1> QED BY <1>6 DEF S

\* A section ends where the operation is that leaves it.
LEMMA EndAt ==
  ASSUME NEW layout, NEW at, NEW f, NEW len, NEW m, Saying(m, layout, at, f, len),
         NEW j \in Nat, j + 1 \in 1 .. Len(layout), NEW s \in 0 .. Sections - 1,
         at[j][1] <= s, s < at[j + 1][1], NEW i \in 0 .. Len(layout), j + 1 <= i
  PROVE  m[i].ends[s] = Len(m[j].out)
<1> DEFINE k == Len(layout)
           top == Len(m[j].out)
           S == {n \in 0 .. k : j + 1 <= n => m[n].ends[s] = top}
<1>1. k \in Nat /\ s \in Int /\ j \in 0 .. k /\ j + 1 \in 0 .. k
  BY SayingIs DEF Sections
<1>2. \A n \in 0 .. k : at[n][1] \in Nat
  <2>1. \A n \in 0 .. k : at[n] \in Stages
    BY SayingIs
  <2> QED BY <2>1 DEF Stages, Sections
<1>3. ASSUME NEW n \in 1 .. k, n - 1 \in S PROVE n \in S
  <2> DEFINE x == m[n - 1]
             y == m[n]
             p == at[n - 1]
             q == at[n]
             op == layout[n]
  <2>1. n - 1 \in 0 .. k /\ n \in 0 .. k
    BY <1>1
  <2>2. op \in Ops /\ Moves(op, p, q) /\ OpTells(x, y, op, p, q, f, len)
    BY SayingIs
  <2>3. p[1] \in Nat /\ q[1] \in Nat
    BY <1>2, <2>1
  <2> SUFFICES ASSUME j + 1 <= n PROVE y.ends[s] = top
    BY <2>1
  <2>4. (op.op = "section" => y.ends[s] = IF p[1] <= s /\ s < q[1] THEN Len(x.out) ELSE x.ends[s])
        /\ (op.op # "section" => y.ends = x.ends)
    <3> HIDE DEF x, y, p, q, op
    <3>1. op.op = "section" => EndsFrom(x, y, p[1], q[1])
      BY <2>2 DEF OpTells
    <3>2. op.op # "section" => y.ends = x.ends
      BY <2>2, OpIsOneOf DEF OpTells, SaysOn
    <3> QED BY <3>1, <3>2 DEF EndsFrom
  <2>5. CASE n = j + 1
    <3>1. n - 1 = j /\ p[1] <= s /\ s < q[1]
      BY <2>5
    <3>2. op.op = "section"
      <4> HIDE DEF x, y, p, q, op
      <4> QED BY <1>1, <2>2, <2>3, <3>1 DEF Moves
    <3> QED BY <2>4, <3>1, <3>2
  <2>6. CASE n # j + 1
    <3>1. j + 1 <= n - 1
      BY <2>6
    <3>2. x.ends[s] = top
      BY <1>3, <3>1
    <3>3. s < p[1]
      <4>1. at[j + 1][1] <= at[n - 1][1]
        BY <1>1, <2>1, <3>1, SayingGoes
      <4> QED BY <1>1, <1>2, <2>1, <4>1
    <3>4. ~ (p[1] <= s)
      BY <1>1, <2>3, <3>3
    <3> QED BY <2>4, <3>2, <3>4
  <2> QED BY <2>5, <2>6
<1>4. 0 \in S
  BY <1>1
<1> HIDE DEF S
<1>5. \A n \in 0 .. k : n \in S
  BY <1>1, <1>3, <1>4, Induction
<1> QED BY <1>5 DEF S

\* The fields begin where they are marked.
LEMMA MarkAt ==
  ASSUME NEW layout, NEW at, NEW f, NEW len, NEW m, Saying(m, layout, at, f, len),
         NEW j \in Nat, j + 1 \in 1 .. Len(layout), layout[j + 1].op = "fields",
         NEW i \in 0 .. Len(layout), j + 1 <= i
  PROVE  m[i].fields = Len(m[j].out)
<1> DEFINE k == Len(layout)
           top == Len(m[j].out)
           S == {n \in 0 .. k : j + 1 <= n => m[n].fields = top}
<1>1. k \in Nat /\ j \in 0 .. k /\ j + 1 \in 0 .. k
  BY SayingIs
<1>2. \A n \in 0 .. k : at[n][2] \in {0, 1}
  <2>1. \A n \in 0 .. k : at[n] \in Stages
    BY SayingIs
  <2> QED BY <2>1 DEF Stages
<1>3. at[j + 1][2] = 1
  <2> DEFINE n == j + 1
  <2>1. n \in 1 .. k /\ n = j + 1 /\ layout[n].op = "fields"
    OBVIOUS
  <2> HIDE DEF n
  <2>2. Moves(layout[n], at[n - 1], at[n])
    BY <2>1, SayingIs
  <2> QED BY <2>1, <2>2 DEF Moves
<1>4. ASSUME NEW n \in 1 .. k, n - 1 \in S PROVE n \in S
  <2> DEFINE x == m[n - 1]
             y == m[n]
             p == at[n - 1]
             q == at[n]
             op == layout[n]
  <2>1. n - 1 \in 0 .. k /\ n \in 0 .. k
    BY <1>1
  <2>2. op \in Ops /\ Moves(op, p, q) /\ OpTells(x, y, op, p, q, f, len)
    BY SayingIs
  <2> SUFFICES ASSUME j + 1 <= n PROVE y.fields = top
    BY <2>1
  <2>3. (op.op = "fields" => y.fields = Len(x.out) /\ p[2] = 0) /\ (op.op # "fields" => y.fields = x.fields)
    <3> HIDE DEF x, y, p, q, op
    <3> QED BY <2>2, OpIsOneOf DEF OpTells, SaysOn, Moves
  <2>4. CASE n = j + 1
    <3>1. n - 1 = j
      BY <2>4
    <3> QED BY <2>3, <2>4, <3>1
  <2>5. CASE n # j + 1
    <3>1. j + 1 <= n - 1
      BY <2>5
    <3>2. x.fields = top
      BY <1>4, <3>1
    <3>3. p[2] = 1
      <4>1. at[j + 1][2] <= at[n - 1][2]
        BY <1>1, <2>1, <3>1, SayingGoes
      <4> QED BY <1>2, <1>3, <2>1, <4>1
    <3> QED BY <2>3, <3>2, <3>3
  <2> QED BY <2>4, <2>5
<1>5. 0 \in S
  BY <1>1
<1> HIDE DEF S
<1>6. \A n \in 0 .. k : n \in S
  BY <1>1, <1>4, <1>5, Induction
<1> QED BY <1>6 DEF S

-----------------------------------------------------------------------------
(* Where a layout is after each of its parts.                               *)

LEMMA OneWay ==
  ASSUME NEW seq, NEW a, NEW b, Len(seq) \in Nat, GoesBy(seq, a), GoesBy(seq, b), a[0] = b[0],
         a \in [0 .. Len(seq) -> Stages], b \in [0 .. Len(seq) -> Stages]
  PROVE  a[Len(seq)] = b[Len(seq)]
<1> DEFINE k == Len(seq)
           S == {n \in 0 .. k : a[n] = b[n]}
<1>1. 0 \in S
  OBVIOUS
<1>2. ASSUME NEW n \in 1 .. k, n - 1 \in S PROVE n \in S
  <2> DEFINE op == seq[n]
             p == a[n - 1]
             q == a[n]
             r == b[n]
  <2>1. n \in 0 .. k /\ b[n - 1] = p
    BY <1>2
  <2>2. Moves(op, p, q) /\ Moves(op, p, r)
    BY <2>1 DEF GoesBy
  <2>3. q \in Stages /\ r \in Stages
    BY <2>1
  <2> HIDE DEF op, p, q, r
  <2>4. q[1] = r[1] /\ q[2] = r[2]
    BY <2>2 DEF Moves
  <2>5. q = r
    BY <2>3, <2>4 DEF Stages
  <2> QED BY <2>1, <2>5 DEF q, r
<1> HIDE DEF S
<1>3. \A n \in 0 .. k : n \in S
  BY <1>1, <1>2, Induction
<1>4. k \in S
  BY <1>3
<1> QED BY <1>4 DEF S

\* After a part of a layout, whatever comes before it and after it.
Holding(layout, n, part) ==
  /\ n \in Nat /\ Len(part) \in Nat /\ n + Len(part) <= Len(layout)
  /\ \A i \in 1 .. Len(part) : layout[n + i] = part[i]

LEMMA AfterPart ==
  ASSUME NEW layout, NEW at, Runs6(layout, at), NEW n, NEW part, Holding(layout, n, part),
         NEW p, NEW q, Goes(part, p, q), at[n] = p
  PROVE  at[n + Len(part)] = q
<1> DEFINE k == Len(part)
           b == [i \in 0 .. k |-> at[n + i]]
<1>1. /\ at \in [0 .. Len(layout) -> Stages] /\ \A i \in 1 .. Len(layout) : Moves(layout[i], at[i - 1], at[i])
      /\ Len(layout) \in Nat
  BY DEF Runs6, GoesBy
<1>2. n \in Nat /\ k \in Nat /\ n + k <= Len(layout) /\ \A i \in 1 .. k : layout[n + i] = part[i]
  BY DEF Holding
<1>3. PICK a \in [0 .. k -> Stages] : a[0] = p /\ a[k] = q /\ GoesBy(part, a)
  BY DEF Goes
<1> HIDE DEF k
<1>4. b \in [0 .. k -> Stages] /\ b[0] = p
  <2>1. \A i \in 0 .. k : n + i \in 0 .. Len(layout)
    BY <1>1, <1>2
  <2>2. \A i \in 0 .. k : at[n + i] \in Stages
    BY <1>1, <2>1
  <2>3. n + 0 = n /\ 0 \in 0 .. k
    BY <1>2
  <2> QED BY <2>2, <2>3
<1>5. \A i \in 1 .. k : Moves(part[i], b[i - 1], b[i])
  <2> TAKE i \in 1 .. k
  <2>1. n + i \in 1 .. Len(layout) /\ (n + i) - 1 = n + (i - 1) /\ i - 1 \in 0 .. k /\ i \in 0 .. k
    BY <1>1, <1>2
  <2> DEFINE w == n + i
  <2>2. w \in 1 .. Len(layout) /\ w - 1 = n + (i - 1) /\ w = n + i
    BY <2>1
  <2> HIDE DEF w
  <2>3. Moves(layout[w], at[w - 1], at[w])
    BY <1>1, <2>2
  <2>4. Moves(part[i], at[n + (i - 1)], at[n + i])
    BY <1>2, <2>2, <2>3
  <2> QED BY <2>1, <2>4
<1>6. b[k] = at[n + k]
  BY <1>2
<1> HIDE DEF b
<1>7. GoesBy(part, b)
  BY <1>5 DEF GoesBy, k
<1>8. a[k] = b[k]
  BY <1>2, <1>3, <1>4, <1>7, OneWay DEF k
<1> QED BY <1>3, <1>6, <1>8 DEF k

-----------------------------------------------------------------------------
(* The URL of a request.                                                    *)

HasKey(d) == d.key /\ ~ d.object
\* The operations before the query: up to its section.
UrlFront(d) == 4 + (IF HasKey(d) THEN 1 ELSE 0)

UrlAsLaid(layout, d) ==
  /\ Len(UrlLayout(d)) = UrlFront(d) + Len(d.query) /\ Len(UrlLayout(d)) \in Nat
  /\ Len(UrlLayout(d)) <= Len(layout) /\ Len(layout) \in Nat
  /\ layout[1] = Text(HostText) /\ layout[2] = Section(PathSection) /\ layout[3] = Text(PathText(d))
  /\ HasKey(d) => layout[4] = Hole("Key")
  /\ layout[UrlFront(d)] = Section(QuerySection)
  /\ \A n \in 1 .. Len(d.query) : layout[UrlFront(d) + n] = Param(d.query[n])
  /\ Holding(layout, 0, UrlLayout(d)) /\ Holding(layout, Len(UrlLayout(d)), AfterUrl(d))
  /\ Len(layout) = Len(UrlLayout(d)) + Len(AfterUrl(d))

LEMMA Placed ==
  ASSUME NEW X, NEW one \in Seq(X), NEW two \in Seq(X)
  PROVE  /\ one \o two \in Seq(X) /\ Len(one \o two) = Len(one) + Len(two)
         /\ \A i \in 1 .. Len(one) : (one \o two)[i] = one[i]
         /\ \A i \in 1 .. Len(two) : (one \o two)[Len(one) + i] = two[i]
         /\ Len(one) \in Nat /\ Len(two) \in Nat
BY ConcatProperties

LEMMA UrlLaid ==
  ASSUME NEW d, Described(d)
  PROVE  UrlAsLaid(LayoutOf(d), d)
<1> DEFINE start == <<Text(HostText), Section(PathSection), Text(PathText(d))>>
           hole == IF d.key /\ ~d.object THEN <<Hole("Key")>> ELSE <<>>
           query == <<Section(QuerySection)>>
           params == [n \in DOMAIN d.query |-> Param(d.query[n])]
           k == IF HasKey(d) THEN 1 ELSE 0
           q == Len(d.query)
           url == UrlLayout(d)
           after == AfterUrl(d)
<1>1. start \in Seq(Ops) /\ Len(start) = 3
      /\ start[1] = Text(HostText) /\ start[2] = Section(PathSection) /\ start[3] = Text(PathText(d))
  <2>1. Text(HostText) \in Ops /\ Section(PathSection) \in Ops /\ Text(PathText(d)) \in Ops
    BY WordingIs, PathTextIn, StillIs, OpIs DEF PathSection, Sections
  <2>2. start \in Seq(Ops)
    BY <2>1, Few
  <2> QED BY <2>2
<1>2. hole \in Seq(Ops) /\ Len(hole) = k /\ (HasKey(d) => hole[1] = Hole("Key")) /\ k \in {0, 1}
  <2>1. Hole("Key") \in Ops
    <3>1. "Key" \in Words
      BY DEF Words
    <3> QED BY <3>1, StillIs, OpIs
  <2> QED BY <2>1, Few DEF HasKey
<1>3. query \in Seq(Ops) /\ Len(query) = 1 /\ query[1] = Section(QuerySection)
  <2>1. Section(QuerySection) \in Ops
    BY OpIs DEF QuerySection, Sections
  <2> QED BY <2>1, Few
<1>4. params \in Seq(Ops) /\ Len(params) = q /\ q \in Nat /\ \A n \in 1 .. q : params[n] = Param(d.query[n])
  <2>1. d.query \in Seq(Parameters) /\ DOMAIN d.query = 1 .. q /\ q \in Nat
    BY DEF Described
  <2>2. params \in Seq(Ops) /\ Len(params) = q
    BY UrlLayoutIs
  <2> QED BY <2>1, <2>2
<1>5. url = start \o hole \o query \o params
  BY DEF UrlLayout
<1>6. after \in Seq(Ops) /\ LayoutOf(d) = url \o after
  <2>1. Goes(HeadLayout(d), <<2, 0>>, <<3, 1>>) /\ BodyLayout(d) \in Seq(Ops)
    BY PartsGo DEF Heads, BeginsHead, Goes
  <2>2. HeadLayout(d) \in Seq(Ops) /\ SignedLayout(d) \in Seq(Ops)
    <3>1. SignedLayout(d) = <<>> \/ SignedLayout(d) \in Seq(Ops)
      BY PartsGo DEF Signs, Goes
    <3>2. <<>> \in Seq(Ops)
      OBVIOUS
    <3>3. HeadLayout(d) \in Seq(Ops)
      BY <2>1 DEF Goes
    <3> QED BY <3>1, <3>2, <3>3
  <2>3. HeadLayout(d) \o SignedLayout(d) \o BodyLayout(d) \in Seq(Ops)
    BY <2>1, <2>2
  <2> QED BY <2>3 DEF AfterUrl, LayoutOf
<1> DEFINE a == start \o hole
           b == a \o query
           layout == url \o after
<1> HIDE DEF start, hole, query, params, url, after
<1>7. /\ a \in Seq(Ops) /\ Len(a) = 3 + k /\ a[1] = Text(HostText) /\ a[2] = Section(PathSection)
      /\ a[3] = Text(PathText(d)) /\ (HasKey(d) => a[4] = Hole("Key"))
  <2>1. /\ a \in Seq(Ops) /\ Len(a) = Len(start) + Len(hole)
        /\ \A i \in 1 .. Len(start) : a[i] = start[i]
        /\ \A i \in 1 .. Len(hole) : a[Len(start) + i] = hole[i]
    <3>1. start \in Seq(Ops) /\ hole \in Seq(Ops)
      BY <1>1, <1>2
    <3> QED BY <3>1, Placed
  <2> HIDE DEF a
  <2>2. 1 \in 1 .. 3 /\ 2 \in 1 .. 3 /\ 3 \in 1 .. 3 /\ 3 + 1 = 4
    OBVIOUS
  <2>3. HasKey(d) => 1 \in 1 .. Len(hole)
    BY <1>2
  <2> QED BY <1>1, <1>2, <2>1, <2>2, <2>3
<1> HIDE DEF a
<1>8. /\ b \in Seq(Ops) /\ Len(b) = 4 + k /\ \A i \in 1 .. 3 + k : b[i] = a[i]
      /\ b[4 + k] = Section(QuerySection)
  <2>1. /\ b \in Seq(Ops) /\ Len(b) = Len(a) + Len(query)
        /\ \A i \in 1 .. Len(a) : b[i] = a[i]
        /\ \A i \in 1 .. Len(query) : b[Len(a) + i] = query[i]
    <3>1. a \in Seq(Ops) /\ query \in Seq(Ops)
      BY <1>3, <1>7
    <3> QED BY <3>1, Placed
  <2> HIDE DEF b
  <2>2. 1 \in 1 .. Len(query) /\ (3 + k) + 1 = 4 + k /\ (3 + k) + Len(query) = 4 + k
    BY <1>2, <1>3
  <2> QED BY <1>3, <1>7, <2>1, <2>2
<1> HIDE DEF b
<1>9. /\ url \in Seq(Ops) /\ Len(url) = 4 + k + q /\ \A i \in 1 .. 4 + k : url[i] = b[i]
      /\ \A n \in 1 .. q : url[(4 + k) + n] = Param(d.query[n])
  <2>1. /\ url \in Seq(Ops) /\ Len(url) = Len(b) + Len(params)
        /\ \A i \in 1 .. Len(b) : url[i] = b[i]
        /\ \A i \in 1 .. Len(params) : url[Len(b) + i] = params[i]
    <3>1. url = b \o params
      BY <1>5 DEF a, b
    <3>2. /\ b \o params \in Seq(Ops) /\ Len(b \o params) = Len(b) + Len(params)
          /\ \A i \in 1 .. Len(b) : (b \o params)[i] = b[i]
          /\ \A i \in 1 .. Len(params) : (b \o params)[Len(b) + i] = params[i]
      <4>1. b \in Seq(Ops) /\ params \in Seq(Ops)
        BY <1>4, <1>8
      <4> QED BY <4>1, Placed
    <3> HIDE DEF b
    <3> QED BY <3>1, <3>2
  <2> QED BY <1>4, <1>8, <2>1
<1>10. /\ Len(layout) = Len(url) + Len(after) /\ Len(url) \in Nat /\ Len(after) \in Nat
       /\ \A i \in 1 .. Len(url) : layout[i] = url[i]
       /\ \A i \in 1 .. Len(after) : layout[Len(url) + i] = after[i]
  <2>1. /\ layout \in Seq(Ops) /\ Len(layout) = Len(url) + Len(after)
        /\ \A i \in 1 .. Len(url) : layout[i] = url[i]
        /\ \A i \in 1 .. Len(after) : layout[Len(url) + i] = after[i]
        /\ Len(url) \in Nat /\ Len(after) \in Nat
    <3> HIDE DEF k, q
    <3> QED BY <1>6, <1>9, Placed
  <2> QED BY <2>1
<1> HIDE DEF layout
<1>11. Holding(layout, 0, url) /\ Holding(layout, Len(url), after)
  BY <1>10 DEF Holding
<1>12. UrlFront(d) = 4 + k
  BY DEF UrlFront
<1>13. \A i \in 1 .. 3 + k : layout[i] = a[i]
  <2> TAKE i \in 1 .. 3 + k
  <2> HIDE DEF k, q
  <2>1. i \in 1 .. 4 + k /\ i \in 1 .. 4 + k + q
    BY <1>2, <1>4
  <2> QED BY <1>8, <1>9, <1>10, <2>1
<1>14. /\ layout[1] = Text(HostText) /\ layout[2] = Section(PathSection) /\ layout[3] = Text(PathText(d))
       /\ HasKey(d) => layout[4] = Hole("Key")
  <2>1. 1 \in 1 .. 3 + k /\ 2 \in 1 .. 3 + k /\ 3 \in 1 .. 3 + k /\ (HasKey(d) => 4 \in 1 .. 3 + k)
    BY <1>2
  <2> HIDE DEF k
  <2> QED BY <1>7, <1>13, <2>1
<1>15. layout[4 + k] = Section(QuerySection)
  <2> HIDE DEF k, q
  <2>1. 4 + k \in 1 .. 4 + k /\ 4 + k \in 1 .. 4 + k + q
    BY <1>2, <1>4
  <2> HIDE DEF k
  <2> QED BY <1>8, <1>9, <1>10, <2>1
<1>16. \A n \in 1 .. q : layout[(4 + k) + n] = Param(d.query[n])
  <2> TAKE n \in 1 .. q
  <2> HIDE DEF k, q
  <2>1. (4 + k) + n \in 1 .. 4 + k + q
    BY <1>2, <1>4
  <2> HIDE DEF k
  <2> QED BY <1>9, <1>10, <2>1
<1>17. Len(url) <= Len(layout) /\ Len(layout) \in Nat
  BY <1>10
<1>18. layout = LayoutOf(d)
  BY <1>6 DEF layout
<1> HIDE DEF k, q
<1>19. /\ Len(url) = UrlFront(d) + q /\ layout[UrlFront(d)] = Section(QuerySection)
       /\ \A n \in 1 .. q : layout[UrlFront(d) + n] = Param(d.query[n])
  BY <1>9, <1>12, <1>15, <1>16
<1> QED BY <1>10, <1>11, <1>14, <1>17, <1>18, <1>19 DEF UrlAsLaid, url, after, q

-----------------------------------------------------------------------------
(* One operation of a layout, by what it is.                                *)

LEMMA TextHere ==
  ASSUME NEW layout, NEW at, NEW f, NEW len, NEW m, Saying(m, layout, at, f, len),
         NEW j \in Nat, NEW i \in 1 .. Len(layout), i - 1 = j, NEW text, layout[i] = Text(text)
  PROVE  /\ SaysOn(m[j], m[i], text) /\ m[i].params = m[j].params /\ at[i] = at[j]
<1>1. Moves(layout[i], at[j], at[i]) /\ OpTells(m[j], m[i], layout[i], at[j], at[i], f, len)
  <2>1. Moves(layout[i], at[i - 1], at[i]) /\ OpTells(m[i - 1], m[i], layout[i], at[i - 1], at[i], f, len)
    BY SayingIs
  <2> QED BY <2>1
<1>2. layout[i].op = "text" /\ layout[i].text = text
  BY DEF Text
<1>3. at[i] = at[j]
  BY <1>1, <1>2 DEF Moves
<1>4. SaysOn(m[j], m[i], text) /\ m[i].params = m[j].params
  BY <1>1, <1>2 DEF OpTells
<1> QED BY <1>3, <1>4

LEMMA SectionHere ==
  ASSUME NEW layout, NEW at, NEW f, NEW len, NEW m, Saying(m, layout, at, f, len),
         NEW j \in Nat, NEW i \in 1 .. Len(layout), i - 1 = j, NEW s, layout[i] = Section(s)
  PROVE  /\ m[i].out = m[j].out /\ m[i].params = m[j].params /\ at[i][1] = s /\ at[j][1] < s
         /\ at[i][2] = at[j][2]
<1>1. Moves(layout[i], at[j], at[i]) /\ OpTells(m[j], m[i], layout[i], at[j], at[i], f, len)
      /\ at[j] \in Stages
  <2>1. Moves(layout[i], at[i - 1], at[i]) /\ OpTells(m[i - 1], m[i], layout[i], at[i - 1], at[i], f, len)
    BY SayingIs
  <2>2. j \in 0 .. Len(layout)
    BY SayingIs
  <2> QED BY <2>1, <2>2, SayingIs
<1>2. layout[i].op = "section" /\ layout[i].section = s
  BY DEF Section
<1>3. at[i][1] = s /\ at[j][1] < s /\ at[i][2] = at[j][2]
  BY <1>1, <1>2 DEF Moves, Stages
<1>4. m[i].out = m[j].out /\ m[i].params = m[j].params
  BY <1>1, <1>2 DEF OpTells
<1> QED BY <1>3, <1>4

LEMMA HoleHere ==
  ASSUME NEW layout, NEW at, NEW f, NEW len, NEW m, Saying(m, layout, at, f, len),
         NEW j \in Nat, NEW i \in 1 .. Len(layout), i - 1 = j, NEW hole, layout[i] = Hole(hole)
  PROVE  /\ SaysOn(m[j], m[i], HoleText(m[j], hole, <<>>, f)) /\ m[i].params = m[j].params /\ at[i] = at[j]
         /\ hole \notin OptionalHoles \cup {"Separator", NoHole} /\ CanFill(hole, f)
<1>1. Moves(layout[i], at[j], at[i]) /\ OpTells(m[j], m[i], layout[i], at[j], at[i], f, len)
      /\ Proper(layout[i]) /\ Fillable(layout[i], f)
  <2>1. Moves(layout[i], at[i - 1], at[i]) /\ OpTells(m[i - 1], m[i], layout[i], at[i - 1], at[i], f, len)
        /\ Proper(layout[i]) /\ Fillable(layout[i], f)
    BY SayingIs
  <2> QED BY <2>1
<1>2. layout[i].op = "hole" /\ layout[i].hole = hole
  BY DEF Hole
<1>3. at[i] = at[j]
  BY <1>1, <1>2 DEF Moves
<1>4. SaysOn(m[j], m[i], HoleText(m[j], hole, <<>>, f)) /\ AddsParam(m[j], m[i], hole, f)
  BY <1>1, <1>2 DEF OpTells
<1>5. hole \notin OptionalHoles \cup {"Separator", NoHole} /\ CanFill(hole, f)
  <2>1. hole \notin OptionalHoles \cup {"Separator", NoHole}
    BY <1>1, <1>2 DEF Proper
  <2>2. CanFill(hole, f)
    BY <1>1, <1>2 DEF Fillable
  <2> QED BY <2>1, <2>2
<1>6. m[i].params = m[j].params
  BY <1>4, <1>5 DEF AddsParam, CountsParam
<1> QED BY <1>3, <1>4, <1>5, <1>6

-----------------------------------------------------------------------------
(* The URL that a request says.                                             *)

\* What a URL is made of, with its path and its query in the words of a request.
UrlWorded(d, f) ==
  /\ MeantPath(d, f) \in Wording /\ MeantQuery(d, f) \in Wording
  /\ MeantTarget(d, f) = MeantPath(d, f) \o Queried(MeantQuery(d, f)) /\ MeantTarget(d, f) \in Wording
  /\ MeantUrl(d, f) = HostText \o MeantTarget(d, f) /\ MeantUrl(d, f) \in Wording
  /\ HostText \in Wording /\ Len(HostText) = 2

LEMMA PathSays ==
  ASSUME NEW d, NEW layout, UrlAsLaid(layout, d), Described(d),
         NEW at, NEW f, NEW len, NEW m, Saying(m, layout, at, f, len),
         m[0].out = <<>>, m[0].params = 0, NEW k, k = UrlFront(d), NEW j, j = k - 1
  PROVE  /\ m[k].out = HostText \o MeantPath(d, f) /\ MeantPath(d, f) \in Wording
         /\ m[j].out = m[k].out /\ m[k].params = 0
         /\ at[1][1] = 0 /\ m[1].out = HostText /\ at[2][1] = 1 /\ at[j][1] = 1 /\ at[k][1] = 2
         /\ j \in Nat /\ k \in 1 .. Len(layout) /\ j \in 1 .. Len(layout)
         /\ 2 \in 1 .. Len(layout) /\ 1 \in Nat
<1>1. k \in {4, 5} /\ j \in {3, 4} /\ k - 1 = j /\ Len(layout) \in Nat /\ k <= Len(layout)
      /\ (HasKey(d) => k = 5 /\ j = 4) /\ (~ HasKey(d) => k = 4 /\ j = 3)
  <2>1. k <= Len(layout) /\ Len(layout) \in Nat /\ k \in {4, 5}
    <3>1. Len(UrlLayout(d)) = k + Len(d.query) /\ Len(UrlLayout(d)) <= Len(layout) /\ Len(layout) \in Nat
      BY DEF UrlAsLaid
    <3>2. d.query \in Seq(Parameters)
      BY DEF Described
    <3>3. Len(d.query) \in Nat
      BY <3>2
    <3>4. k \in {4, 5}
      BY DEF UrlFront
    <3> HIDE DEF UrlFront
    <3> QED BY <3>1, <3>3, <3>4
  <2>2. (HasKey(d) => k = 5) /\ (~ HasKey(d) => k = 4)
    BY DEF UrlFront
  <2> QED BY <2>1, <2>2
<1>2. 1 \in 1 .. Len(layout) /\ 2 \in 1 .. Len(layout) /\ 3 \in 1 .. Len(layout) /\ k \in 1 .. Len(layout)
      /\ j \in 1 .. Len(layout) /\ 1 - 1 = 0 /\ 2 - 1 = 1 /\ 3 - 1 = 2 /\ 0 \in Nat /\ 1 \in Nat /\ 2 \in Nat
      /\ j \in Nat /\ 3 \in Nat /\ 4 - 1 = 3
  BY <1>1
<1>3. /\ layout[1] = Text(HostText) /\ layout[2] = Section(PathSection) /\ layout[3] = Text(PathText(d))
      /\ (HasKey(d) => layout[4] = Hole("Key")) /\ layout[k] = Section(QuerySection)
  BY DEF UrlAsLaid
<1>4. at[0] = <<0, 0>>
  BY DEF Saying, Runs6
<1>5. SaysOn(m[0], m[1], HostText) /\ m[1].params = m[0].params /\ at[1] = at[0]
  BY <1>2, <1>3, TextHere
<1>6. m[2].out = m[1].out /\ m[2].params = m[1].params /\ at[2][1] = PathSection
  BY <1>2, <1>3, SectionHere
<1>7. SaysOn(m[2], m[3], PathText(d)) /\ m[3].params = m[2].params /\ at[3] = at[2]
  BY <1>2, <1>3, TextHere
<1>8. PathText(d) \in Wording /\ HostText \in Wording
  BY PathTextIn, WordingIs
<1>9. m[1].out = HostText
  <2>1. m[1].out = <<>> \o HostText
    BY <1>5 DEF SaysOn
  <2> QED BY <1>8, <2>1, ConcatEmptySeq DEF Wording
<1>10. m[3].out = HostText \o PathText(d)
  BY <1>6, <1>7, <1>9 DEF SaysOn
<1>11. m[3].params = 0 /\ at[3][1] = 1 /\ at[2][1] = 1 /\ at[1][1] = 0
  BY <1>4, <1>5, <1>6, <1>7 DEF PathSection
<1>12. /\ m[j].out = HostText \o MeantPath(d, f) /\ MeantPath(d, f) \in Wording
       /\ m[j].params = 0 /\ at[j][1] = 1
  <2>1. CASE ~ HasKey(d)
    <3>1. MeantPath(d, f) = PathText(d) \o <<>>
      BY <2>1 DEF MeantPath, HasKey
    <3>2. MeantPath(d, f) = PathText(d)
      BY <1>8, <3>1, ConcatEmptySeq DEF Wording
    <3> QED BY <1>1, <1>8, <1>10, <1>11, <2>1, <3>2
  <2>2. CASE HasKey(d)
    <3> DEFINE value == ValueText("Key", f)
               none == <<>>
               text == HoleText(m[3], "Key", none, f)
    <3>1. layout[4] = Hole("Key") /\ j = 4 /\ 4 \in 1 .. Len(layout)
      BY <1>1, <1>2, <1>3, <2>2
    <3>2. SaysOn(m[3], m[4], text) /\ m[4].params = m[3].params /\ at[4] = at[3]
          /\ "Key" \notin OptionalHoles \cup {"Separator", NoHole} /\ CanFill("Key", f)
      BY <1>2, <3>1, HoleHere
    <3>3. text = value
      BY <3>2 DEF HoleText
    <3>4. value \in Wording
      <4>1. FillOf(f)
        BY DEF Saying, Filled
      <4>2. "Key" \in Encoded /\ "Key" \notin OptionalHoles
        BY DEF Encoded, UrlValues, OptionalHoles
      <4>3. "Key" \in DOMAIN f.values
        BY <3>2 DEF CanFill, OptionalHoles
      <4> QED BY <4>1, <4>2, <4>3, ValueTextIn
    <3>5. MeantPath(d, f) = PathText(d) \o value
      BY <2>2 DEF MeantPath, HasKey
    <3> HIDE DEF value, text
    <3>6. m[4].out = m[3].out \o value
      BY <3>2, <3>3 DEF SaysOn
    <3>7. (HostText \o PathText(d)) \o value = HostText \o (PathText(d) \o value)
      <4> DEFINE host == HostText
                 path == PathText(d)
      <4>1. host \in Seq(Words) /\ path \in Seq(Words) /\ value \in Seq(Words)
        BY <1>8, <3>4 DEF Wording
      <4> HIDE DEF host, path
      <4>2. (host \o path) \o value = host \o (path \o value)
        BY <4>1, ConcatAssociative
      <4> QED BY <4>2 DEF host, path
    <3>8. PathText(d) \o value \in Wording
      BY <1>8, <3>4, ConcatProperties DEF Wording
    <3> QED BY <1>10, <1>11, <3>1, <3>2, <3>5, <3>6, <3>7, <3>8
  <2> QED BY <2>1, <2>2
<1>13. m[k].out = m[j].out /\ m[k].params = m[j].params /\ at[k][1] = QuerySection
  BY <1>1, <1>2, <1>3, SectionHere
<1> QED BY <1>2, <1>9, <1>11, <1>12, <1>13 DEF QuerySection

LEMMA QuerySaid ==
  ASSUME NEW d, NEW layout, UrlAsLaid(layout, d), Described(d),
         NEW at, NEW f, NEW len, NEW m, Saying(m, layout, at, f, len),
         NEW k, k = UrlFront(d), m[k].params = 0, NEW u, u = Len(UrlLayout(d))
  PROVE  MeantQuery(d, f) \in Wording /\ SaysOn(m[k], m[u], Queried(MeantQuery(d, f)))
<1> DEFINE query == d.query
           q == Len(query)
           r == [n \in 0 .. q |-> m[k + n]]
           x == m[k]
<1>1. query \in Seq(Parameters) /\ q \in Nat
  BY DEF Described
<1>2. k \in {4, 5} /\ u = k + q /\ u <= Len(layout) /\ Len(layout) \in Nat
      /\ \A n \in 1 .. q : layout[k + n] = Param(query[n])
  <2>1. k \in {4, 5}
    BY DEF UrlFront
  <2> QED BY <2>1 DEF UrlAsLaid
<1>3. ASSUME NEW n \in 1 .. q
      PROVE  /\ m[k + n] = SaidParam(m[k + (n - 1)], query[n], f) /\ Sendable(query[n], f)
  <2> DEFINE i == k + n
  <2>1. i \in 1 .. Len(layout) /\ layout[i] = Param(query[n])
    BY <1>1, <1>2
  <2> HIDE DEF i
  <2>2. m[i] = SaidOp(m[i - 1], layout[i], f) /\ Proper(layout[i]) /\ Fillable(layout[i], f) /\ FillOf(f)
    <3>1. m[i] = SaidOp(m[i - 1], layout[i], f)
      BY <2>1 DEF Saying, SaidRun
    <3>2. FillOf(f)
      BY DEF Saying, Filled
    <3> QED BY <2>1, <3>1, <3>2, SayingIs
  <2>3. query[n] \in Parameters
    BY <1>1
  <2>4. m[i] = SaidParam(m[i - 1], query[n], f)
    <3>1. layout[i].op = "param" /\ layout[i].param = query[n]
      BY <2>1 DEF Param
    <3> QED BY <2>2, <3>1 DEF SaidOp
  <2>5. Sendable(query[n], f)
    BY <2>1, <2>2, <2>3 DEF Sendable
  <2>6. m[i - 1] = m[k + (n - 1)]
    <3>1. i - 1 = k + (n - 1)
      BY <1>1, <1>2 DEF i
    <3> QED BY <3>1
  <2> QED BY <2>4, <2>5, <2>6 DEF i
<1>4. x \in Passes(len, FALSE) /\ x.params = 0 /\ \A n \in 0 .. q : m[k + n] \in Passes(len, FALSE)
  <2>1. k \in 0 .. Len(layout) /\ \A n \in 0 .. q : k + n \in 0 .. Len(layout)
    BY <1>1, <1>2
  <2> QED BY <2>1, SayingIs
<1> HIDE DEF query, x
<1>5. QueryRun(r, x, query, f, len)
  <2>1. r \in [0 .. q -> Passes(len, FALSE)]
    BY <1>4
  <2>2. r[0] = x
    <3>1. 0 \in 0 .. q /\ k + 0 = k
      BY <1>1, <1>2
    <3> QED BY <3>1 DEF x
  <2>3. ASSUME NEW n \in 1 .. q
        PROVE  r[n] = SaidParam(r[n - 1], query[n], f)
    <3>1. n \in 0 .. q /\ n - 1 \in 0 .. q /\ k + (n - 1) = k + (n - 1)
      BY <1>1, <1>2
    <3>2. r[n] = m[k + n] /\ r[n - 1] = m[k + (n - 1)]
      BY <3>1
    <3> HIDE DEF r
    <3> QED BY <1>3, <3>2
  <2> HIDE DEF r
  <2> QED BY <2>1, <2>2, <2>3 DEF QueryRun
<1>6. r[q] = m[u]
  BY <1>1, <1>2
<1> DEFINE text == FlattenSeq(Pieces(Selected(query, Sending(query, f)), f))
<1>7. text \in Wording /\ SaysOn(x, r[q], Queried(text))
  <2> HIDE DEF r
  <2>1. \A n \in 1 .. Len(query) : Sendable(query[n], f)
    BY <1>3
  <2> QED BY <1>1, <1>4, <1>5, <2>1, QuerySays
<1>8. MeantQuery(d, f) = text
  BY Zenon DEF MeantQuery, text, query, Pieces, Piece, Sending
<1> HIDE DEF r, text
<1> QED BY <1>6, <1>7, <1>8 DEF x

LEMMA UrlSays ==
  ASSUME NEW d, NEW layout, UrlAsLaid(layout, d), Described(d),
         NEW at, NEW f, NEW len, NEW m, Saying(m, layout, at, f, len),
         m[0].out = <<>>, m[0].params = 0, NEW u, u = Len(UrlLayout(d))
  PROVE  /\ m[u].out = MeantUrl(d, f) /\ UrlWorded(d, f) /\ u \in 0 .. Len(layout) /\ u >= 4
         /\ \A i \in u .. Len(layout) : /\ m[i].ends[OriginSection] = 2
                                        /\ m[i].ends[PathSection] = 2 + Len(MeantPath(d, f))
<1> DEFINE k == UrlFront(d)
           j == k - 1
           path == MeantPath(d, f)
           query == MeantQuery(d, f)
           host == HostText
           said == Queried(query)
<1>1. /\ m[k].out = host \o path /\ path \in Wording
      /\ m[j].out = m[k].out /\ m[k].params = 0
      /\ at[1][1] = 0 /\ m[1].out = host /\ at[2][1] = 1 /\ at[j][1] = 1 /\ at[k][1] = 2
      /\ j \in Nat /\ k \in 1 .. Len(layout) /\ j \in 1 .. Len(layout)
      /\ 2 \in 1 .. Len(layout) /\ 1 \in Nat
  BY PathSays
<1>2. query \in Wording /\ SaysOn(m[k], m[u], said)
  BY <1>1, QuerySaid
<1>3. k \in {4, 5} /\ j + 1 = k /\ 1 + 1 = 2 /\ u >= k /\ u \in Nat /\ u <= Len(layout) /\ Len(layout) \in Nat
  <2>1. k \in {4, 5}
    BY DEF UrlFront
  <2>2. u = k + Len(d.query) /\ u <= Len(layout) /\ Len(layout) \in Nat
    BY DEF UrlAsLaid
  <2>3. d.query \in Seq(Parameters)
    BY DEF Described
  <2> HIDE DEF k
  <2> QED BY <2>1, <2>2, <2>3
<1>4. host \in Wording /\ Len(host) = 2
  <2>1. host \in Wording
    BY WordingIs
  <2> QED BY <2>1 DEF HostText
<1>5. said \in Wording
  <2>1. <<"?">> \in Wording /\ <<>> \in Wording
    BY DEF Wording, Words
  <2> HIDE DEF query
  <2> QED BY <1>2, <2>1, ConcatProperties DEF Wording, Queried
<1>6. MeantTarget(d, f) = path \o said
  BY DEF MeantTarget, Queried
<1> HIDE DEF path, query, said, host, k, j
<1>7. host \in Seq(Words) /\ path \in Seq(Words) /\ said \in Seq(Words)
  BY <1>1, <1>4, <1>5 DEF Wording
<1>8. path \o said \in Wording /\ host \o (path \o said) \in Wording /\ (host \o path) \o said = host \o (path \o said)
      /\ Len(host \o path) = 2 + Len(path)
  <2>1. path \o said \in Seq(Words) /\ Len(host \o path) = Len(host) + Len(path)
    BY <1>7, ConcatProperties
  <2>2. host \o (path \o said) \in Seq(Words)
    BY <1>7, <2>1, ConcatProperties
  <2>3. (host \o path) \o said = host \o (path \o said)
    BY <1>7, ConcatAssociative
  <2> QED BY <1>4, <2>1, <2>2, <2>3 DEF Wording
<1>9. m[u].out = host \o (path \o said)
  BY <1>1, <1>2, <1>8 DEF SaysOn
<1>10. UrlWorded(d, f) /\ MeantUrl(d, f) = host \o (path \o said)
  <2>1. MeantUrl(d, f) = host \o MeantTarget(d, f)
    BY DEF MeantUrl, host
  <2> QED BY <1>1, <1>2, <1>4, <1>6, <1>8, <2>1 DEF UrlWorded, path, query, said, host
<1>11. ASSUME NEW i \in u .. Len(layout)
       PROVE  m[i].ends[0] = 2 /\ m[i].ends[1] = 2 + Len(path)
  <2>1. i \in 0 .. Len(layout) /\ 1 + 1 <= i /\ j + 1 <= i /\ 1 + 1 \in 1 .. Len(layout) /\ j + 1 \in 1 .. Len(layout)
        /\ 0 \in 0 .. Sections - 1 /\ 1 \in 0 .. Sections - 1
    BY <1>1, <1>3 DEF Sections
  <2>2. at[1][1] <= 0 /\ 0 < at[1 + 1][1] /\ at[j][1] <= 1 /\ 1 < at[j + 1][1]
    BY <1>1, <1>3
  <2>3. m[i].ends[0] = Len(m[1].out)
    BY <1>1, <2>1, <2>2, EndAt
  <2> DEFINE one == 1
  <2>4. m[i].ends[1] = Len(m[j].out)
    <3>1. one \in 0 .. Sections - 1 /\ at[j][1] <= one /\ one < at[j + 1][1]
      BY <2>1, <2>2
    <3> HIDE DEF one
    <3>2. j \in Nat /\ j + 1 \in 1 .. Len(layout) /\ j + 1 <= i /\ i \in 0 .. Len(layout)
      BY <1>1, <2>1
    <3>3. m[i].ends[one] = Len(m[j].out)
      BY <3>1, <3>2, EndAt
    <3> QED BY <3>3 DEF one
  <2> QED BY <1>1, <1>4, <1>8, <2>3, <2>4
<1> QED BY <1>3, <1>9, <1>10, <1>11 DEF path, OriginSection, PathSection

-----------------------------------------------------------------------------
(* What a request says after its URL.                                       *)

\* A request that says what its description means, with a body of its length.
Speaks(d, f, layout, at, m, len) ==
  /\ Described(d) /\ layout = LayoutOf(d) /\ Saying(m, layout, at, f, len)
  /\ m[0].out = <<>> /\ m[0].params = 0 /\ len = Len(MeantBody(d, f))

\* A text that begins with another.
Begins(out, url) == Len(url) <= Len(out) /\ \A n \in 1 .. Len(url) : out[n] = url[n]

LEMMA BeginsAlike ==
  ASSUME NEW X, NEW out \in Seq(X), NEW url \in Seq(X), Begins(out, url),
         NEW a \in Nat, NEW b \in Nat, b <= Len(url)
  PROVE  SubSeq(out, a + 1, b) = SubSeq(url, a + 1, b)
<1> DEFINE one == SubSeq(out, a + 1, b)
           two == SubSeq(url, a + 1, b)
<1>1. Len(url) <= Len(out) /\ Len(out) \in Nat /\ Len(url) \in Nat /\ \A n \in 1 .. Len(url) : out[n] = url[n]
  BY DEF Begins
<1>2. CASE b <= a
  BY <1>1, <1>2
<1>3. CASE a < b
  <2> DEFINE k == b - a
  <2>1. one = [i \in 1 .. k |-> out[i + a]] /\ two = [i \in 1 .. k |-> url[i + a]]
    BY <1>1, <1>3
  <2>2. \A i \in 1 .. k : out[i + a] = url[i + a]
    BY <1>1, <1>3
  <2> QED BY <2>1, <2>2
<1> QED BY <1>2, <1>3

LEMMA Middle ==
  ASSUME NEW X, NEW a \in Seq(X), NEW b \in Seq(X), NEW c \in Seq(X)
  PROVE  SubSeq(a \o b \o c, Len(a) + 1, Len(a) + Len(b)) = b
<1> DEFINE all == a \o b \o c
           part == SubSeq(all, Len(a) + 1, Len(a) + Len(b))
<1>1. Len(a) \in Nat /\ Len(b) \in Nat /\ Len(c) \in Nat /\ Len(all) = Len(a) + Len(b) + Len(c)
      /\ all \in Seq(X)
  BY ConcatProperties
<1>2. CASE Len(b) = 0
  BY <1>1, <1>2
<1>3. CASE Len(b) > 0
  <2>1. part = [i \in 1 .. Len(b) |-> all[i + Len(a)]]
    BY <1>1, <1>3
  <2>2. \A i \in 1 .. Len(b) : all[i + Len(a)] = b[i]
    BY <1>1
  <2>3. b = [i \in 1 .. Len(b) |-> b[i]]
    OBVIOUS
  <2> QED BY <2>1, <2>2, <2>3
<1> QED BY <1>2, <1>3

\* What one operation says, other than a parameter.
Spoken(m, op, f) ==
  CASE op.op = "text" -> op.text
    [] op.op = "hole" -> HoleText(m, op.hole, <<>>, f)
    [] OTHER          -> <<>>

\* An operation that is no parameter, for one comes in the query alone.
NoParam(op, p) == p[1] > QuerySection \/ op.op # "param"

SpeaksOn(x, y, op, f, len) ==
  y.out = x.out \o Spoken(x, op, f) /\ Spoken(x, op, f) \in Said(len) /\ x.out \in Said(len)

LEMMA SpokenIs ==
  ASSUME NEW layout, NEW at, NEW f, NEW len, NEW m, Saying(m, layout, at, f, len),
         NEW j \in Nat, NEW i \in 1 .. Len(layout), i - 1 = j, NoParam(layout[i], at[j])
  PROVE  SpeaksOn(m[j], m[i], layout[i], f, len)
<1> DEFINE op == layout[i]
           x == m[j]
           y == m[i]
<1>1. op \in Ops /\ Moves(op, at[j], at[i]) /\ OpTells(x, y, op, at[j], at[i], f, len) /\ Fillable(op, f)
      /\ x \in Passes(len, FALSE) /\ FillOf(f) /\ at[j] \in Stages
  <2>1. layout[i] \in Ops /\ Moves(layout[i], at[i - 1], at[i]) /\ Fillable(layout[i], f)
        /\ OpTells(m[i - 1], m[i], layout[i], at[i - 1], at[i], f, len)
    BY SayingIs
  <2>2. j \in 0 .. Len(layout)
    BY SayingIs
  <2>3. FillOf(f)
    BY DEF Saying, Filled
  <2> QED BY <2>1, <2>2, <2>3, SayingIs
<1>2. op.op # "param"
  <2>1. CASE at[j][1] > QuerySection
    BY <1>1, <2>1 DEF Moves, Stages, QuerySection
  <2> QED BY <2>1 DEF NoParam
<1>3. x.out \in Said(len) /\ <<>> \in Said(len)
  <2>1. x.out \in Said(len)
    BY <1>1 DEF Passes, PassRecords
  <2> QED BY <2>1 DEF Said
<1> HIDE DEF op, x, y
<1>4. CASE op.op = "text"
  <2>1. op.text \in Said(len)
    BY <1>1, <1>4, OpIsOneOf, SaidIs
  <2>2. y.out = x.out \o op.text
    BY <1>1, <1>4 DEF OpTells, SaysOn
  <2> QED BY <1>3, <1>4, <2>1, <2>2 DEF Spoken, SpeaksOn, op, x, y
<1>5. CASE op.op = "hole"
  <2> DEFINE none == <<>>
             hole == op.hole
             text == HoleText(x, hole, none, f)
  <2>1. none \in Wording /\ CanFill(hole, f)
    BY <1>1, <1>5, WordingIs DEF Fillable
  <2>2. text \in Said(len)
    <3> HIDE DEF none, hole
    <3> QED BY <1>1, <2>1, SaysOnHole
  <2>3. y.out = x.out \o text
    BY <1>1, <1>5 DEF OpTells, SaysOn
  <2> QED BY <1>3, <1>5, <2>2, <2>3 DEF Spoken, SpeaksOn, op, x, y
<1>6. CASE op.op \notin {"text", "hole"}
  <2>1. op.op \in {"section", "fields"}
    BY <1>1, <1>2, <1>6, OpIsOneOf
  <2>2. y.out = x.out
    BY <1>1, <2>1 DEF OpTells
  <2>3. Spoken(x, op, f) = <<>>
    BY <1>6 DEF Spoken
  <2>4. y.out = x.out \o <<>>
    BY <1>3, <2>2, ConcatEmptySeq DEF Said
  <2> QED BY <1>3, <2>3, <2>4 DEF SpeaksOn, op, x, y
<1> QED BY <1>4, <1>5, <1>6

\* What a request has written once its URL is there.
AfterTheUrl(d, f, x, len) ==
  /\ x.out \in Said(len) /\ Begins(x.out, MeantUrl(d, f)) /\ x.bodyLen = len
  /\ x.ends[OriginSection] = 2 /\ x.ends[PathSection] = 2 + Len(MeantPath(d, f))
  /\ x.ends[QuerySection] = Len(MeantUrl(d, f))

LEMMA BeginsMore ==
  ASSUME NEW X, NEW url \in Seq(X), NEW out \in Seq(X), NEW more \in Seq(X), Begins(out, url)
  PROVE  Begins(out \o more, url)
<1>1. /\ Len(out \o more) = Len(out) + Len(more) /\ Len(out) \in Nat /\ Len(more) \in Nat /\ Len(url) \in Nat
      /\ \A i \in 1 .. Len(out) : (out \o more)[i] = out[i]
  BY ConcatProperties
<1> HIDE DEF Begins
<1>2. Len(url) <= Len(out) /\ \A n \in 1 .. Len(url) : out[n] = url[n]
  BY DEF Begins
<1> DEFINE all == out \o more
<1> HIDE DEF all
<1>3. Len(url) <= Len(all)
  BY <1>1, <1>2 DEF all
<1>4. \A n \in 1 .. Len(url) : all[n] = url[n]
  <2> TAKE n \in 1 .. Len(url)
  <2>1. n \in 1 .. Len(out)
    BY <1>1, <1>2
  <2> QED BY <1>1, <1>2, <2>1 DEF all
<1> QED BY <1>3, <1>4 DEF Begins, all

\* Where the layout is once its URL is there.
AfterUrlAt(d, layout, at, m, u) ==
  /\ u = Len(UrlLayout(d)) /\ u \in Nat /\ u >= 4 /\ u + 1 \in 1 .. Len(layout) /\ Len(layout) \in Nat
  /\ UrlAsLaid(layout, d) /\ at[u] = <<2, 0>> /\ layout[u + 1] = Section(HeadSection)
  /\ \A i \in u + 1 .. Len(layout) : at[i][1] >= 3

LEMMA UrlPlaced ==
  ASSUME NEW d, NEW f, NEW layout, NEW at, NEW m, NEW len, Speaks(d, f, layout, at, m, len)
  PROVE  AfterUrlAt(d, layout, at, m, Len(UrlLayout(d)))
<1> DEFINE u == Len(UrlLayout(d))
           head == HeadLayout(d)
           none == 0
<1>1. Described(d) /\ layout = LayoutOf(d) /\ Saying(m, layout, at, f, len) /\ Runs6(layout, at)
  BY DEF Speaks, Saying
<1>2. UrlAsLaid(layout, d)
  BY <1>1, UrlLaid
<1>3. Holding(layout, 0, UrlLayout(d)) /\ Holding(layout, u, AfterUrl(d)) /\ u <= Len(layout)
      /\ Len(layout) = u + Len(AfterUrl(d)) /\ u \in Nat /\ Len(layout) \in Nat /\ u = UrlFront(d) + Len(d.query)
  BY <1>2 DEF UrlAsLaid
<1>4. u >= 4
  <2>1. UrlFront(d) \in {4, 5}
    BY DEF UrlFront
  <2>2. d.query \in Seq(Parameters)
    BY <1>1 DEF Described
  <2> QED BY <1>3, <2>1, <2>2
<1>5. at[u] = <<2, 0>>
  <2> DEFINE p == <<0, 0>>
             q == <<2, 0>>
             url == UrlLayout(d)
  <2>1. Goes(url, p, q) /\ at[none] = p /\ Holding(layout, none, url)
    <3>1. Goes(url, p, q)
      BY <1>1, PartsGo
    <3>2. at[0] = p
      BY <1>1 DEF Runs6
    <3> QED BY <1>3, <3>1, <3>2
  <2> HIDE DEF p, q, none, url
  <2>2. at[none + Len(url)] = q
    BY <1>1, <2>1, AfterPart
  <2>3. none + Len(url) = u
    BY <1>3 DEF none, url
  <2> QED BY <2>2, <2>3 DEF q
<1>6. Len(head) >= 5 /\ head[1] = Section(HeadSection) /\ head \in Seq(Ops)
  BY <1>1, PartsGo DEF Heads, BeginsHead, Goes
<1>7. 1 \in 1 .. Len(AfterUrl(d)) /\ AfterUrl(d)[1] = Section(HeadSection)
  <2> DEFINE signed == SignedLayout(d)
             body == BodyLayout(d)
             rest == signed \o body
  <2>1. signed \in Seq(Ops) /\ body \in Seq(Ops)
    <3>1. signed = <<>> \/ signed \in Seq(Ops)
      BY <1>1, PartsGo DEF Signs, Goes
    <3>2. <<>> \in Seq(Ops) /\ body \in Seq(Ops)
      BY <1>1, PartsGo DEF Goes
    <3> QED BY <3>1, <3>2
  <2> HIDE DEF signed, body
  <2>2. rest \in Seq(Ops) /\ (head \o signed) \o body = head \o rest
    <3>1. head \in Seq(Ops)
      BY <1>6
    <3> HIDE DEF head
    <3>2. signed \o body \in Seq(Ops)
      BY <2>1, ConcatProperties
    <3>3. (head \o signed) \o body = head \o (signed \o body)
      BY <2>1, <3>1, ConcatAssociative
    <3> QED BY <3>2, <3>3
  <2> HIDE DEF rest
  <2>3. AfterUrl(d) = head \o rest
    BY <2>2 DEF AfterUrl, signed, body
  <2> HIDE DEF head
  <2>4. /\ Len(head \o rest) = Len(head) + Len(rest) /\ Len(head) \in Nat /\ Len(rest) \in Nat
        /\ \A i \in 1 .. Len(head) : (head \o rest)[i] = head[i]
    BY <1>6, <2>2, Placed
  <2> QED BY <1>6, <2>3, <2>4
<1>8. u + 1 \in 1 .. Len(layout) /\ layout[u + 1] = Section(HeadSection)
  <2> HIDE DEF u
  <2> QED BY <1>3, <1>7 DEF Holding
<1>9. ASSUME NEW i \in u + 1 .. Len(layout)
      PROVE  at[i][1] >= 3
  <2> DEFINE j == u + 1
  <2>1. j \in 0 .. Len(layout) /\ i \in 0 .. Len(layout) /\ j <= i /\ j - 1 = u /\ j \in 1 .. Len(layout)
    <3> HIDE DEF u
    <3> QED BY <1>3, <1>8
  <2> HIDE DEF j, u
  <2>2. at[j][1] = HeadSection
    <3>1. layout[j] = Section(HeadSection)
      BY <1>8 DEF j
    <3> QED BY <1>1, <1>3, <2>1, <3>1, SectionHere
  <2>3. at[j][1] <= at[i][1]
    BY <1>1, <2>1, SayingGoes
  <2> QED BY <2>2, <2>3 DEF HeadSection
<1> QED BY <1>2, <1>3, <1>4, <1>5, <1>8, <1>9 DEF AfterUrlAt

LEMMA UrlStays ==
  ASSUME NEW d, NEW f, NEW layout, NEW at, NEW m, NEW len, Speaks(d, f, layout, at, m, len),
         NEW u, u = Len(UrlLayout(d)), NEW i \in u + 1 .. Len(layout)
  PROVE  AfterTheUrl(d, f, m[i], len) /\ UrlWorded(d, f) /\ m[u].out = MeantUrl(d, f)
<1> DEFINE url == MeantUrl(d, f)
           k == Len(layout)
<1>1. Described(d) /\ Saying(m, layout, at, f, len) /\ m[0].out = <<>> /\ m[0].params = 0
  BY DEF Speaks
<1>2. AfterUrlAt(d, layout, at, m, u)
  BY UrlPlaced
<1>3. UrlAsLaid(layout, d) /\ u \in Nat /\ k \in Nat /\ u + 1 \in 1 .. k /\ at[u] = <<2, 0>>
      /\ layout[u + 1] = Section(HeadSection) /\ \A n \in u + 1 .. k : at[n][1] >= 3
  BY <1>2 DEF AfterUrlAt
<1>4. /\ m[u].out = url /\ UrlWorded(d, f)
      /\ \A n \in u .. k : /\ m[n].ends[OriginSection] = 2
                           /\ m[n].ends[PathSection] = 2 + Len(MeantPath(d, f))
  BY <1>1, <1>3, UrlSays
<1>5. url \in Said(len)
  BY <1>4, SaidIs DEF UrlWorded
<1> HIDE DEF url, k
<1> DEFINE S == {n \in 0 .. k : u <= n => Begins(m[n].out, url)}
<1>6. ASSUME NEW n \in 1 .. k, n - 1 \in S
      PROVE  n \in S
  <2>1. CASE n <= u
    <3>1. CASE n < u
      BY <1>3, <3>1
    <3>2. CASE n = u
      <4>1. Begins(url, url)
        BY <1>5 DEF Begins, Said
      <4> QED BY <1>3, <1>4, <3>2, <4>1
    <3> QED BY <1>3, <2>1, <3>1, <3>2
  <2>2. CASE n > u
    <3> DEFINE j == n - 1
               out == m[j].out
               more == Spoken(m[j], layout[n], f)
    <3>1. j \in Nat /\ n - 1 = j /\ Begins(out, url) /\ j >= u
      BY <1>3, <2>2, <1>6
    <3> HIDE DEF j
    <3>2. n \in 1 .. Len(layout)
      BY DEF k
    <3>3. NoParam(layout[n], at[j])
      <4>1. CASE j = u
        <5>1. n = u + 1
          BY <1>3, <3>1, <4>1
        <5> QED BY <1>3, <5>1 DEF Section, NoParam
      <4>2. CASE j > u
        <5>1. j \in u + 1 .. k
          BY <1>3, <3>1, <4>2
        <5>2. at[j][1] >= 3 /\ at[j] \in Stages
          <6>1. j \in 0 .. Len(layout)
            BY <1>3, <5>1 DEF k
          <6> QED BY <1>1, <1>3, <5>1, <6>1, SayingIs
        <5> QED BY <5>2 DEF Stages, QuerySection, NoParam
      <4> QED BY <1>3, <3>1, <4>1, <4>2
    <3>4. m[n].out = out \o more /\ more \in Said(len) /\ out \in Said(len)
      <4>1. Saying(m, layout, at, f, len) /\ j \in Nat /\ n \in 1 .. Len(layout) /\ n - 1 = j
        BY <1>1, <3>1, <3>2
      <4> HIDE DEF out, more, S
      <4>2. SpeaksOn(m[j], m[n], layout[n], f, len)
        BY <3>3, <4>1, SpokenIs
      <4> QED BY <4>2 DEF SpeaksOn, out, more
    <3> HIDE DEF more, out
    <3>5. Begins(out \o more, url)
      <4> DEFINE X == Told(len)
      <4>1. url \in Seq(X) /\ out \in Seq(X) /\ more \in Seq(X)
        BY <1>5, <3>4 DEF Said
      <4> HIDE DEF S, X
      <4>2. Begins(out, url)
        BY <3>1
      <4> QED BY <4>1, <4>2, BeginsMore
    <3>6. n \in 0 .. k /\ Begins(m[n].out, url)
      BY <3>4, <3>5
    <3> QED BY <3>6
  <2> QED BY <1>3, <2>1, <2>2
<1>7. 0 \in S
  <2>1. u > 0
    BY <1>2 DEF AfterUrlAt
  <2> QED BY <1>3, <2>1
<1>8. \A n \in 0 .. k : n \in S
  <2> HIDE DEF S
  <2> QED BY <1>3, <1>6, <1>7, Induction
<1>9. i \in 0 .. k /\ u <= i /\ i \in u .. k /\ i \in 0 .. Len(layout)
  BY <1>3 DEF k
<1>10. Begins(m[i].out, url)
  BY <1>8, <1>9
<1>11. m[i] \in Passes(len, FALSE)
  BY <1>1, <1>9, SayingIs
<1>12. m[i].out \in Said(len) /\ m[i].bodyLen = len
  BY <1>11 DEF Passes, PassRecords
<1>13. m[i].ends[QuerySection] = Len(url)
  <2> DEFINE s == QuerySection
  <2>1. s \in 0 .. Sections - 1 /\ at[u][1] <= s /\ s < at[u + 1][1] /\ u + 1 \in 1 .. Len(layout) /\ u + 1 <= i
    <3>1. at[u + 1][1] >= 3 /\ at[u + 1] \in Stages
      <4>1. u + 1 \in u + 1 .. k /\ u + 1 \in 0 .. Len(layout)
        BY <1>3 DEF k
      <4> QED BY <1>1, <1>3, <4>1, SayingIs
    <3>2. at[u + 1][1] \in Nat
      BY <3>1 DEF Stages
    <3>3. s = 2 /\ at[u][1] = 2
      BY <1>3 DEF QuerySection
    <3> QED BY <1>3, <3>1, <3>2, <3>3 DEF Sections, k
  <2> HIDE DEF s
  <2>2. m[i].ends[s] = Len(m[u].out)
    <3>1. u \in Nat /\ i \in 0 .. Len(layout) /\ Saying(m, layout, at, f, len)
      BY <1>1, <1>3, <1>9
    <3> QED BY <2>1, <3>1, EndAt
  <2> QED BY <1>4, <2>2 DEF s
<1> QED BY <1>4, <1>9, <1>10, <1>12, <1>13 DEF AfterTheUrl, url

LEMMA UrlAgain ==
  ASSUME NEW d, NEW f, NEW x, NEW len, AfterTheUrl(d, f, x, len), UrlWorded(d, f)
  PROVE  /\ Again(x, 2, Len(MeantUrl(d, f))) = MeantTarget(d, f)
         /\ Again(x, 2, 2 + Len(MeantPath(d, f))) = MeantPath(d, f)
         /\ Again(x, (2 + Len(MeantPath(d, f))) + 1, Len(MeantUrl(d, f))) = MeantQuery(d, f)
<1> DEFINE url == MeantUrl(d, f)
           path == MeantPath(d, f)
           query == MeantQuery(d, f)
           target == MeantTarget(d, f)
           host == HostText
           said == Queried(query)
           out == x.out
           none == <<>>
           mark == <<"?">>
<1>1. out \in Seq(Told(len)) /\ Begins(out, url)
  BY DEF AfterTheUrl, Said
<1>2. /\ path \in Seq(Words) /\ query \in Seq(Words) /\ target \in Seq(Words) /\ url \in Seq(Words)
      /\ host \in Seq(Words) /\ Len(host) = 2 /\ url = host \o target /\ target = path \o said
  BY DEF UrlWorded, Wording
<1>3. said \in Seq(Words) /\ none \in Seq(Words) /\ mark \in Seq(Words) /\ Len(mark) = 1
  <2>1. mark \in Seq(Words) /\ none \in Seq(Words) /\ Len(mark) = 1
    BY DEF Words
  <2> HIDE DEF query
  <2>2. mark \o query \in Seq(Words)
    <3> HIDE DEF mark
    <3> QED BY <1>2, <2>1, ConcatProperties
  <2> QED BY <2>1, <2>2 DEF Queried
<1>4. url \in Seq(Told(len))
  <2> HIDE DEF url
  <2> QED BY <1>2, SeqOfMore DEF Told
<1>5. (query = none => said = none) /\ (query # none => said = mark \o query)
  BY DEF Queried
<1> HIDE DEF url, path, query, target, host, said, out, none, mark
<1>14. /\ path \in Seq(Words) /\ query \in Seq(Words) /\ target \in Seq(Words) /\ url \in Seq(Words)
       /\ host \in Seq(Words) /\ said \in Seq(Words) /\ mark \in Seq(Words)
  BY <1>2, <1>3
<1>6. /\ Len(url) = 2 + Len(target) /\ Len(target) = Len(path) + Len(said)
      /\ Len(target) \in Nat /\ Len(path) \in Nat /\ Len(said) \in Nat /\ Len(query) \in Nat /\ Len(url) \in Nat
      /\ Len(host) = 2
  <2>1. Len(host \o target) = Len(host) + Len(target) /\ Len(target) \in Nat
    BY <1>14, ConcatProperties
  <2>2. Len(path \o said) = Len(path) + Len(said)
    BY <1>2, <1>3, ConcatProperties
  <2>3. Len(path) \in Nat /\ Len(said) \in Nat /\ Len(query) \in Nat /\ Len(url) \in Nat
    BY <1>2, <1>3
  <2> QED BY <1>2, <2>1, <2>2, <2>3
<1>7. \A a, b \in Nat : b <= Len(url) => Again(x, a, b) = SubSeq(url, a + 1, b)
  <2> TAKE a, b \in Nat
  <2>1. b <= Len(url) => SubSeq(out, a + 1, b) = SubSeq(url, a + 1, b)
    BY <1>1, <1>4, BeginsAlike
  <2> QED BY <2>1 DEF Again, out
<1>8. SubSeq(url, 2 + 1, Len(url)) = target
  <2>1. SubSeq((host \o target) \o <<>>, Len(host) + 1, Len(host) + Len(target)) = target
    BY <1>2, <1>3, Middle DEF none
  <2>2. (host \o target) \o <<>> = url
    <3>1. host \o target \in Seq(Words)
      BY <1>2
    <3> QED BY <1>2, <3>1, ConcatEmptySeq
  <2> QED BY <1>6, <2>1, <2>2
<1>9. SubSeq(url, 2 + 1, 2 + Len(path)) = path
  <2>1. SubSeq((host \o path) \o said, Len(host) + 1, Len(host) + Len(path)) = path
    BY <1>2, <1>3, Middle
  <2>2. (host \o path) \o said = url
    <3>1. (host \o path) \o said = host \o (path \o said)
      <4>1. host \in Seq(Words) /\ path \in Seq(Words) /\ said \in Seq(Words)
        BY <1>14
      <4> QED BY <4>1, ConcatAssociative
    <3> QED BY <1>2, <3>1
  <2> QED BY <1>6, <2>1, <2>2
<1>10. SubSeq(url, (2 + Len(path)) + 1 + 1, Len(url)) = query
  <2>1. CASE query = none
    <3>1. said = none /\ Len(said) = 0
      BY <1>5, <2>1 DEF none
    <3>2. Len(url) = 2 + Len(path)
      BY <1>6, <3>1
    <3> DEFINE b == 2 + Len(path)
               a == b + 1 + 1
    <3>3. b \in Nat /\ a > b /\ a \in Nat
      BY <1>6
    <3> HIDE DEF a, b
    <3>4. SubSeq(url, a, b) = <<>>
      BY <3>3
    <3> QED BY <2>1, <3>2, <3>4 DEF a, b, none
  <2>2. CASE query # none
    <3> DEFINE front == (host \o path) \o mark
    <3>1. front \in Seq(Words) /\ Len(front) = (2 + Len(path)) + 1
      <4>1. host \o path \in Seq(Words) /\ Len(host \o path) = Len(host) + Len(path)
        BY <1>2, ConcatProperties
      <4> DEFINE both == host \o path
      <4> HIDE DEF both
      <4>2. both \o mark \in Seq(Words) /\ Len(both \o mark) = Len(both) + Len(mark)
        BY <1>3, <4>1, ConcatProperties DEF both
      <4> QED BY <1>2, <1>3, <4>1, <4>2 DEF both
    <3>2. (front \o query) \o <<>> = url
      <4>1. said = mark \o query
        BY <1>5, <2>2
      <4>2. url = (host \o path) \o (mark \o query)
        <5>1. mark \o query \in Seq(Words)
          BY <1>3, <4>1
        <5>2. host \o (path \o (mark \o query)) = (host \o path) \o (mark \o query)
          <6> DEFINE more == mark \o query
          <6> HIDE DEF more
          <6>1. (host \o path) \o more = host \o (path \o more)
            <7>1. host \in Seq(Words) /\ path \in Seq(Words) /\ more \in Seq(Words)
              BY <1>14, <5>1 DEF more
            <7> QED BY <7>1, ConcatAssociative
          <6> QED BY <6>1 DEF more
        <5> QED BY <1>2, <4>1, <5>2
      <4>3. host \o path \in Seq(Words)
        BY <1>2, ConcatProperties
      <4>4. url = front \o query
        <5> DEFINE both == host \o path
        <5>1. both \in Seq(Words)
          BY <4>3
        <5> HIDE DEF both
        <5>2. (both \o mark) \o query = both \o (mark \o query)
          <6>1. both \in Seq(Words) /\ mark \in Seq(Words) /\ query \in Seq(Words)
            BY <1>14, <5>1
          <6> QED BY <6>1, ConcatAssociative
        <5> QED BY <4>2, <5>2 DEF both
      <4>5. front \o query \in Seq(Words)
        BY <1>2, <4>4
      <4> HIDE DEF front
      <4> QED BY <4>4, <4>5, ConcatEmptySeq
    <3> HIDE DEF front
    <3>3. SubSeq((front \o query) \o <<>>, Len(front) + 1, Len(front) + Len(query)) = query
      BY <1>2, <1>3, <3>1, Middle DEF none
    <3>4. Len(url) = Len(front) + Len(query)
      <4>1. Len(said) = 1 + Len(query)
        <5>1. Len(mark \o query) = Len(mark) + Len(query)
          BY <1>2, <1>3, ConcatProperties
        <5> QED BY <1>3, <1>5, <2>2, <5>1
      <4> QED BY <1>6, <3>1, <4>1
    <3> QED BY <3>1, <3>2, <3>3, <3>4
  <2> QED BY <2>1, <2>2
<1>11. Again(x, 2, Len(url)) = target
  <2> DEFINE a == 2
             b == Len(url)
  <2>1. a \in Nat /\ b \in Nat /\ b <= Len(url)
    BY <1>6
  <2>2. SubSeq(url, a + 1, b) = target
    BY <1>8
  <2> HIDE DEF a, b
  <2>3. Again(x, a, b) = target
    BY <1>7, <2>1, <2>2
  <2> QED BY <2>3 DEF a, b
<1>12. Again(x, 2, 2 + Len(path)) = path
  <2> DEFINE a == 2
             b == 2 + Len(path)
  <2>1. a \in Nat /\ b \in Nat /\ b <= Len(url)
    BY <1>6
  <2>2. SubSeq(url, a + 1, b) = path
    BY <1>9
  <2> HIDE DEF a, b
  <2>3. Again(x, a, b) = path
    BY <1>7, <2>1, <2>2
  <2> QED BY <2>3 DEF a, b
<1>13. Again(x, (2 + Len(path)) + 1, Len(url)) = query
  <2> DEFINE a == (2 + Len(path)) + 1
             b == Len(url)
  <2>1. a \in Nat /\ b \in Nat /\ b <= Len(url)
    BY <1>6
  <2>2. SubSeq(url, a + 1, b) = query
    BY <1>10
  <2> HIDE DEF a, b
  <2>3. Again(x, a, b) = query
    BY <1>7, <2>1, <2>2
  <2> QED BY <2>3 DEF a, b
<1> QED BY <1>11, <1>12, <1>13 DEF url, path, query, target

LEMMA HoleMeant ==
  ASSUME NEW d, NEW f, NEW x, NEW len, AfterTheUrl(d, f, x, len), UrlWorded(d, f),
         len = Len(MeantBody(d, f)), NEW hole, hole \notin OptionalHoles \cup {"Separator"}
  PROVE  HoleText(x, hole, <<>>, f) = MeantHole(hole, d, f)
<1> DEFINE said == HoleText(x, hole, <<>>, f)
           meant == MeantHole(hole, d, f)
<1>1. /\ Again(x, 2, Len(MeantUrl(d, f))) = MeantTarget(d, f)
      /\ Again(x, 2, 2 + Len(MeantPath(d, f))) = MeantPath(d, f)
      /\ Again(x, (2 + Len(MeantPath(d, f))) + 1, Len(MeantUrl(d, f))) = MeantQuery(d, f)
  BY UrlAgain
<1>2. /\ x.bodyLen = len /\ x.ends[OriginSection] = 2 /\ x.ends[PathSection] = 2 + Len(MeantPath(d, f))
      /\ x.ends[QuerySection] = Len(MeantUrl(d, f))
  BY DEF AfterTheUrl
<1>3. CASE hole = "Target"
  <2>1. said = Again(x, x.ends[OriginSection], x.ends[QuerySection])
    BY <1>3 DEF HoleText
  <2>2. meant = MeantTarget(d, f)
    BY <1>3 DEF MeantHole
  <2> HIDE DEF said, meant
  <2> QED BY <1>1, <1>2, <2>1, <2>2 DEF said, meant
<1>4. CASE hole = "Path"
  <2>1. said = Again(x, x.ends[OriginSection], x.ends[PathSection])
    BY <1>4 DEF HoleText
  <2>2. meant = MeantPath(d, f)
    BY <1>4 DEF MeantHole
  <2> HIDE DEF said, meant
  <2> QED BY <1>1, <1>2, <2>1, <2>2 DEF said, meant
<1>5. CASE hole = "Query"
  <2>1. said = Again(x, x.ends[PathSection] + 1, x.ends[QuerySection])
    BY <1>5 DEF HoleText
  <2>2. meant = MeantQuery(d, f)
    BY <1>5 DEF MeantHole
  <2> HIDE DEF said, meant
  <2> QED BY <1>1, <1>2, <2>1, <2>2 DEF said, meant
<1>6. CASE hole = "BodyLength"
  <2>1. said = Decimal(x.bodyLen)
    BY <1>6 DEF HoleText
  <2>2. meant = Decimal(Len(MeantBody(d, f)))
    BY <1>6 DEF MeantHole
  <2> QED BY <1>2, <2>1, <2>2
<1>7. CASE hole \in {"Signature", "BodyHash", "BodyChecksum"}
  <2>1. CASE hole = "Signature"
    BY <2>1 DEF HoleText, MeantHole
  <2>2. CASE hole = "BodyHash"
    BY <2>2 DEF HoleText, MeantHole
  <2>3. CASE hole = "BodyChecksum"
    BY <2>3 DEF HoleText, MeantHole
  <2> QED BY <1>7, <2>1, <2>2, <2>3
<1>8. CASE hole = "Body"
  <2>1. hole \notin OptionalHoles
    OBVIOUS
  <2> QED BY <1>8, <2>1 DEF HoleText, MeantHole
<1>9. CASE hole \notin {"Target", "Path", "Query", "BodyLength", "Signature", "BodyHash", "BodyChecksum", "Body"}
  <2>1. said = ValueText(hole, f)
    BY <1>9 DEF HoleText
  <2>2. meant = ValueText(hole, f)
    BY <1>9 DEF MeantHole
  <2> QED BY <2>1, <2>2
<1> QED BY <1>3, <1>4, <1>5, <1>6, <1>7, <1>8, <1>9

\* What one operation means, and those after the URL.
Meaning(op, d, f) ==
  CASE op.op = "text" -> op.text
    [] op.op = "hole" -> MeantHole(op.hole, d, f)
    [] OTHER          -> <<>>
Meanings(d, f) == [n \in DOMAIN AfterUrl(d) |-> Meaning(AfterUrl(d)[n], d, f)]

\* An operation says what it means.
MeansOn(x, y, text, len) == y.out = x.out \o text /\ text \in Said(len) /\ x.out \in Said(len)

LEMMA PieceMeant ==
  ASSUME NEW d, NEW f, NEW layout, NEW at, NEW m, NEW len, Speaks(d, f, layout, at, m, len),
         NEW u, u = Len(UrlLayout(d)), NEW i \in u + 1 .. Len(layout), NEW j, j = i - 1
  PROVE  MeansOn(m[j], m[i], Meaning(layout[i], d, f), len)
<1> DEFINE op == layout[i]
           x == m[j]
<1>1. Saying(m, layout, at, f, len) /\ len = Len(MeantBody(d, f))
  BY DEF Speaks
<1>2. AfterUrlAt(d, layout, at, m, u)
  BY UrlPlaced
<1>3. /\ u \in Nat /\ u >= 4 /\ u + 1 \in 1 .. Len(layout) /\ Len(layout) \in Nat
      /\ layout[u + 1] = Section(HeadSection) /\ \A n \in u + 1 .. Len(layout) : at[n][1] >= 3
  BY <1>2 DEF AfterUrlAt
<1>4. j \in Nat /\ i \in 1 .. Len(layout) /\ i - 1 = j /\ j >= u
  BY <1>3
<1>5. NoParam(op, at[j])
  <2>1. CASE j = u
    <3>1. i = u + 1
      BY <1>4, <2>1
    <3> QED BY <1>3, <3>1 DEF Section, NoParam
  <2>2. CASE j > u
    <3>1. j \in u + 1 .. Len(layout) /\ j \in 0 .. Len(layout)
      BY <1>3, <1>4, <2>2
    <3>2. at[j][1] >= 3 /\ at[j] \in Stages
      BY <1>1, <1>3, <3>1, SayingIs
    <3> QED BY <3>2 DEF Stages, QuerySection, NoParam
  <2> QED BY <1>3, <1>4, <2>1, <2>2
<1>6. SpeaksOn(m[j], m[i], layout[i], f, len)
  <2>1. NoParam(layout[i], at[j])
    BY <1>5
  <2> QED BY <1>1, <1>4, <2>1, SpokenIs
<1>7. Spoken(x, op, f) = Meaning(op, d, f)
  <2>1. CASE op.op = "hole"
    <3> DEFINE hole == op.hole
    <3>1. j \in u + 1 .. Len(layout)
      <4>1. j # u
        <5>1. ASSUME j = u
              PROVE  FALSE
          <6>1. i = u + 1
            BY <1>4, <5>1
          <6> QED BY <1>3, <2>1, <6>1 DEF Section
        <5> QED BY <5>1
      <4> QED BY <1>3, <1>4, <4>1
    <3>2. AfterTheUrl(d, f, m[j], len) /\ UrlWorded(d, f)
      BY <3>1, UrlStays
    <3>3. hole \notin OptionalHoles \cup {"Separator"}
      <4>1. Proper(layout[i])
        BY <1>1, <1>4, SayingIs
      <4> QED BY <2>1, <4>1 DEF Proper
    <3>4. HoleText(x, hole, <<>>, f) = MeantHole(hole, d, f)
      <4> HIDE DEF x, hole
      <4>1. AfterTheUrl(d, f, x, len)
        BY <3>2 DEF x
      <4> QED BY <1>1, <3>2, <3>3, <4>1, HoleMeant
    <3>5. Spoken(x, op, f) = HoleText(x, hole, <<>>, f)
      BY <2>1 DEF Spoken
    <3>6. Meaning(op, d, f) = MeantHole(hole, d, f)
      BY <2>1 DEF Meaning
    <3> QED BY <3>4, <3>5, <3>6
  <2>2. CASE op.op # "hole"
    BY <2>2 DEF Spoken, Meaning
  <2> QED BY <2>1, <2>2
<1> QED BY <1>6, <1>7 DEF SpeaksOn, MeansOn

\* Where the text of each operation after the URL starts.
SaidSoFar(d, f, layout, m, u, g, len) ==
  /\ Meanings(d, f) \in Seq(Said(len)) /\ Len(Meanings(d, f)) = Len(AfterUrl(d))
  /\ Joins(g, Meanings(d, f), Told(len)) /\ MeantUrl(d, f) \in Said(len)
  /\ \A n \in 0 .. Len(AfterUrl(d)) : m[u + n].out = MeantUrl(d, f) \o g[n]

LEMMA WholeSays ==
  ASSUME NEW d, NEW f, NEW layout, NEW at, NEW m, NEW len, Speaks(d, f, layout, at, m, len),
         NEW u, u = Len(UrlLayout(d))
  PROVE  \E g : SaidSoFar(d, f, layout, m, u, g, len)
<1> DEFINE after == AfterUrl(d)
           a == Len(after)
           url == MeantUrl(d, f)
           all == Meanings(d, f)
<1>1. /\ u \in Nat /\ u + 1 \in 1 .. Len(layout) /\ Len(layout) \in Nat /\ UrlAsLaid(layout, d)
  <2>1. AfterUrlAt(d, layout, at, m, u)
    BY UrlPlaced
  <2> QED BY <2>1 DEF AfterUrlAt
<1>2. Len(layout) = u + a /\ a \in Nat /\ \A n \in 1 .. a : layout[u + n] = after[n]
  BY <1>1 DEF UrlAsLaid, Holding
<1>3. DOMAIN after = 1 .. a
  <2>1. after \in Seq(Ops)
    <3>1. HeadLayout(d) \in Seq(Ops) /\ BodyLayout(d) \in Seq(Ops) /\ SignedLayout(d) \in Seq(Ops)
      <4>1. Described(d)
        BY DEF Speaks
      <4>2. HeadLayout(d) \in Seq(Ops) /\ BodyLayout(d) \in Seq(Ops)
        BY <4>1, PartsGo DEF Heads, BeginsHead, Goes
      <4>3. SignedLayout(d) = <<>> \/ SignedLayout(d) \in Seq(Ops)
        BY <4>1, PartsGo DEF Signs, Goes
      <4>4. <<>> \in Seq(Ops)
        OBVIOUS
      <4> QED BY <4>2, <4>3, <4>4
    <3> QED BY <3>1 DEF AfterUrl
  <2> QED BY <2>1
<1>4. ASSUME NEW n \in 1 .. a
      PROVE  MeansOn(m[u + (n - 1)], m[u + n], all[n], len)
  <2> DEFINE i == u + n
             j == i - 1
  <2>1. i \in u + 1 .. Len(layout) /\ j = u + (n - 1)
    BY <1>1, <1>2
  <2>2. all[n] = Meaning(after[n], d, f)
    BY <1>3 DEF Meanings
  <2>3. layout[i] = after[n]
    BY <1>2
  <2> HIDE DEF i, all, after
  <2>4. MeansOn(m[j], m[i], Meaning(layout[i], d, f), len)
    BY <2>1, PieceMeant
  <2> QED BY <2>1, <2>2, <2>3, <2>4 DEF i
<1>5. url \in Said(len) /\ m[u].out = url
  <2>1. u + 1 \in u + 1 .. Len(layout)
    BY <1>1
  <2>2. UrlWorded(d, f) /\ m[u].out = url
    BY <2>1, UrlStays
  <2> QED BY <2>2, SaidIs DEF UrlWorded
<1>6. all \in Seq(Said(len)) /\ Len(all) = a
  <2>1. DOMAIN all = 1 .. a
    BY <1>3 DEF Meanings
  <2>2. \A n \in 1 .. a : all[n] \in Said(len)
    BY <1>4 DEF MeansOn
  <2>3. all = [n \in 1 .. a |-> all[n]]
    BY <1>3 DEF Meanings
  <2> HIDE DEF all
  <2>4. all \in [1 .. a -> Said(len)]
    BY <2>2, <2>3
  <2> QED BY <1>2, <2>4, FunctionIsSeq
<1> HIDE DEF all, url
<1>7. PICK g : Joins(g, all, Told(len))
  BY <1>6, JoinExists DEF Said
<1>8. /\ g[0] = <<>> /\ \A i \in 1 .. a : g[i] = g[i - 1] \o all[i]
      /\ \A i \in 0 .. a : g[i] \in Said(len)
  BY <1>6, <1>7 DEF Joins, Said
<1> DEFINE S == {n \in 0 .. a : m[u + n].out = url \o g[n]}
<1>9. 0 \in S
  <2>1. url \o <<>> = url
    BY <1>5, ConcatEmptySeq DEF Said
  <2>2. u + 0 = u
    BY <1>1
  <2>3. url \o g[0] = url
    BY <1>8, <2>1
  <2>4. m[u + 0].out = url
    BY <1>5, <2>2
  <2>5. 0 \in 0 .. a
    BY <1>2
  <2> QED BY <2>3, <2>4, <2>5
<1>10. ASSUME NEW n \in 1 .. a, n - 1 \in S
       PROVE  n \in S
  <2> DEFINE had == g[n - 1]
             more == all[n]
             next == g[n]
             x == m[u + (n - 1)]
  <2>1. x.out = url \o had
    BY <1>10
  <2>2. next = had \o more /\ had \in Said(len)
    <3>1. n - 1 \in 0 .. a
      BY <1>2
    <3> QED BY <1>8, <3>1
  <2>3. m[u + n].out = x.out \o more /\ more \in Said(len)
    BY <1>4 DEF MeansOn
  <2> HIDE DEF had, more, next, x
  <2> DEFINE X == Told(len)
  <2>4. url \in Seq(X) /\ had \in Seq(X) /\ more \in Seq(X)
    BY <1>5, <2>2, <2>3 DEF Said
  <2> HIDE DEF X
  <2>5. (url \o had) \o more = url \o (had \o more)
    BY <2>4, ConcatAssociative
  <2>6. m[u + n].out = url \o next
    BY <2>1, <2>2, <2>3, <2>5
  <2> QED BY <1>2, <2>6 DEF next
<1>11. \A n \in 0 .. a : n \in S
  <2> HIDE DEF S
  <2> QED BY <1>2, <1>9, <1>10, Induction
<1>12. \A n \in 0 .. a : m[u + n].out = url \o g[n]
  BY <1>11
<1> QED BY <1>5, <1>6, <1>7, <1>12 DEF SaidSoFar, url, all

-----------------------------------------------------------------------------
(* Where the parts of a request are.                                        *)

\* The operations after the URL: a head, what is signed of it, and the body.
PartsPlaced(d, after, h, c) ==
  /\ h \in Nat /\ c \in Nat /\ h > 5 /\ Len(after) \in Nat /\ h + c < Len(after)
  /\ after \in Seq(Ops)
  /\ after[1] = Section(HeadSection) /\ after[5] = Fields /\ after[h] = Text(CRLF)
  /\ after[h + c + 1] = Section(BodySection)
  /\ d.service = "s3" => after[h + 1] = Section(CanonicalSection) /\ c >= 1
  /\ d.service # "s3" => c = 0

LEMMA PartsLaid ==
  ASSUME NEW d, Described(d), NEW h, h = Len(HeadLayout(d)), NEW c, c = Len(SignedLayout(d))
  PROVE  /\ PartsPlaced(d, AfterUrl(d), h, c)
         /\ Holding(AfterUrl(d), 0, HeadLayout(d)) /\ Holding(AfterUrl(d), h, SignedLayout(d))
         /\ HeadLayout(d) \in Seq(Ops) /\ SignedLayout(d) \in Seq(Ops)
<1> DEFINE head == HeadLayout(d)
           signed == SignedLayout(d)
           body == BodyLayout(d)
           both == head \o signed
           after == both \o body
           rest == Tail(body)
           first == <<Section(BodySection)>>
<1>1. head \in Seq(Ops) /\ h > 5 /\ head[1] = Section(HeadSection) /\ head[5] = Fields /\ head[h] = Text(CRLF)
  BY PartsGo DEF Heads, BeginsHead, Goes
<1>2. signed \in Seq(Ops) /\ (d.service = "s3" => c >= 1 /\ signed[1] = Section(CanonicalSection))
      /\ (d.service # "s3" => c = 0)
  <2>1. CASE d.service = "s3"
    BY <2>1, PartsGo DEF Signs, Goes
  <2>2. CASE d.service # "s3"
    <3>1. signed = <<>>
      BY <2>2, PartsGo
    <3>2. <<>> \in Seq(Ops) /\ Len(<<>>) = 0
      OBVIOUS
    <3> QED BY <2>2, <3>1, <3>2
  <2> QED BY <2>1, <2>2
<1>3. body \in Seq(Ops) /\ Len(body) >= 1 /\ body[1] = Section(BodySection)
  <2>1. body = first \o rest /\ rest \in Seq(Still)
    BY PartsGo
  <2>2. rest \in Seq(Ops) /\ first \in Seq(Ops) /\ Len(first) = 1 /\ first[1] = Section(BodySection)
    <3>1. rest \in Seq(Ops)
      BY <2>1, OpIs, SeqOfMore
    <3>2. Section(BodySection) \in Ops
      BY OpIs DEF BodySection, Sections
    <3>3. first \in Seq(Ops) /\ Len(first) = 1 /\ first[1] = Section(BodySection)
      BY <3>2, Few
    <3> QED BY <3>1, <3>3
  <2> HIDE DEF first, rest, body
  <2>3. /\ first \o rest \in Seq(Ops) /\ Len(first \o rest) = Len(first) + Len(rest)
        /\ \A i \in 1 .. Len(first) : (first \o rest)[i] = first[i]
        /\ Len(first) \in Nat /\ Len(rest) \in Nat
    BY <2>2, Placed
  <2> QED BY <2>1, <2>2, <2>3
<1> HIDE DEF head, signed, body
<1>4. h \in Nat /\ c \in Nat /\ Len(body) \in Nat /\ h = Len(head) /\ c = Len(signed)
  BY <1>1, <1>2, <1>3 DEF head, signed
<1>5. /\ both \in Seq(Ops) /\ Len(both) = h + c
      /\ \A i \in 1 .. h : both[i] = head[i]
      /\ \A i \in 1 .. c : both[h + i] = signed[i]
  <2>1. head \in Seq(Ops) /\ signed \in Seq(Ops)
    BY <1>1, <1>2
  <2>2. /\ both \in Seq(Ops) /\ Len(both) = Len(head) + Len(signed)
        /\ \A i \in 1 .. Len(head) : both[i] = head[i]
        /\ \A i \in 1 .. Len(signed) : both[Len(head) + i] = signed[i]
    BY <2>1, Placed
  <2> HIDE DEF both
  <2> QED BY <1>4, <2>2
<1> HIDE DEF both
<1>6. /\ after \in Seq(Ops) /\ Len(after) = (h + c) + Len(body)
      /\ \A i \in 1 .. h + c : after[i] = both[i]
      /\ \A i \in 1 .. Len(body) : after[(h + c) + i] = body[i]
  <2>1. both \in Seq(Ops) /\ body \in Seq(Ops)
    BY <1>3, <1>5
  <2>2. /\ after \in Seq(Ops) /\ Len(after) = Len(both) + Len(body)
        /\ \A i \in 1 .. Len(both) : after[i] = both[i]
        /\ \A i \in 1 .. Len(body) : after[Len(both) + i] = body[i]
    BY <2>1, Placed
  <2> HIDE DEF after
  <2> QED BY <1>4, <1>5, <2>2
<1>7. after = AfterUrl(d)
  BY DEF AfterUrl, both, head, signed, body
<1> HIDE DEF after
<1>8. Len(after) \in Nat /\ h + c < Len(after)
  BY <1>3, <1>4, <1>6
<1>9. \A i \in 1 .. h : after[i] = head[i]
  <2> TAKE i \in 1 .. h
  <2>1. i \in 1 .. h + c
    BY <1>4
  <2> QED BY <1>5, <1>6, <2>1
<1>10. \A i \in 1 .. c : after[h + i] = signed[i]
  <2> TAKE i \in 1 .. c
  <2>1. h + i \in 1 .. h + c
    BY <1>4
  <2> QED BY <1>5, <1>6, <2>1
<1>11. Holding(after, 0, head) /\ Holding(after, h, signed)
  <2>1. 0 + Len(head) <= Len(after) /\ h + Len(signed) <= Len(after)
    BY <1>4, <1>8
  <2>2. \A i \in 1 .. Len(head) : after[0 + i] = head[i]
    <3> TAKE i \in 1 .. Len(head)
    <3>1. 0 + i = i /\ i \in 1 .. h
      BY <1>4
    <3> QED BY <1>9, <3>1
  <2> QED BY <1>4, <1>10, <2>1, <2>2 DEF Holding
<1>12. after[1] = Section(HeadSection) /\ after[5] = Fields /\ after[h] = Text(CRLF)
  <2>1. 1 \in 1 .. h /\ 5 \in 1 .. h /\ h \in 1 .. h
    BY <1>1, <1>4
  <2> QED BY <1>1, <1>9, <2>1
<1>13. after[h + c + 1] = Section(BodySection)
  <2>1. 1 \in 1 .. Len(body) /\ (h + c) + 1 = h + c + 1
    BY <1>3, <1>4
  <2> QED BY <1>3, <1>6, <2>1
<1>14. d.service = "s3" => after[h + 1] = Section(CanonicalSection) /\ c >= 1
  <2>1. d.service = "s3" => 1 \in 1 .. c
    BY <1>2, <1>4
  <2> QED BY <1>2, <1>10, <2>1
<1>15. PartsPlaced(d, after, h, c)
  BY <1>1, <1>2, <1>4, <1>6, <1>8, <1>12, <1>13, <1>14 DEF PartsPlaced
<1> QED BY <1>1, <1>2, <1>7, <1>11, <1>15 DEF head, signed

LEMMA HoldingOn ==
  ASSUME NEW layout, NEW n, NEW after, Holding(layout, n, after), NEW k, NEW part, Holding(after, k, part)
  PROVE  Holding(layout, n + k, part)
<1>1. /\ n \in Nat /\ Len(after) \in Nat /\ n + Len(after) <= Len(layout) /\ k \in Nat /\ Len(part) \in Nat
      /\ k + Len(part) <= Len(after)
      /\ \A i \in 1 .. Len(after) : layout[n + i] = after[i]
      /\ \A i \in 1 .. Len(part) : after[k + i] = part[i]
  BY DEF Holding
<1>2. \A i \in 1 .. Len(part) : layout[(n + k) + i] = part[i]
  <2> TAKE i \in 1 .. Len(part)
  <2>1. k + i \in 1 .. Len(after) /\ n + (k + i) = (n + k) + i
    BY <1>1
  <2> QED BY <1>1, <2>1
<1>3. n + k \in Nat /\ (n + k) + Len(part) <= Len(layout)
  <2>1. Len(layout) >= n + Len(after)
    BY <1>1
  <2> DEFINE a == Len(layout)
             b == Len(after)
             e == Len(part)
  <2>2. n \in Nat /\ k \in Nat /\ b \in Nat /\ e \in Nat /\ n + b <= a /\ k + e <= b
    BY <1>1
  <2> QED BY <1>1, <2>2
<1> QED BY <1>1, <1>2, <1>3 DEF Holding

-----------------------------------------------------------------------------
(* What a request means, by what its layout says.                           *)

MeantTold(meant, d, f, m, u, after) ==
  /\ meant.text = m[u + Len(after)].out /\ meant.url = Len(MeantUrl(d, f)) /\ meant.ops = after
  /\ \A n \in 1 .. Len(after) : meant.starts[n] = Len(m[u + (n - 1)].out)

LEMMA MeantIs ==
  ASSUME NEW d, NEW f, NEW layout, NEW m, NEW u, NEW g, NEW len, SaidSoFar(d, f, layout, m, u, g, len),
         Len(AfterUrl(d)) \in Nat
  PROVE  MeantTold(Meant(d, f), d, f, m, u, AfterUrl(d))
<1> DEFINE after == AfterUrl(d)
           a == Len(after)
           url == MeantUrl(d, f)
           all == Meanings(d, f)
           meant == Meant(d, f)
           X == Told(len)
<1>1. /\ all \in Seq(Seq(X)) /\ Len(all) = a /\ Joins(g, all, X) /\ url \in Seq(X) /\ a \in Nat
      /\ \A n \in 0 .. a : m[u + n].out = url \o g[n]
  BY DEF SaidSoFar, Said
<1>2. \A n \in 0 .. a : g[n] \in Seq(X)
  BY <1>1 DEF Joins
<1>3. all = [n \in DOMAIN after |->
               CASE after[n].op = "text" -> after[n].text
                 [] after[n].op = "hole" -> MeantHole(after[n].hole, d, f)
                 [] OTHER          -> <<>>]
  BY Zenon DEF Meanings, Meaning
<1>4. meant = [text   |-> url \o FlattenSeq(all),
               url    |-> Len(url),
               ops    |-> after,
               starts |-> [n \in 1 .. Len(after) + 1 |->
                             Len(url) + Len(FlattenSeq(SubSeq(all, 1, n - 1)))]]
  BY Zenon, <1>3 DEF Meant
<1> HIDE DEF after, url, all, meant, X
<1>5. FlattenSeq(all) = g[a]
  BY <1>1, JoinIs
<1>6. meant.text = m[u + a].out
  <2>1. meant.text = url \o g[a]
    BY <1>4, <1>5
  <2>2. a \in 0 .. a
    BY <1>1
  <2> QED BY <1>1, <2>1, <2>2
<1>7. ASSUME NEW n \in 1 .. a
      PROVE  meant.starts[n] = Len(m[u + (n - 1)].out)
  <2> DEFINE k == n - 1
  <2>1. k \in 0 .. Len(all) /\ k \in 0 .. a /\ n \in 1 .. Len(after) + 1
    BY <1>1
  <2> HIDE DEF k
  <2>2. FlattenSeq(SubSeq(all, 1, k)) = g[k]
    BY <1>1, <2>1, JoinPart
  <2>3. meant.starts[n] = Len(url) + Len(g[k])
    <3>1. meant.starts = [i \in 1 .. Len(after) + 1 |->
                             Len(url) + Len(FlattenSeq(SubSeq(all, 1, i - 1)))]
      BY <1>4
    <3>2. meant.starts[n] = Len(url) + Len(FlattenSeq(SubSeq(all, 1, n - 1)))
      <4> HIDE DEF a
      <4> QED BY <2>1, <3>1
    <3> QED BY <2>2, <3>2 DEF k
  <2>4. Len(url \o g[k]) = Len(url) + Len(g[k])
    <3> DEFINE part == g[k]
    <3>1. part \in Seq(X) /\ url \in Seq(X)
      BY <1>1, <1>2, <2>1
    <3> HIDE DEF part
    <3>2. Len(url \o part) = Len(url) + Len(part)
      BY <3>1, ConcatProperties
    <3> QED BY <3>2 DEF part
  <2>5. m[u + k].out = url \o g[k]
    BY <1>1, <2>1
  <2> QED BY <2>3, <2>4, <2>5 DEF k
<1>8. meant.url = Len(url) /\ meant.ops = after
  BY <1>4
<1> QED BY <1>6, <1>7, <1>8 DEF MeantTold, meant, url, after

LEMMA FirstStart ==
  ASSUME NEW meant, NEW after \in Seq(Ops), meant.ops = after, NEW ops, NEW n \in 1 .. Len(after),
         after[n] \in ops, \A e \in 1 .. n - 1 : after[e] \notin ops
  PROVE  StartOf(ops, meant) = meant.starts[n]
<1> DEFINE First(i) == meant.ops[i] \in ops /\ \A earlier \in 1 .. i - 1 : meant.ops[earlier] \notin ops
           places == DOMAIN meant.ops
<1>1. places = 1 .. Len(after) /\ Len(after) \in Nat
  OBVIOUS
<1>2. First(n) /\ n \in places
  BY <1>1
<1>3. \A i \in places : First(i) => i = n
  <2> SUFFICES ASSUME NEW i \in places, First(i)
               PROVE  i = n
    OBVIOUS
  <2>1. ~ i < n
    <3>1. i < n => i \in 1 .. n - 1
      BY <1>1
    <3> QED BY <3>1
  <2>2. ~ n < i
    <3>1. n < i => n \in 1 .. i - 1
      BY <1>1
    <3> QED BY <3>1
  <2> QED BY <1>1, <2>1, <2>2
<1>4. (CHOOSE i \in places : First(i)) = n
  <2> HIDE DEF First, places
  <2> QED BY <1>2, <1>3
<1> QED BY <1>4 DEF StartOf

\* The n-th operation begins section s, or one after it where s has none.
BeginsSection(at, u, after, n, s, t, j) ==
  /\ n \in 1 .. Len(after) /\ s \in 0 .. Sections - 1 /\ t \in s .. Sections - 1
  /\ after[n] = Section(t) /\ j = u + (n - 1) /\ at[j][1] < s
StartsWith(s, meant, x) == StartOf(From(s), meant) = Len(x.out)

\* Where a section starts whose operation is the first not to come before it.
LEMMA StartOfSection ==
  ASSUME NEW d, NEW f, NEW layout, NEW at, NEW m, NEW len, Saying(m, layout, at, f, len),
         NEW u \in Nat, NEW after \in Seq(Ops), Holding(layout, u, after),
         NEW meant, MeantTold(meant, d, f, m, u, after),
         NEW n, NEW s, NEW t, NEW j, BeginsSection(at, u, after, n, s, t, j)
  PROVE  StartsWith(s, meant, m[j])
<1>0. /\ n \in 1 .. Len(after) /\ s \in 0 .. Sections - 1 /\ t \in s .. Sections - 1
      /\ after[n] = Section(t) /\ j = u + (n - 1) /\ at[j][1] < s
  BY DEF BeginsSection
<1>1. /\ Len(after) \in Nat /\ u + Len(after) <= Len(layout) /\ Len(layout) \in Nat
      /\ \A i \in 1 .. Len(after) : layout[u + i] = after[i]
  <2>1. Len(layout) \in Nat
    BY SayingIs
  <2> QED BY <2>1 DEF Holding
<1>2. after[n] \in From(s)
  BY <1>0 DEF From
<1>3. ASSUME NEW e \in 1 .. n - 1, after[e] \in From(s)
      PROVE  FALSE
  <2> DEFINE i == u + e
             k == i - 1
  <2>1. PICK later \in s .. Sections - 1 : after[e] = Section(later)
    BY <1>3 DEF From
  <2>2. /\ i \in 1 .. Len(layout) /\ i \in 0 .. Len(layout) /\ j \in 0 .. Len(layout) /\ i <= j
        /\ k \in Nat /\ i - 1 = k /\ layout[i] = Section(later)
    <3>1. e \in 1 .. Len(after) /\ layout[i] = Section(later)
      <4>1. n \in 1 .. Len(after) /\ e \in 1 .. n - 1 /\ Len(after) \in Nat
        BY <1>0, <1>1
      <4>2. e \in 1 .. Len(after)
        BY <4>1
      <4>3. layout[i] = after[e]
        BY <1>1, <4>2
      <4> QED BY <2>1, <4>2, <4>3
    <3>2. i \in 1 .. Len(layout) /\ i \in 0 .. Len(layout) /\ j \in 0 .. Len(layout) /\ i <= j
          /\ k \in Nat /\ i - 1 = k
      BY <1>0, <1>1, <3>1
    <3> QED BY <3>1, <3>2
  <2> HIDE DEF i, k
  <2>3. at[i][1] = later
    <3>1. Moves(layout[i], at[i - 1], at[i])
      BY <2>2, SayingIs
    <3> QED BY <2>2, <3>1 DEF Moves, Section
  <2>4. at[i][1] <= at[j][1]
    BY <2>2, SayingGoes
  <2>5. at[j] \in Stages
    BY <2>2, SayingIs
  <2> DEFINE b == at[j][1]
  <2>6. b \in Nat /\ later <= b /\ b < s
    BY <1>0, <2>3, <2>4, <2>5 DEF Stages
  <2> HIDE DEF b
  <2> QED BY <1>0, <2>6 DEF Sections
<1>4. meant.ops = after /\ meant.starts[n] = Len(m[j].out)
  BY <1>0 DEF MeantTold
<1>5. StartOf(From(s), meant) = meant.starts[n]
  <2> DEFINE ops == From(s)
  <2>1. after[n] \in ops /\ \A e \in 1 .. n - 1 : after[e] \notin ops
    BY <1>2, <1>3
  <2> HIDE DEF ops
  <2>2. StartOf(ops, meant) = meant.starts[n]
    <3>1. meant.ops = after
      BY <1>4
    <3> QED BY <1>0, <2>1, <3>1, FirstStart
  <2> QED BY <2>2 DEF ops
<1> QED BY <1>4, <1>5 DEF StartsWith

-----------------------------------------------------------------------------
(* Where a request's parts are, as its layout says them and as they are     *)
(* meant.                                                                   *)

\* The layout at each of the parts after its URL.
Places4(d, layout, at, u, h, c) ==
  /\ u \in Nat /\ h \in Nat /\ c \in Nat /\ h > 5 /\ Len(layout) \in Nat /\ u + h + c < Len(layout)
  /\ at[u][1] = 2 /\ at[u][2] = 0 /\ at[u + h][1] = 3 /\ at[u + h + c][1] \in {3, 4}
  /\ layout[u + 1] = Section(HeadSection) /\ layout[u + 5] = Fields /\ layout[u + h] = Text(CRLF)
  /\ layout[(u + h) + 1] \in {Section(CanonicalSection), Section(BodySection)}
  /\ layout[(u + h + c) + 1] = Section(BodySection)

LEMMA PlacesAre ==
  ASSUME NEW d, NEW f, NEW layout, NEW at, NEW m, NEW len, Speaks(d, f, layout, at, m, len),
         NEW u, u = Len(UrlLayout(d)), NEW h, h = Len(HeadLayout(d)), NEW c, c = Len(SignedLayout(d))
  PROVE  /\ Places4(d, layout, at, u, h, c) /\ PartsPlaced(d, AfterUrl(d), h, c)
         /\ Holding(layout, u, AfterUrl(d)) /\ Len(layout) = u + Len(AfterUrl(d))
<1> DEFINE after == AfterUrl(d)
           head == HeadLayout(d)
           signed == SignedLayout(d)
           p == <<2, 0>>
           q == <<3, 1>>
           r == <<4, 1>>
           j == u + h
           k == u + h + c
<1>1. Described(d) /\ Saying(m, layout, at, f, len) /\ Runs6(layout, at)
  BY DEF Speaks, Saying
<1>2. AfterUrlAt(d, layout, at, m, u)
  BY UrlPlaced
<1>3. /\ UrlAsLaid(layout, d) /\ u \in Nat /\ Len(layout) \in Nat /\ at[u] = p
      /\ Holding(layout, u, after) /\ Len(layout) = u + Len(after)
  BY <1>2 DEF AfterUrlAt, UrlAsLaid
<1>4. PartsPlaced(d, after, h, c) /\ Holding(after, 0, head) /\ Holding(after, h, signed)
  BY <1>1, PartsLaid
<1>5. /\ h \in Nat /\ c \in Nat /\ h > 5 /\ Len(after) \in Nat /\ h + c < Len(after)
      /\ after[1] = Section(HeadSection) /\ after[5] = Fields /\ after[h] = Text(CRLF)
      /\ after[h + c + 1] = Section(BodySection)
      /\ (d.service = "s3" => after[h + 1] = Section(CanonicalSection) /\ c >= 1)
      /\ (d.service # "s3" => c = 0)
  BY <1>4 DEF PartsPlaced
<1>6. \A i \in 1 .. Len(after) : layout[u + i] = after[i]
  BY <1>3 DEF Holding
<1> HIDE DEF after
<1>7. /\ layout[u + 1] = Section(HeadSection) /\ layout[u + 5] = Fields /\ layout[u + h] = Text(CRLF)
  <2>1. 1 \in 1 .. Len(after) /\ 5 \in 1 .. Len(after) /\ h \in 1 .. Len(after)
    BY <1>5
  <2> QED BY <1>5, <1>6, <2>1
<1>8. layout[k + 1] = Section(BodySection)
  <2>1. h + c + 1 \in 1 .. Len(after) /\ u + (h + c + 1) = k + 1
    BY <1>3, <1>5
  <2> QED BY <1>5, <1>6, <2>1
<1>9. layout[j + 1] \in {Section(CanonicalSection), Section(BodySection)}
  <2>1. h + 1 \in 1 .. Len(after) /\ u + (h + 1) = j + 1
    BY <1>3, <1>5
  <2>2. layout[j + 1] = after[h + 1]
    BY <1>6, <2>1
  <2>3. CASE d.service = "s3"
    BY <1>5, <2>2, <2>3
  <2>4. CASE d.service # "s3"
    <3>1. h + c + 1 = h + 1
      BY <1>5, <2>4
    <3> QED BY <1>5, <2>2, <3>1
  <2> QED BY <2>3, <2>4
<1>10. k < Len(layout)
  BY <1>3, <1>5
<1> HIDE DEF head, signed, p, q, r
<1>11. at[j] = q
  <2>1. Goes(head, p, q) /\ Holding(layout, u, head) /\ Len(head) = h
    <3>1. Goes(head, p, q)
      BY <1>1, PartsGo DEF Heads, BeginsHead, head, p, q
    <3>2. Holding(layout, u + 0, head)
      BY <1>3, <1>4, HoldingOn
    <3>3. u + 0 = u
      BY <1>3
    <3> QED BY <3>1, <3>2, <3>3 DEF head
  <2>2. at[u + Len(head)] = q
    <3>1. Runs6(layout, at) /\ at[u] = p /\ Goes(head, p, q) /\ Holding(layout, u, head)
      BY <1>1, <1>3, <2>1
    <3> HIDE DEF j, k
    <3> QED BY <3>1, AfterPart
  <2> QED BY <2>1, <2>2
<1>12. at[k][1] \in {3, 4}
  <2>1. CASE d.service = "s3"
    <3>1. Goes(signed, q, r) /\ Holding(layout, j, signed) /\ Len(signed) = c
      <4>1. Goes(signed, q, r)
        BY <1>1, <2>1, PartsGo DEF Signs, signed, q, r
      <4>2. Holding(layout, j, signed)
        BY <1>3, <1>4, HoldingOn
      <4> QED BY <4>1, <4>2 DEF signed
    <3> HIDE DEF j
    <3>2. at[j + Len(signed)] = r
      BY <1>1, <1>11, <3>1, AfterPart
    <3>3. j + Len(signed) = k
      BY <3>1 DEF j
    <3> HIDE DEF k
    <3> QED BY <3>2, <3>3 DEF r
  <2>2. CASE d.service # "s3"
    <3>1. k = j
      <4>1. c = 0 /\ u + h \in Nat
        BY <1>3, <1>5, <2>2
      <4> QED BY <4>1 DEF k, j
    <3> QED BY <1>11, <3>1 DEF q
  <2> QED BY <2>1, <2>2
<1>13. at[u][1] = 2 /\ at[u][2] = 0 /\ at[j][1] = 3
  BY <1>3, <1>11 DEF p, q
<1> HIDE DEF j, k
<1>14. Places4(d, layout, at, u, h, c)
  BY <1>3, <1>5, <1>7, <1>8, <1>9, <1>10, <1>12, <1>13 DEF Places4, j, k
<1> QED BY <1>3, <1>4, <1>14 DEF after

\* The offsets of a request, and that each comes after the one before it.
Offsets5(m, u, h, c, k, n) ==
  /\ m[k].ends[2] = Len(m[u].out) /\ m[k].ends[3] = Len(m[u + h].out)
  /\ m[k].ends[4] = Len(m[u + h + c].out) /\ m[k].fields = Len(m[u + 4].out)
  /\ Len(m[u].out) <= Len(m[u + 4].out) /\ Len(m[u + 4].out) + 2 <= Len(m[u + h].out)
  /\ Len(m[u + h].out) <= Len(m[u + h + c].out) /\ Len(m[u + h + c].out) <= Len(m[k].out)
  /\ \A i \in {u, u + 4, u + h, u + h + c, k} : Len(m[i].out) \in Nat

LEMMA OffsetsSaid ==
  ASSUME NEW d, NEW f, NEW layout, NEW at, NEW m, NEW len, Saying(m, layout, at, f, len),
         NEW u, NEW h, NEW c, Places4(d, layout, at, u, h, c), NEW k, k = Len(layout)
  PROVE  Offsets5(m, u, h, c, k, len)
<1> DEFINE v == u + 4
           x == u + h
           y == u + h + c
           z == x - 1
<1>1. /\ u \in Nat /\ h \in Nat /\ c \in Nat /\ h > 5 /\ k \in Nat /\ y < k
      /\ at[u][1] = 2 /\ at[u][2] = 0 /\ at[x][1] = 3 /\ at[y][1] \in {3, 4}
      /\ layout[u + 1] = Section(HeadSection) /\ layout[u + 5] = Fields /\ layout[x] = Text(CRLF)
      /\ layout[x + 1] \in {Section(CanonicalSection), Section(BodySection)}
      /\ layout[y + 1] = Section(BodySection)
  BY DEF Places4
<1>2. /\ v \in Nat /\ x \in Nat /\ y \in Nat /\ z \in Nat /\ x \in 1 .. k
      /\ u < v /\ v <= z /\ z < x /\ x <= y /\ y < k /\ v + 1 = u + 5 /\ u + 5 \in 1 .. k
      /\ x + 1 \in 1 .. k /\ y + 1 \in 1 .. k /\ u + 1 \in 1 .. k /\ x - 1 = z
  BY <1>1
<1> HIDE DEF v, x, y, z
<1>3. \A i \in {u, v, x, y, z, k, u + 1, x + 1, y + 1} : i \in 0 .. k
  <2>1. u \in 0 .. k /\ v \in 0 .. k /\ x \in 0 .. k /\ y \in 0 .. k /\ z \in 0 .. k /\ k \in 0 .. k
    BY <1>1, <1>2
  <2>2. u + 1 \in 0 .. k /\ x + 1 \in 0 .. k /\ y + 1 \in 0 .. k
    BY <1>1, <1>2
  <2> QED BY <2>1, <2>2
<1>4. \A i \in 0 .. k : m[i] \in Passes(len, FALSE) /\ at[i] \in Stages
  BY SayingIs
<1>5. \A i \in 0 .. k : Len(m[i].out) \in Nat
  BY <1>4 DEF Passes, PassRecords, Said
<1>6. /\ Len(m[u].out) <= Len(m[v].out) /\ Len(m[v].out) <= Len(m[z].out)
      /\ Len(m[x].out) <= Len(m[y].out) /\ Len(m[y].out) <= Len(m[k].out)
  <2>1. u \in 0 .. Len(layout) /\ v \in 0 .. Len(layout) /\ z \in 0 .. Len(layout) /\ x \in 0 .. Len(layout)
        /\ y \in 0 .. Len(layout) /\ k \in 0 .. Len(layout)
    BY <1>3
  <2>2. Len(m[u].out) <= Len(m[v].out)
    BY <1>2, <2>1, SayingGoes
  <2>3. Len(m[v].out) <= Len(m[z].out)
    BY <1>2, <2>1, SayingGoes
  <2>4. Len(m[x].out) <= Len(m[y].out)
    BY <1>2, <2>1, SayingGoes
  <2>5. Len(m[y].out) <= Len(m[k].out)
    <3>1. y <= k
      BY <1>1, <1>2
    <3> QED BY <2>1, <3>1, SayingGoes
  <2> QED BY <2>2, <2>3, <2>4, <2>5
<1>7. Len(m[x].out) = Len(m[z].out) + 2
  <2> DEFINE out == m[z].out
             X == Told(len)
             mark == CRLF
  <2>1. SaysOn(m[z], m[x], mark)
    <3>1. x \in 1 .. Len(layout) /\ x - 1 = z /\ layout[x] = Text(mark)
      BY <1>1, <1>2
    <3> HIDE DEF mark
    <3> QED BY <1>2, <3>1, TextHere
  <2>2. m[x].out = out \o mark
    BY <2>1 DEF SaysOn
  <2>3. out \in Seq(X) /\ mark \in Seq(X) /\ Len(mark) = 2
    <3>1. out \in Seq(X)
      <4>1. m[z] \in Passes(len, FALSE)
        BY <1>3, <1>4
      <4> QED BY <4>1 DEF Passes, PassRecords, Said
    <3>2. mark \in Wording
      BY WordingIs
    <3>3. mark \in Said(len)
      BY <3>2, SaidIs
    <3>4. Len(mark) = 2
      BY DEF CRLF
    <3> QED BY <3>1, <3>3, <3>4 DEF Said
  <2> HIDE DEF out, X, mark
  <2>4. Len(out \o mark) = Len(out) + Len(mark)
    BY <2>3, ConcatProperties
  <2> QED BY <2>2, <2>3, <2>4 DEF out
<1>8. m[k].ends[2] = Len(m[u].out)
  <2> DEFINE s == 2
  <2>1. at[u + 1][1] = HeadSection
    <3>1. Moves(layout[u + 1], at[(u + 1) - 1], at[u + 1])
      BY <1>2, SayingIs
    <3> QED BY <1>1, <3>1 DEF Moves, Section
  <2>2. /\ s \in 0 .. Sections - 1 /\ at[u][1] <= s /\ s < at[u + 1][1] /\ u + 1 \in 1 .. Len(layout) /\ u + 1 <= k
        /\ u \in Nat /\ k \in 0 .. Len(layout)
    BY <1>1, <1>2, <2>1 DEF Sections, HeadSection
  <2> HIDE DEF s
  <2>3. m[k].ends[s] = Len(m[u].out)
    BY <2>2, EndAt
  <2> QED BY <2>3 DEF s
<1>9. m[k].ends[3] = Len(m[x].out)
  <2> DEFINE s == 3
  <2>1. at[x + 1][1] \in {4, 5}
    <3>1. Moves(layout[x + 1], at[(x + 1) - 1], at[x + 1])
      BY <1>2, SayingIs
    <3> QED BY <1>1, <3>1 DEF Moves, Section, CanonicalSection, BodySection
  <2>2. /\ s \in 0 .. Sections - 1 /\ at[x][1] <= s /\ s < at[x + 1][1] /\ x + 1 \in 1 .. Len(layout) /\ x + 1 <= k
        /\ x \in Nat /\ k \in 0 .. Len(layout)
    BY <1>1, <1>2, <2>1 DEF Sections
  <2> HIDE DEF s
  <2>3. m[k].ends[s] = Len(m[x].out)
    BY <2>2, EndAt
  <2> QED BY <2>3 DEF s
<1>10. m[k].ends[4] = Len(m[y].out)
  <2> DEFINE s == 4
  <2>1. at[y + 1][1] = 5
    <3>1. Moves(layout[y + 1], at[(y + 1) - 1], at[y + 1])
      BY <1>2, SayingIs
    <3> QED BY <1>1, <3>1 DEF Moves, Section, BodySection
  <2>2. /\ s \in 0 .. Sections - 1 /\ at[y][1] <= s /\ s < at[y + 1][1] /\ y + 1 \in 1 .. Len(layout) /\ y + 1 <= k
        /\ y \in Nat /\ k \in 0 .. Len(layout)
    BY <1>1, <1>2, <2>1 DEF Sections
  <2> HIDE DEF s
  <2>3. m[k].ends[s] = Len(m[y].out)
    BY <2>2, EndAt
  <2> QED BY <2>3 DEF s
<1>11. m[k].fields = Len(m[v].out)
  <2>1. layout[v + 1].op = "fields" /\ v + 1 \in 1 .. Len(layout) /\ k \in 0 .. Len(layout) /\ v + 1 <= k /\ v \in Nat
    BY <1>1, <1>2 DEF Fields
  <2> QED BY <2>1, MarkAt
<1> DEFINE b == Len(m[v].out)
           e == Len(m[z].out)
<1>12. b + 2 <= Len(m[x].out)
  <2>1. b \in Nat /\ e \in Nat /\ b <= e /\ Len(m[x].out) = e + 2
    BY <1>3, <1>5, <1>6, <1>7
  <2> HIDE DEF b, e
  <2> QED BY <2>1
<1>13. \A i \in {u, v, x, y, k} : Len(m[i].out) \in Nat
  BY <1>3, <1>5
<1> QED BY <1>6, <1>8, <1>9, <1>10, <1>11, <1>12, <1>13 DEF Offsets5, v, x, y

\* The same offsets, as they are meant.
Starts5(meant, d, f, m, u, h, c, k) ==
  /\ meant.text = m[k].out /\ meant.url = Len(m[u].out)
  /\ StartOf(From(3), meant) = Len(m[u].out) /\ StartOf(From(4), meant) = Len(m[u + h].out)
  /\ StartOf(From(5), meant) = Len(m[u + h + c].out) /\ StartOf({Fields}, meant) = Len(m[u + 4].out)

LEMMA StartsMeant ==
  ASSUME NEW d, NEW f, NEW layout, NEW at, NEW m, NEW len, Saying(m, layout, at, f, len),
         NEW u, NEW h, NEW c, Places4(d, layout, at, u, h, c), NEW k, k = Len(layout),
         NEW after, PartsPlaced(d, after, h, c), Holding(layout, u, after), k = u + Len(after),
         NEW meant, MeantTold(meant, d, f, m, u, after), m[u].out = MeantUrl(d, f)
  PROVE  Starts5(meant, d, f, m, u, h, c, k)
<1> DEFINE x == u + h
           y == u + h + c
           v == u + 4
<1>1. /\ u \in Nat /\ h \in Nat /\ c \in Nat /\ h > 5 /\ Len(layout) \in Nat /\ y < k
      /\ at[u][1] = 2 /\ at[u][2] = 0 /\ at[x][1] = 3 /\ at[y][1] \in {3, 4}
      /\ layout[u + 5] = Fields
  BY DEF Places4
<1>2. /\ Len(after) \in Nat /\ h + c < Len(after) /\ after \in Seq(Ops)
      /\ after[1] = Section(HeadSection) /\ after[5] = Fields
      /\ after[h + c + 1] = Section(BodySection)
      /\ (d.service = "s3" => after[h + 1] = Section(CanonicalSection) /\ c >= 1)
      /\ (d.service # "s3" => c = 0)
  BY DEF PartsPlaced
<1>3. /\ meant.text = m[u + Len(after)].out /\ meant.url = Len(MeantUrl(d, f)) /\ meant.ops = after
      /\ \A n \in 1 .. Len(after) : meant.starts[n] = Len(m[u + (n - 1)].out)
  BY DEF MeantTold
<1>4. meant.text = m[k].out /\ meant.url = Len(m[u].out)
  BY <1>3
<1> HIDE DEF x, y, v
<1>5. StartOf(From(3), meant) = Len(m[u].out)
  <2> DEFINE n == 1
             s == 3
             t == 3
  <2>1. n \in 1 .. Len(after) /\ s \in 0 .. Sections - 1 /\ t \in s .. Sections - 1 /\ after[n] = Section(t)
        /\ u = u + (n - 1) /\ at[u][1] < s
    BY <1>1, <1>2 DEF Sections, HeadSection
  <2> HIDE DEF n, s, t
  <2>2. BeginsSection(at, u, after, n, s, t, u)
    BY <2>1 DEF BeginsSection
  <2>3. StartsWith(s, meant, m[u])
    <3>1. u \in Nat /\ after \in Seq(Ops)
      BY <1>1, <1>2
    <3> QED BY <2>2, <3>1, StartOfSection
  <2> QED BY <2>3 DEF s, StartsWith
<1>6. StartOf(From(4), meant) = Len(m[x].out)
  <2> DEFINE n == h + 1
             s == 4
             t == IF d.service = "s3" THEN 4 ELSE 5
  <2>1. n \in 1 .. Len(after) /\ s \in 0 .. Sections - 1 /\ t \in s .. Sections - 1
        /\ x = u + (n - 1) /\ at[x][1] < s
    BY <1>1, <1>2 DEF Sections, x
  <2>2. after[n] = Section(t)
    <3>1. CASE d.service = "s3"
      BY <1>2, <3>1 DEF CanonicalSection
    <3>2. CASE d.service # "s3"
      <4>1. h + c + 1 = h + 1
        BY <1>1, <1>2, <3>2
      <4> QED BY <1>2, <3>2, <4>1 DEF BodySection
    <3> QED BY <3>1, <3>2
  <2> HIDE DEF n, s, t
  <2>3. BeginsSection(at, u, after, n, s, t, x)
    BY <2>1, <2>2 DEF BeginsSection
  <2>4. StartsWith(s, meant, m[x])
    <3>1. u \in Nat /\ after \in Seq(Ops)
      BY <1>1, <1>2
    <3> QED BY <2>3, <3>1, StartOfSection
  <2> QED BY <2>4 DEF s, StartsWith
<1>7. StartOf(From(5), meant) = Len(m[y].out)
  <2> DEFINE n == h + c + 1
             s == 5
             t == 5
  <2>1. n \in 1 .. Len(after) /\ s \in 0 .. Sections - 1 /\ t \in s .. Sections - 1
        /\ y = u + (n - 1) /\ at[y][1] < s
    BY <1>1, <1>2 DEF Sections, y
  <2>2. after[n] = Section(t)
    BY <1>2 DEF BodySection
  <2> HIDE DEF n, s, t
  <2>3. BeginsSection(at, u, after, n, s, t, y)
    BY <2>1, <2>2 DEF BeginsSection
  <2>4. StartsWith(s, meant, m[y])
    <3>1. u \in Nat /\ after \in Seq(Ops)
      BY <1>1, <1>2
    <3> QED BY <2>3, <3>1, StartOfSection
  <2> QED BY <2>4 DEF s, StartsWith
<1>8. StartOf({Fields}, meant) = Len(m[v].out)
  <2> DEFINE n == 5
             ops == {Fields}
  <2>1. n \in 1 .. Len(after) /\ after[n] \in ops /\ u + (n - 1) = v
    BY <1>1, <1>2 DEF v
  <2>2. ASSUME NEW e \in 1 .. n - 1
        PROVE  after[e] \notin ops
    <3> DEFINE i == u + e
               j == i - 1
    <3>1. /\ i \in 1 .. Len(layout) /\ j \in 0 .. Len(layout) /\ i - 1 = j /\ i \in 0 .. Len(layout)
          /\ v \in 0 .. Len(layout) /\ i <= v /\ v + 1 = u + 5 /\ v + 1 \in 1 .. Len(layout) /\ e \in 1 .. Len(after)
      BY <1>1, <1>2 DEF v
    <3>2. layout[i] = after[e]
      BY <3>1 DEF Holding
    <3> HIDE DEF i, j
    <3>3. SUFFICES ASSUME layout[i] = Fields
                   PROVE  FALSE
      BY <3>2
    <3>4. at[i][2] = 1
      <4>1. Moves(layout[i], at[i - 1], at[i])
        BY <3>1, SayingIs
      <4> QED BY <3>3, <4>1 DEF Moves, Fields
    <3>5. at[v][2] = 0
      <4>1. Moves(layout[v + 1], at[(v + 1) - 1], at[v + 1])
        BY <3>1, SayingIs
      <4>2. (v + 1) - 1 = v /\ layout[v + 1] = Fields
        BY <1>1, <3>1
      <4> QED BY <4>1, <4>2 DEF Moves, Fields
    <3>6. at[i][2] <= at[v][2]
      BY <3>1, SayingGoes
    <3> QED BY <3>4, <3>5, <3>6
  <2> HIDE DEF n, ops
  <2>3. StartOf(ops, meant) = meant.starts[n]
    <3>1. \A e \in 1 .. n - 1 : after[e] \notin ops
      BY <2>2
    <3>2. meant.ops = after /\ after \in Seq(Ops)
      BY <1>2, <1>3
    <3> QED BY <2>1, <3>1, <3>2, FirstStart
  <2>4. meant.starts[n] = Len(m[v].out)
    BY <1>3, <2>1
  <2> QED BY <2>3, <2>4 DEF ops
<1> QED BY <1>4, <1>5, <1>6, <1>7, <1>8 DEF Starts5, x, y, v

\* A request that says what it means, by its text and its parts.
SaysMeant(d, meant, out, parts) ==
  /\ out = meant.text
  /\ parts.url = SpanOf(0, meant.url)
  /\ parts.head = MeantSpan(HeadSection, meant)
  /\ d.service = "s3" => parts.canonical = MeantSpan(CanonicalSection, meant)
  /\ parts.body = IF d.body = "none" THEN None ELSE MeantSpan(BodySection, meant)
  /\ parts.fields.start = StartOf({Fields}, meant)
  /\ parts.fields.start + parts.fields.len + 2 = parts.head.start + parts.head.len

LEMMA PartsSaid ==
  ASSUME NEW d, NEW f, NEW m, NEW u, NEW h, NEW c, NEW k, NEW len,
         Offsets5(m, u, h, c, k, len), NEW meant, Starts5(meant, d, f, m, u, h, c, k),
         NEW w, w.out = m[k].out, w.fields = m[k].fields,
         w.ends[2] = m[k].ends[2], w.ends[3] = m[k].ends[3], w.ends[4] = m[k].ends[4],
         w.ends[5] = Len(m[k].out), NEW table, table.body <=> d.body # "none"
  PROVE  SaysMeant(d, meant, w.out, Parts(w, table))
<1> DEFINE one == Len(m[u].out)
           two == Len(m[u + 4].out)
           three == Len(m[u + h].out)
           four == Len(m[u + h + c].out)
           five == Len(m[k].out)
           parts == Parts(w, table)
<1>1. /\ w.ends[2] = one /\ w.ends[3] = three /\ w.ends[4] = four /\ w.ends[5] = five /\ w.fields = two
      /\ one <= two /\ two + 2 <= three /\ three <= four /\ four <= five
      /\ one \in Nat /\ two \in Nat /\ three \in Nat /\ four \in Nat /\ five \in Nat
  BY DEF Offsets5
<1>2. /\ meant.text = w.out /\ meant.url = one /\ Len(meant.text) = five
      /\ StartOf(From(3), meant) = one /\ StartOf(From(4), meant) = three
      /\ StartOf(From(5), meant) = four /\ StartOf({Fields}, meant) = two
  BY DEF Starts5
<1> HIDE DEF one, two, three, four, five
<1> DEFINE head == SpanOf(w.ends[2], Difference(w.ends[3], w.ends[2]))
           canonical == SpanOf(w.ends[3], Difference(w.ends[4], w.ends[3]))
           body == SpanOf(w.ends[4], Difference(w.ends[5], w.ends[4]))
<1>3. head = SpanOf(one, three - one) /\ canonical = SpanOf(three, four - three) /\ body = SpanOf(four, five - four)
  <2>1. Difference(three, one) = three - one /\ Difference(four, three) = four - three
        /\ Difference(five, four) = five - four
    BY <1>1 DEF Difference
  <2> QED BY <1>1, <2>1
<1> DEFINE end == head.start + head.len
           mark == CASE w.fields < head.start -> head.start
                     [] w.fields > end        -> end
                     [] OTHER                 -> w.fields
<1>4. /\ parts.url = SpanOf(0, w.ends[2]) /\ parts.head = head /\ parts.canonical = canonical
      /\ parts.body = IF table.body THEN body ELSE None
      /\ parts.fields = SpanOf(mark, Difference(Difference(end, 2), mark))
  <2>1. 2 - 1 = 1 /\ HeadSection - 1 = 2 /\ CanonicalSection - 1 = 3 /\ BodySection - 1 = 4
        /\ HeadSection # OriginSection /\ CanonicalSection # OriginSection /\ BodySection # OriginSection
        /\ HeadSection = 3 /\ CanonicalSection = 4 /\ BodySection = 5 /\ QuerySection = 2
    BY DEF HeadSection, CanonicalSection, BodySection, OriginSection, QuerySection
  <2> HIDE DEF HeadSection, CanonicalSection, BodySection, OriginSection, QuerySection
  <2> QED BY <2>1 DEF Parts
<1> HIDE DEF parts
<1>5. end = three /\ head.start = one
  <2>1. head.start = one /\ head.len = three - one
    BY <1>3 DEF SpanOf
  <2> HIDE DEF head
  <2> QED BY <1>1, <2>1
<1> HIDE DEF head, canonical, body, end
<1>6. mark = two
  <2>1. ~ w.fields < head.start /\ ~ w.fields > end
    BY <1>1, <1>5
  <2> QED BY <1>1, <2>1
<1> HIDE DEF mark
<1>7. parts.fields.start = two /\ parts.fields.len = (three - 2) - two
  <2>1. Difference(Difference(end, 2), mark) = (three - 2) - two
    <3>1. Difference(end, 2) = three - 2
      BY <1>1, <1>5 DEF Difference
    <3>2. three - 2 >= two
      BY <1>1
    <3> QED BY <1>1, <1>6, <3>1, <3>2 DEF Difference
  <2> QED BY <1>4, <1>6, <2>1 DEF SpanOf
<1>8. parts.head.start = one /\ parts.head.len = three - one
  BY <1>3, <1>4 DEF SpanOf
<1>9. parts.fields.start + parts.fields.len + 2 = parts.head.start + parts.head.len
  BY <1>1, <1>7, <1>8
<1>10. MeantSpan(HeadSection, meant) = SpanOf(one, three - one)
  <2>1. HeadSection # BodySection /\ HeadSection = 3 /\ HeadSection + 1 = 4
    BY DEF HeadSection, BodySection
  <2> QED BY <1>2, <2>1 DEF MeantSpan, SpanOf
<1>11. MeantSpan(CanonicalSection, meant) = SpanOf(three, four - three)
  <2>1. CanonicalSection # BodySection /\ CanonicalSection = 4 /\ CanonicalSection + 1 = 5
    BY DEF CanonicalSection, BodySection
  <2> QED BY <1>2, <2>1 DEF MeantSpan, SpanOf
<1>12. MeantSpan(BodySection, meant) = SpanOf(four, five - four)
  <2>1. BodySection = 5
    BY DEF BodySection
  <2> QED BY <1>2, <2>1 DEF MeantSpan, SpanOf
<1>13. parts.body = IF d.body = "none" THEN None ELSE MeantSpan(BodySection, meant)
  BY <1>3, <1>4, <1>12
<1> QED BY <1>1, <1>2, <1>3, <1>4, <1>7, <1>9, <1>10, <1>11, <1>13 DEF SaysMeant, parts

-----------------------------------------------------------------------------
(* How long a body is, as its table says.                                   *)

\* The steps of a template's body, after the steps before it.
BodyMade(d, steps, first) ==
  /\ first \in Nat /\ steps \in Seq(StepsKept)
  /\ \/ /\ d.body = "none" /\ Len(steps) = first + 1
        /\ steps[first + 1] = [len |-> 0, hole |-> NoHole, name |-> 0, ends |-> {5}]
     \/ /\ d.body = "fixed" /\ Len(steps) = first + 1
        /\ steps[first + 1] = [len |-> Len(BodyText), hole |-> NoHole, name |-> 0, ends |-> {5}]
     \/ /\ d.body = "each" /\ Len(steps) = first + 2
        /\ steps[first + 1] = [len |-> 0, hole |-> "Body", name |-> 0, ends |-> {}]
        /\ steps[first + 2] = [len |-> 0, hole |-> NoHole, name |-> 0, ends |-> {5}]

\* What has just begun the body.
AtBody(b, e) ==
  /\ Tidy(b, b.section) /\ b \in Builders /\ b.section = 5 /\ ~ b.open
  /\ StepsBefore(e.counts, 5) = Closed(b)

LEMMA BodyBegins ==
  ASSUME NEW x, Tidy(x, x.section), x.section \in {3, 4}, NEW b, b = BuildSection(x, 5),
         NEW e, Tidy(e, Sections), Grows(b, e)
  PROVE  AtBody(b, e)
<1>1. PICK y : Tidy(y, y.section) /\ y.section = 4 /\ b = EndOf(y)
  <2>1. x \in Builders
    BY DEF Tidy, Neat
  <2>2. CASE x.section = 4
    <3>1. b = EndOf(x)
      <4>1. BuildSection(x, x.section + 1) = EndOf(x)
        BY <2>1, <2>2, SectionsEnd
      <4> QED BY <2>2, <4>1
    <3> QED BY <2>2, <3>1
  <2>3. CASE x.section = 3
    <3> DEFINE y == EndOf(x)
    <3>1. BuildSection(x, x.section + 2) = EndOf(y)
      BY <2>1, <2>3, SectionsEnd
    <3>2. Tidy(y, y.section) /\ y.section = x.section + 1
      BY <2>3, EndsOn
    <3> HIDE DEF y
    <3> QED BY <2>3, <3>1, <3>2
  <2> QED BY <2>2, <2>3
<1>2. /\ Closes(y, b, NoHole, 0, {4}) /\ b.section = 5 /\ Tidy(b, b.section)
  <2>1. Closes(y, EndOf(y), NoHole, 0, {y.section})
    BY <1>1, EndCloses DEF Tidy
  <2>2. Tidy(EndOf(y), EndOf(y).section) /\ EndOf(y).section = y.section + 1
    BY <1>1, EndsOn
  <2> QED BY <1>1, <2>1, <2>2
<1>3. /\ b \in Builders /\ ~ b.open /\ Closed(b) = Closed(y) + 1
      /\ b.steps[Closed(b)] = [len |-> Pending(y), hole |-> NoHole, name |-> 0, ends |-> {4}]
  BY <1>2 DEF Closes, Neat
<1>4. Closed(y) \in Nat /\ Closed(b) \in Nat /\ Closed(e) \in Nat /\ Closed(b) <= Closed(e)
      /\ \A n \in 1 .. Closed(b) : e.steps[n] = b.steps[n]
  <2>1. y \in Builders /\ e \in Builders
    BY <1>1 DEF Tidy, Neat
  <2>2. Closed(y) \in Nat /\ Closed(b) \in Nat /\ Closed(e) \in Nat
    BY <1>3, <2>1, BuilderIs
  <2> QED BY <2>2 DEF Grows, StepsStay
<1>5. Closed(b) \in EndsOf(e, 4)
  <2>1. Closed(b) \in 1 .. Closed(b) /\ Closed(b) \in 1 .. Closed(e)
    BY <1>3, <1>4
  <2>2. e.steps[Closed(b)].ends = {4}
    BY <1>3, <1>4, <2>1
  <2> QED BY <2>1, <2>2 DEF EndsOf
<1>6. StepsBefore(e.counts, 5) = Closed(b)
  <2> DEFINE s == 4
  <2>1. s \in 0 .. Sections - 1 /\ s < Sections /\ s + 1 = 5
    BY DEF Sections
  <2> HIDE DEF s
  <2>2. EndsOf(e, s) = {StepsBefore(e.counts, s + 1)}
    BY <2>1 DEF Tidy, EndsBefore
  <2>3. EndsOf(e, s) = EndsOf(e, 4)
    BY DEF s
  <2> QED BY <1>5, <2>1, <2>2, <2>3
<1> QED BY <1>2, <1>3, <1>6 DEF AtBody

LEMMA BodyCloses ==
  ASSUME NEW d, NEW b, NEW e, AtBody(b, e), NEW c, e = EndOf(c), e \in Builders, ~ e.open,
         \/ d.body = "none" /\ c = b
         \/ d.body = "fixed" /\ c = Build(b, Text(BodyText))
         \/ d.body = "each" /\ c = Build(b, Hole("Body"))
  PROVE  BodyMade(d, e.steps, Closed(b))
<1>1. Neat(b) /\ b \in Builders /\ b.section = 5 /\ Closed(b) \in Nat /\ Pending(b) = 0
  BY BuilderIs DEF AtBody, Tidy
<1>2. Len(e.steps) = Closed(e) /\ e.steps \in Seq(StepsKept)
  BY BuilderIs
<1>3. CASE d.body = "none" /\ c = b
  <2>1. Closes(b, EndOf(b), NoHole, 0, {5})
    BY <1>1, EndCloses
  <2>2. Closed(e) = Closed(b) + 1
        /\ e.steps[Closed(b) + 1] = [len |-> 0, hole |-> NoHole, name |-> 0, ends |-> {5}]
    BY <1>1, <1>3, <2>1 DEF Closes
  <2> QED BY <1>1, <1>2, <1>3, <2>2 DEF BodyMade
<1>4. CASE d.body = "fixed" /\ c = Build(b, Text(BodyText))
  <2>1. c = BuildText(b, BodyText) /\ BodyText \in Wording /\ Len(BodyText) \in Nat
    BY <1>4, WordingIs DEF Build, Text, Wording
  <2>2. Neat(c) /\ Closed(c) = Closed(b) /\ Pending(c) = Len(BodyText) /\ c.section = 5
    BY <1>1, <2>1, TextGrows DEF Else
  <2>3. Closes(c, EndOf(c), NoHole, 0, {5})
    BY <2>2, EndCloses
  <2>4. Closed(e) = Closed(b) + 1
        /\ e.steps[Closed(b) + 1] = [len |-> Len(BodyText), hole |-> NoHole, name |-> 0, ends |-> {5}]
    BY <2>2, <2>3 DEF Closes
  <2> QED BY <1>1, <1>2, <1>4, <2>4 DEF BodyMade
<1>5. CASE d.body = "each" /\ c = Build(b, Hole("Body"))
  <2>1. c = BuildHole(b, "Body") /\ "Body" \in Words
    BY <1>5 DEF Build, Hole, Words
  <2>2. Closes(b, BuildHole(b, "Body"), "Body", 0, {}) /\ Else(b, BuildHole(b, "Body"))
    BY <1>1, <2>1, HoleCloses
  <2>3. /\ Neat(c) /\ Closed(c) = Closed(b) + 1 /\ Pending(c) = 0 /\ c.section = 5
        /\ c.steps[Closed(b) + 1] = [len |-> 0, hole |-> "Body", name |-> 0, ends |-> {}]
    BY <1>1, <2>1, <2>2 DEF Closes, Else, Pending
  <2>4. Closes(c, EndOf(c), NoHole, 0, {5})
    BY <2>3, EndCloses
  <2>5. /\ Closed(e) = (Closed(b) + 1) + 1 /\ StepsStay(c, e)
        /\ e.steps[(Closed(b) + 1) + 1] = [len |-> 0, hole |-> NoHole, name |-> 0, ends |-> {5}]
    BY <2>3, <2>4 DEF Closes, Grows
  <2>6. e.steps[Closed(b) + 1] = [len |-> 0, hole |-> "Body", name |-> 0, ends |-> {}]
    BY <1>1, <2>3, <2>5 DEF StepsStay
  <2>7. (Closed(b) + 1) + 1 = Closed(b) + 2
    BY <1>1
  <2> QED BY <1>1, <1>2, <1>5, <2>5, <2>6, <2>7 DEF BodyMade
<1> QED BY <1>3, <1>4, <1>5

LEMMA LayedBodyMade ==
  ASSUME NEW d, Described(d), NEW at, NEW r, NEW e, NEW table, NEW steps, NEW text,
         Layed(LayoutOf(d), at, r, e, table, steps, text), Tidy(e, Sections)
  PROVE  BodyMade(d, steps, StepsBefore(table.counts, BodySection))
<1> DEFINE layout == LayoutOf(d)
<1>1. PICK j \in 0 .. Len(layout) :
        j < Len(layout) /\ layout[j + 1] = Section(BodySection) /\ BodyEnds(d, layout, j)
  BY BodyLast
<1>2. Layed(layout, at, r, e, table, steps, text)
  OBVIOUS
<1> HIDE DEF layout
<1>3. Len(layout) \in Nat
  BY <1>2, LayedIs
<1> DEFINE i == j + 1
           x == r[j]
           b == r[i]
           c == r[Len(layout)]
           op == layout[i]
           p == at[j]
           q == at[i]
<1>4. i \in 1 .. Len(layout) /\ i \in 0 .. Len(layout) /\ i - 1 = j /\ Len(layout) \in 0 .. Len(layout)
  BY <1>1, <1>3
<1>5. /\ Tidy(x, x.section) /\ x.section = p[1] /\ p \in Stages /\ Grows(b, e) /\ b = Build(x, op)
      /\ Moves(op, p, q) /\ op = Section(BodySection)
  BY <1>1, <1>2, <1>4, LayedIs
<1>6. e = EndOf(c) /\ steps = e.steps /\ e \in Builders /\ ~ e.open /\ table.counts = e.counts
  BY <1>2 DEF Layed, Finished
<1>7. \/ d.body = "none" /\ c = b
      \/ d.body = "fixed" /\ c = Build(b, Text(BodyText))
      \/ d.body = "each" /\ c = Build(b, Hole("Body"))
  <2>1. CASE Len(layout) = j + 1
    BY <1>1, <1>3, <2>1 DEF BodyEnds
  <2>2. CASE Len(layout) = j + 2
    <3> DEFINE k == j + 2
    <3>1. k \in 1 .. Len(layout) /\ k - 1 = i /\ k = Len(layout)
      BY <1>3, <2>2
    <3> HIDE DEF k, i
    <3>2. r[k] = Build(r[k - 1], layout[k])
      BY <1>2, <3>1, LayedIs
    <3>3. c = Build(b, layout[k])
      BY <3>1, <3>2
    <3> HIDE DEF b, c
    <3>4. Len(layout) # j + 1
      BY <1>3, <2>2
    <3>5. \/ d.body = "fixed" /\ layout[k] = Text(BodyText)
          \/ d.body = "each" /\ layout[k] = Hole("Body")
      BY <1>1, <3>4 DEF BodyEnds, k
    <3> QED BY <3>3, <3>5
  <2> QED BY <1>1, <2>1, <2>2 DEF BodyEnds
<1> HIDE DEF i, x, b, c, op, p, q
<1>8. op.op = "section" /\ op.section = 5
  BY <1>5 DEF Section, BodySection
<1>9. q[1] = 5 /\ q[1] \in {p[1] + 1, p[1] + 2}
  BY <1>5, <1>8 DEF Moves
<1>10. x.section \in {3, 4}
  <2>1. p[1] \in 0 .. 5
    BY <1>5 DEF Stages, Sections
  <2> QED BY <1>5, <1>9, <2>1
<1>11. b = BuildSection(x, 5)
  BY <1>5, <1>8 DEF Build
<1>12. AtBody(b, e)
  BY <1>5, <1>10, <1>11, BodyBegins
<1>13. BodyMade(d, e.steps, Closed(b))
  BY <1>6, <1>7, <1>12, BodyCloses
<1> QED BY <1>6, <1>12, <1>13 DEF AtBody, BodySection

\* A table has a body if its description has one.
LEMMA BodyHas ==
  ASSUME NEW d, NEW steps, NEW counts, BodyMade(d, steps, StepsBefore(counts, BodySection))
  PROVE  HasBody(steps, counts) <=> d.body # "none"
<1> DEFINE first == StepsBefore(counts, BodySection)
           body == SubSeq(steps, first + 1, Len(steps))
<1>1. BodyMade(d, steps, first) /\ (HasBody(steps, counts) <=> \E n \in DOMAIN body : body[n].len > 0 \/ body[n].hole # NoHole)
  BY DEF HasBody
<1> HIDE DEF first
<1>2. first \in Nat /\ steps \in Seq(StepsKept)
  BY <1>1 DEF BodyMade
<1>3. Len(BodyText) = 2 /\ "Body" # NoHole
  BY DEF BodyText, NoHole
<1>4. CASE Len(steps) = first + 1
  <2>1. DOMAIN body = 1 .. 1 /\ body[1] = steps[first + 1]
    BY <1>2, <1>4
  <2>2. first + 1 # first + 2
    BY <1>2
  <2> HIDE DEF body
  <2>3. HasBody(steps, counts) <=> steps[first + 1].len > 0 \/ steps[first + 1].hole # NoHole
    BY <1>1, <2>1
  <2> QED BY <1>1, <1>3, <1>4, <2>2, <2>3 DEF BodyMade
<1>5. CASE Len(steps) = first + 2
  <2>1. DOMAIN body = 1 .. 2 /\ body[1] = steps[first + 1]
    BY <1>2, <1>5
  <2>2. first + 1 # first + 2
    BY <1>2
  <2> HIDE DEF body
  <2>3. d.body = "each" /\ steps[first + 1].hole = "Body"
    BY <1>1, <1>5, <2>2 DEF BodyMade
  <2> QED BY <1>1, <1>3, <2>1, <2>3
<1> QED BY <1>1, <1>4, <1>5 DEF BodyMade

\* One number and two, added.
LEMMA AddedFew ==
  ASSUME NEW numbers \in Seq(Nat)
  PROVE  /\ Len(numbers) = 1 => Added(numbers) = numbers[1]
         /\ Len(numbers) = 2 => Added(numbers) = numbers[1] + numbers[2]
<1>1. PICK r : Adding(r, numbers) /\ Added(numbers) = r[Len(numbers)]
  BY AddedIs
<1>2. \A n \in 1 .. Len(numbers) : numbers[n] \in Nat /\ r[n] = r[n - 1] + numbers[n]
  BY <1>1 DEF Adding
<1>3. r[0] = 0
  BY <1>1 DEF Adding
<1>4. ASSUME Len(numbers) = 1
      PROVE  Added(numbers) = numbers[1]
  <2>1. 1 \in 1 .. Len(numbers) /\ 1 - 1 = 0
    BY <1>4
  <2>2. r[1] = r[0] + numbers[1] /\ numbers[1] \in Nat
    BY <1>2, <2>1
  <2> QED BY <1>1, <1>3, <1>4, <2>2
<1>5. ASSUME Len(numbers) = 2
      PROVE  Added(numbers) = numbers[1] + numbers[2]
  <2>1. 1 \in 1 .. Len(numbers) /\ 1 - 1 = 0 /\ 2 \in 1 .. Len(numbers) /\ 2 - 1 = 1
    BY <1>5
  <2>2. r[1] = r[0] + numbers[1] /\ numbers[1] \in Nat
    BY <1>2, <2>1
  <2>3. r[2] = r[1] + numbers[2] /\ numbers[2] \in Nat
    BY <1>2, <2>1
  <2> QED BY <1>1, <1>3, <1>5, <2>2, <2>3
<1> QED BY <1>4, <1>5

\* A step of a walk over a body, which has no run: what it writes.
ShortStep(steps, at) ==
  steps[at + 1].len = 0 /\ steps[at + 1].name = 0 /\ steps[at + 1].hole \in {NoHole, "Body"}
GoesWith(w, v, steps, at, f) ==
  /\ ReadsOn(w, v, steps[at + 1])
  /\ v.out = w.out \o (IF steps[at + 1].hole = "Body" THEN f.body ELSE <<>>)

LEMMA BodyStep ==
  ASSUME NEW len, NEW w \in Passes(len, FALSE), NEW table, IsTable(table), NEW f, FillOf(f),
         NEW steps \in Seq(StepsKept), NEW text \in Wording, NEW at, Readable(w, at, steps, text, f),
         ShortStep(steps, at)
  PROVE  GoesWith(w, WalkStep(w, at, table, steps, text, f), steps, at, f)
<1> DEFINE step == steps[at + 1]
           out == w.out
           fields == MarkOf(w, at, table, step)
           t == Copied(w, fields, out)
           name == Run(text, w.cursor + step.len, step.name)
           filled == FilledOf(t, step, name, f)
           v == WalkStep(w, at, table, steps, text, f)
<1>1. ReadsOn(w, v, step)
  BY WalkStepHolds
<1>2. /\ ~ w.failed /\ step.hole \in Ready(f) /\ w.cursor + StepText(step) <= Len(text)
      /\ step.len = 0 /\ step.name = 0 /\ step.hole \in {NoHole, "Body"}
  BY DEF Readable, ShortStep
<1>3. w.cursor \in Nat /\ w.out \in Said(len) /\ Len(text) \in Nat /\ text \in Seq(Words)
      /\ w.fields \in Nat /\ Len(w.out) \in Nat /\ w.cursor + 0 = w.cursor
  <2>1. w.cursor \in Nat /\ w.out \in Said(len) /\ w.fields \in Nat
    BY PassIs
  <2>2. Len(text) \in Nat /\ text \in Seq(Words)
    BY DEF Wording
  <2>3. Len(w.out) \in Nat
    BY <2>1 DEF Said
  <2> QED BY <2>1, <2>2, <2>3
<1>4. Run(text, w.cursor, step.len) = <<>> /\ name = <<>>
  <2> DEFINE c == w.cursor
             run == SubSeq(text, c + 1, c)
  <2>1. c \in Nat /\ text \in Seq(Words)
    BY <1>3
  <2> HIDE DEF c
  <2>2. run \in Seq(Words) /\ Len(run) = 0
    BY <2>1
  <2>3. run = <<>>
    <3> HIDE DEF run
    <3> QED BY <2>2
  <2>4. c + 0 = c
    BY <2>1
  <2> QED BY <1>2, <2>3, <2>4 DEF Run, c
<1>5. out \in Said(len) /\ out \o <<>> = out
  BY <1>3 DEF Said
<1>6. v = GoesPast(filled, step)
  <2>1. {"out", "fields"} \subseteq DOMAIN w
    BY DEF Passes, PassRecords
  <2>2. w.out \o Run(text, w.cursor, step.len) = out
    BY <1>4, <1>5
  <2>3. ReadsStep(w, step, text, out)
    BY <1>2, <1>3, <2>1, <2>2 DEF ReadsStep
  <2> HIDE DEF out
  <2>4. v = StepRead(w, at, table, step, text, out, f)
    BY <2>3, WalkStepIs
  <2> QED BY <2>4 DEF StepRead
<1>7. fields \in Nat
  <2>1. table.fields[2] \in Nat
    BY DEF IsTable
  <2> HIDE DEF step
  <2> QED BY <1>2, <1>3, <2>1 DEF MarkOf
<1> HIDE DEF v, fields
<1>8. t \in Passes(len, FALSE) /\ t.out = out
  <2>1. Len(w.out) <= Len(out)
    BY <1>3
  <2>2. t \in Passes(len, FALSE) /\ Takes(w, [t EXCEPT !.at = @ + 1, !.fields = w.fields], out, 0)
    <3> HIDE DEF out
    <3> QED BY <1>5, <1>7, <2>1, CopiedIs
  <2>3. w \in PassRecords(len, FALSE)
    BY DEF Passes
  <2> QED BY <2>2, <2>3 DEF Copied, PassRecords
<1> HIDE DEF t, out
<1>9. filled \in Passes(len, FALSE) /\ filled.out = out \o (IF step.hole = "Body" THEN f.body ELSE <<>>)
  <2>1. CASE step.hole = NoHole
    <3>1. filled = t /\ step.hole # "Body"
      BY <2>1 DEF FilledOf, NoHole
    <3> QED BY <1>5, <1>8, <3>1
  <2>2. CASE step.hole = "Body"
    <3> DEFINE hole == "Body"
    <3>1. filled = WriteHole(t, hole, name, f) /\ CanFill(hole, f)
      BY <1>2, <2>2 DEF FilledOf, NoHole, Ready
    <3>2. HoleText(t, hole, name, f) = f.body
      BY DEF HoleText, OptionalHoles
    <3>3. name \in Said(len)
      <4>1. <<>> \in Said(len)
        BY DEF Said
      <4> HIDE DEF name
      <4> QED BY <1>4, <4>1
    <3> HIDE DEF hole, name, filled
    <3>4. WriteHole(t, hole, name, f) \in Passes(len, FALSE)
          /\ Writes(t, WriteHole(t, hole, name, f), HoleText(t, hole, name, f), hole, f)
      BY <1>8, <3>1, <3>3, Wrote
    <3> QED BY <1>8, <2>2, <3>1, <3>2, <3>4 DEF Writes
  <2> QED BY <1>2, <2>1, <2>2
<1> HIDE DEF filled, step
<1>10. GoesPast(filled, step).out = filled.out
  <2>1. filled \in PassRecords(len, FALSE)
    BY <1>9 DEF Passes
  <2> QED BY <2>1 DEF GoesPast, PassRecords
<1> QED BY <1>1, <1>6, <1>9, <1>10 DEF v, step, out, GoesWith

\* A body that the request writes itself, as its table's walk measures it.
LEMMA BodyWalked ==
  ASSUME NEW d, NEW table, NEW steps, NEW text, NEW f, Fits(table, steps, text, f, d), d.body = "each",
         BodyMade(d, steps, StepsBefore(table.counts, BodySection))
  PROVE  Position(Walk(table, steps, text, f, BodySection, Sections, 0)) = Len(f.body)
<1> DEFINE first == StepsBefore(table.counts, BodySection)
           last == StepsBefore(table.counts, Sections)
           len == 0
           start == WalkFrom(table, steps, first, len)
           from == BodySection
           until == Sections
           X == Passes(len, FALSE)
<1>1. /\ IsTable(table) /\ FillOf(f) /\ steps \in Seq(StepsKept) /\ Len(steps) = table.total
      /\ text \in Wording /\ Able(steps, f) /\ SumOf(steps, StepText) <= Len(text)
  BY DEF Fits
<1>2. /\ first \in Nat /\ Len(steps) = first + 2
      /\ steps[first + 1] = [len |-> 0, hole |-> "Body", name |-> 0, ends |-> {}]
      /\ steps[first + 2] = [len |-> 0, hole |-> NoHole, name |-> 0, ends |-> {5}]
  BY DEF BodyMade
<1>3. last = first + 2 /\ last \in Nat /\ first <= last /\ last <= Len(steps) /\ Len(steps) \in Nat
  <2>1. last = table.total
    BY <1>1, SomeSteps
  <2> HIDE DEF first, last
  <2>2. Len(steps) \in Nat /\ last = Len(steps)
    BY <1>1, <2>1
  <2>3. first \in Nat /\ Len(steps) = first + 2
    BY <1>2
  <2> QED BY <2>2, <2>3
<1> HIDE DEF len, from, until
<1>4. PICK r : WalkOver(r, table, steps, text, f, from, until, first, last, len)
  <2>1. first = StepsBefore(table.counts, from) /\ last = StepsBefore(table.counts, until)
    BY DEF from, until
  <2> HIDE DEF first, last
  <2> QED BY <1>1, <1>2, <1>3, <2>1, WalkRuns
<1> HIDE DEF first, last
<1>5. PICK q : Sums(q, steps, Len(steps)) /\ SumOf(steps, StepText) = q[Len(steps)]
               /\ SumOf(SubSeq(steps, 1, first), StepText) = q[first]
  <2>1. first \in 0 .. Len(steps)
    BY <1>2, <1>3
  <2> QED BY <1>1, <2>1, SumSoFar
<1>6. q[first] \in Nat /\ q[first] <= Len(text) /\ Len(text) \in Nat
  <2>1. first \in 0 .. Len(steps)
    BY <1>2, <1>3
  <2>2. q[first] \in Nat /\ q[first] <= q[Len(steps)]
    BY <1>1, <1>5, <2>1, SumsUp
  <2>3. q[Len(steps)] \in Nat /\ Len(text) \in Nat
    BY <1>1, <1>3, <1>5 DEF Sums, Wording
  <2> QED BY <1>1, <1>5, <2>2, <2>3
<1>7. start.out = <<>> /\ ~ start.failed /\ start.cursor = q[first]
  BY <1>5 DEF WalkFrom, NewState
<1> HIDE DEF start
<1>8. WalkRun(r, first, last - first, table, steps, text, f, start, len)
      /\ Walk(table, steps, text, f, from, until, len) = WalkEnded(r[last - first], until)
  BY <1>4 DEF WalkOver, start
<1>9. last - first = 2 /\ 1 \in 1 .. 2 /\ 2 \in 1 .. 2 /\ 0 \in 0 .. 2 /\ 1 \in 0 .. 2 /\ 2 \in 0 .. 2
      /\ first + 1 - 1 = first /\ first + 2 - 1 = first + 1 /\ 1 - 1 = 0 /\ 2 - 1 = 1
      /\ (first + 1) + 1 = first + 2
  BY <1>2, <1>3
<1>10. /\ r[0] = start /\ r[0] \in X /\ r[1] \in X /\ r[2] \in X
       /\ r[1] = WalkStep(r[0], first, table, steps, text, f)
       /\ r[2] = WalkStep(r[1], first + 1, table, steps, text, f)
  <2>1. r \in [0 .. 2 -> X] /\ r[0] = start
        /\ \A n \in 1 .. 2 : r[n] = WalkStep(r[n - 1], first + n - 1, table, steps, text, f)
    BY <1>8, <1>9 DEF WalkRun
  <2>2. r[1] = WalkStep(r[1 - 1], first + 1 - 1, table, steps, text, f)
        /\ r[2] = WalkStep(r[2 - 1], first + 2 - 1, table, steps, text, f)
    BY <1>9, <2>1
  <2>3. r[0] \in X /\ r[1] \in X /\ r[2] \in X
    <3> HIDE DEF X
    <3> QED BY <1>9, <2>1
  <2> QED BY <1>9, <2>1, <2>2, <2>3
<1> DEFINE zero == r[0]
           one == r[1]
           two == r[2]
           at == first
           next == first + 1
<1>11. zero \in X /\ one \in X /\ two \in X /\ zero.out = <<>> /\ ~ zero.failed /\ zero.cursor = q[first]
       /\ one = WalkStep(zero, at, table, steps, text, f) /\ two = WalkStep(one, next, table, steps, text, f)
  BY <1>7, <1>10
<1>12. /\ steps[at + 1].len = 0 /\ steps[at + 1].name = 0 /\ steps[at + 1].hole = "Body"
       /\ StepText(steps[at + 1]) = 0 /\ at \in Nat /\ at < Len(steps)
  BY <1>2, <1>3 DEF StepText
<1>13. /\ steps[next + 1].len = 0 /\ steps[next + 1].name = 0 /\ steps[next + 1].hole = NoHole
       /\ StepText(steps[next + 1]) = 0 /\ next \in Nat /\ next < Len(steps)
  <2>1. next + 1 = first + 2
    BY <1>9
  <2> HIDE DEF next
  <2>2. /\ steps[next + 1].len = 0 /\ steps[next + 1].name = 0 /\ steps[next + 1].hole = NoHole
    BY <1>2, <2>1
  <2> QED BY <1>2, <1>3, <2>2 DEF StepText, next
<1>14. steps[at + 1].hole \in Ready(f) /\ steps[next + 1].hole \in Ready(f)
  <2>1. at + 1 \in 1 .. Len(steps) /\ next + 1 \in 1 .. Len(steps)
    BY <1>3, <1>12, <1>13
  <2> QED BY <1>1, <2>1 DEF Able
<1> HIDE DEF zero, one, two, at, next, X
<1>15. /\ ~ one.failed /\ one.cursor = q[first] /\ one.out = zero.out \o f.body
  <2>1. zero.cursor + StepText(steps[at + 1]) <= Len(text)
    BY <1>6, <1>11, <1>12
  <2>2. Readable(zero, at, steps, text, f)
    BY <1>11, <1>12, <1>14, <2>1 DEF Readable
  <2>3. /\ zero \in Passes(len, FALSE)
        /\ ShortStep(steps, at)
        /\ IsTable(table) /\ FillOf(f) /\ steps \in Seq(StepsKept) /\ text \in Wording
    BY <1>1, <1>11, <1>12 DEF X, ShortStep
  <2>4. GoesWith(zero, WalkStep(zero, at, table, steps, text, f), steps, at, f)
    BY <2>2, <2>3, BodyStep
  <2>5. zero.cursor + StepText(steps[at + 1]) = q[first]
    BY <1>6, <1>11, <1>12
  <2> QED BY <1>11, <1>12, <2>4, <2>5 DEF GoesWith, ReadsOn
<1>16. two.out = one.out \o <<>>
  <2>1. one.cursor + StepText(steps[next + 1]) <= Len(text)
    BY <1>6, <1>13, <1>15
  <2>2. Readable(one, next, steps, text, f)
    BY <1>13, <1>14, <1>15, <2>1 DEF Readable
  <2>3. /\ one \in Passes(len, FALSE)
        /\ ShortStep(steps, next)
        /\ IsTable(table) /\ FillOf(f) /\ steps \in Seq(StepsKept) /\ text \in Wording
    BY <1>1, <1>11, <1>13 DEF X, ShortStep
  <2>4. GoesWith(one, WalkStep(one, next, table, steps, text, f), steps, next, f)
    BY <2>2, <2>3, BodyStep
  <2>5. steps[next + 1].hole # "Body"
    BY <1>13 DEF NoHole
  <2> QED BY <1>11, <2>4, <2>5 DEF GoesWith
<1>17. f.body \in Seq(Words) /\ zero.out = <<>>
  BY <1>1, <1>11, Worded DEF FillOf, Wording
<1>18. two.out = f.body
  <2>1. <<>> \o f.body = f.body /\ f.body \o <<>> = f.body
    BY <1>17
  <2> QED BY <1>15, <1>16, <1>17, <2>1
<1>19. Walk(table, steps, text, f, from, until, len) = WalkEnded(two, until)
  BY <1>8, <1>9 DEF two
<1>20. WalkEnded(two, until).out = two.out
  <2>1. two \in PassRecords(len, FALSE)
    BY <1>11 DEF X, Passes
  <2> QED BY <2>1 DEF WalkEnded, PassRecords
<1> QED BY <1>18, <1>19, <1>20 DEF Position, from, until, len

\* The length that a pass says of its body is that of the body it writes.
LEMMA BodyLenMeant ==
  ASSUME NEW d, NEW table, NEW steps, NEW text, NEW f, Fits(table, steps, text, f, d), Described(d),
         table.body <=> d.body # "none",
         BodyMade(d, steps, StepsBefore(table.counts, BodySection))
  PROVE  BodyLen(table, steps, text, f) = Len(MeantBody(d, f))
<1> DEFINE first == StepsBefore(table.counts, BodySection)
           body == SubSeq(steps, first + 1, Len(steps))
           counted == Walk(table, steps, text, f, BodySection, Sections, 0)
           few == [n \in DOMAIN body |-> body[n].len]
           all == [n \in DOMAIN body |->
                       StepText(body[n]) + (IF body[n].hole = "Body" THEN Len(f.body) ELSE 0)]
           holed == \E n \in DOMAIN body : body[n].hole # NoHole
           stops == {n \in DOMAIN body : body[n].hole \notin {NoHole, "Body"}
                                           \/ (body[n].hole = "Body" /\ ~f.known)}
           first2 == Min(stops)
           len == BodyLen(table, steps, text, f)
<1>1. len = IF ~ table.body THEN 0
            ELSE IF ~ f.writes THEN IF holed THEN -1 ELSE Added(few)
            ELSE IF stops = {} THEN Added(all)
            ELSE IF body[first2].hole # "Body" \/ counted.failed THEN -1
            ELSE Position(counted)
  BY Zenon DEF BodyLen, SumOf
<1>2. /\ steps \in Seq(StepsKept) /\ first \in Nat /\ f.body \in Seq(Words) /\ (d.body = "each" => f.writes)
      /\ Len(f.body) \in Nat /\ BodyMade(d, steps, first)
  <2>1. FillOf(f) /\ BodyMade(d, steps, first) /\ (d.body = "each" => f.writes)
    BY DEF Fits
  <2>2. f.body \in Seq(Words)
    BY <2>1, Worded DEF FillOf, Wording
  <2> QED BY <2>1, <2>2 DEF BodyMade
<1>3. ~ counted.failed /\ (d.body = "each" => Position(counted) = Len(f.body))
  BY FitsWalks, BodyWalked
<1>4. first + 1 # first + 2 /\ NoHole # "Body" /\ Len(BodyText) = 2
  BY <1>2 DEF NoHole, BodyText
<1> HIDE DEF counted, len, first
<1>5. CASE d.body = "none"
  <2>1. len = 0
    BY <1>1, <1>5
  <2>2. MeantBody(d, f) = <<>>
    BY <1>5 DEF MeantBody
  <2> QED BY <2>1, <2>2 DEF len
<1>6. CASE d.body = "fixed"
  <2>1. Len(steps) = first + 1
        /\ steps[first + 1] = [len |-> 2, hole |-> NoHole, name |-> 0, ends |-> {5}]
    BY <1>2, <1>4, <1>6 DEF BodyMade
  <2>2. DOMAIN body = 1 .. 1 /\ body[1] = steps[first + 1]
    BY <1>2, <2>1
  <2> HIDE DEF body
  <2>3. body[1].len = 2 /\ body[1].hole = NoHole /\ StepText(body[1]) = 2
    BY <2>1, <2>2 DEF StepText
  <2>4. ~ holed /\ stops = {}
    BY <1>4, <2>2, <2>3
  <2>5. Added(few) = 2
    <3>1. few \in [1 .. 1 -> Nat] /\ few[1] = 2
      BY <2>2, <2>3
    <3> HIDE DEF few
    <3>2. few \in Seq(Nat) /\ Len(few) = 1
      BY <3>1, FunctionIsSeq
    <3> QED BY <3>1, <3>2, AddedFew
  <2>6. Added(all) = 2
    <3>1. all \in [1 .. 1 -> Nat] /\ all[1] = 2
      BY <1>4, <2>2, <2>3
    <3> HIDE DEF all
    <3>2. all \in Seq(Nat) /\ Len(all) = 1
      BY <3>1, FunctionIsSeq
    <3> QED BY <3>1, <3>2, AddedFew
  <2> HIDE DEF few, all, holed, stops, first2
  <2>7. len = 2
    BY <1>1, <1>6, <2>4, <2>5, <2>6
  <2>8. MeantBody(d, f) = BodyText
    BY <1>6 DEF MeantBody
  <2> QED BY <1>4, <2>7, <2>8 DEF len
<1>7. CASE d.body = "each"
  <2>1. /\ Len(steps) = first + 2
        /\ steps[first + 1] = [len |-> 0, hole |-> "Body", name |-> 0, ends |-> {}]
        /\ steps[first + 2] = [len |-> 0, hole |-> NoHole, name |-> 0, ends |-> {5}]
    BY <1>2, <1>7 DEF BodyMade
  <2>2. DOMAIN body = 1 .. 2 /\ body[1] = steps[first + 1] /\ body[2] = steps[first + 2]
    BY <1>2, <2>1
  <2> HIDE DEF body
  <2>3. body[1].hole = "Body" /\ StepText(body[1]) = 0 /\ body[2].hole = NoHole /\ StepText(body[2]) = 0
    BY <2>1, <2>2 DEF StepText
  <2>4. Added(all) = Len(f.body)
    <3>1. all \in [1 .. 2 -> Nat] /\ all[1] = 0 + Len(f.body) /\ all[2] = 0 + 0
      BY <1>2, <1>4, <2>2, <2>3
    <3> HIDE DEF all
    <3>2. all \in Seq(Nat) /\ Len(all) = 2
      BY <3>1, FunctionIsSeq
    <3>3. Added(all) = all[1] + all[2]
      BY <3>2, AddedFew
    <3> QED BY <1>2, <3>1, <3>3
  <2>5. stops # {} => body[first2].hole = "Body"
    <3>1. stops \subseteq Nat /\ \A n \in stops : body[n].hole = "Body"
      BY <1>4, <2>2, <2>3
    <3> HIDE DEF stops
    <3> QED BY <3>1, LeastIn
  <2> HIDE DEF few, all, holed, stops, first2
  <2>6. f.writes /\ table.body
    BY <1>2, <1>7
  <2>7. len = Len(f.body)
    BY <1>1, <1>3, <1>7, <2>4, <2>5, <2>6
  <2>8. MeantBody(d, f) = f.body
    BY <1>7 DEF MeantBody
  <2> QED BY <2>7, <2>8 DEF len
<1> QED BY <1>5, <1>6, <1>7 DEF Described

-----------------------------------------------------------------------------
(* What a pass has written, against what is meant.                          *)

\* One that has written what its layout says, and marked it so.
WritesSaid(w, m) ==
  /\ w.out = m.out /\ w.fields = m.fields
  /\ w.ends[2] = m.ends[2] /\ w.ends[3] = m.ends[3] /\ w.ends[4] = m.ends[4] /\ w.ends[5] = Len(m.out)

LEMMA SaidMeans ==
  ASSUME NEW d, NEW f, NEW layout, NEW at, NEW m, NEW len, Speaks(d, f, layout, at, m, len),
         NEW w, WritesSaid(w, m[Len(layout)]), NEW table, table.body <=> d.body # "none"
  PROVE  SaysMeant(d, Meant(d, f), w.out, Parts(w, table))
<1> DEFINE u == Len(UrlLayout(d))
           h == Len(HeadLayout(d))
           c == Len(SignedLayout(d))
           k == Len(layout)
           after == AfterUrl(d)
           meant == Meant(d, f)
<1> HIDE DEF u, h, c, k, after, meant
<1>1. /\ Places4(d, layout, at, u, h, c) /\ PartsPlaced(d, after, h, c)
      /\ Holding(layout, u, after) /\ k = u + Len(after)
  BY PlacesAre DEF u, h, c, k, after
<1>2. Saying(m, layout, at, f, len)
  BY DEF Speaks
<1>3. u \in Nat /\ k \in Nat /\ u + 1 \in 1 .. k
  BY <1>1 DEF Places4, k
<1>4. MeantTold(meant, d, f, m, u, after)
  <2>1. \E g : SaidSoFar(d, f, layout, m, u, g, len)
    BY WholeSays DEF u
  <2>2. PICK g : SaidSoFar(d, f, layout, m, u, g, len)
    BY <2>1
  <2>3. Len(AfterUrl(d)) \in Nat
    BY <1>1 DEF PartsPlaced, after
  <2> QED BY <2>2, <2>3, MeantIs DEF meant, after
<1>5. m[u].out = MeantUrl(d, f)
  <2>1. u + 1 \in u + 1 .. Len(layout)
    BY <1>3 DEF k
  <2>2. u = Len(UrlLayout(d))
    BY DEF u
  <2> QED BY <2>1, <2>2, UrlStays
<1>6. Offsets5(m, u, h, c, k, len)
  <2>1. k = Len(layout)
    BY DEF k
  <2> QED BY <1>1, <1>2, <2>1, OffsetsSaid
<1>7. Starts5(meant, d, f, m, u, h, c, k)
  <2>1. k = Len(layout)
    BY DEF k
  <2> QED BY <1>1, <1>2, <1>4, <1>5, <2>1, StartsMeant
<1>8. /\ w.out = m[k].out /\ w.fields = m[k].fields
      /\ w.ends[2] = m[k].ends[2] /\ w.ends[3] = m[k].ends[3] /\ w.ends[4] = m[k].ends[4]
      /\ w.ends[5] = Len(m[k].out)
  BY DEF WritesSaid, k
<1>9. SaysMeant(d, meant, w.out, Parts(w, table))
  BY <1>6, <1>7, <1>8, PartsSaid
<1> QED BY <1>9 DEF meant

\* Its last section ends where its text does.
LEMMA EndWritesSaid ==
  ASSUME NEW len, NEW m \in Passes(len, FALSE), m.section = 5, NEW w, AsSaid(w, SaidEnd(m)), SaidEnd(m).at = 1
  PROVE  WritesSaid(w, m)
<1> DEFINE n == SaidEnd(m)
           ends == [m.ends EXCEPT ![5] = Position(m)]
           next == Later(m.section)
<1>1. m \in PassRecords(len, FALSE)
  BY DEF Passes
<1>2. m.ends \in [0 .. 5 -> Nat]
  BY <1>1 DEF PassRecords, Sections
<1>3. n = [m EXCEPT !.ends = ends, !.section = next]
  BY Zenon DEF SaidEnd
<1>4. /\ ends[2] = m.ends[2] /\ ends[3] = m.ends[3] /\ ends[4] = m.ends[4] /\ ends[5] = Len(m.out)
  BY <1>2 DEF Position
<1> HIDE DEF ends, next
<1>5. n.ends = ends /\ n.out = m.out /\ n.fields = m.fields
  BY <1>1, <1>3 DEF PassRecords
<1> HIDE DEF n
<1>6. w.out = n.out /\ w.ends = n.ends /\ w.fields = n.fields
  BY DEF AsSaid, Same, n
<1> QED BY <1>4, <1>5, <1>6 DEF WritesSaid

\* A layout ends in the body's section.
LEMMA EndSays ==
  ASSUME NEW layout, NEW at, NEW f, NEW len, NEW m, Saying(m, layout, at, f, len)
  PROVE  m[Len(layout)] \in Passes(len, FALSE) /\ m[Len(layout)].section = 5
<1>1. Len(layout) \in Nat /\ at[0] = <<0, 0>> /\ at[Len(layout)] = <<5, 1>>
  BY SayingIs DEF Saying, Runs6
<1>2. Len(layout) \in 1 .. Len(layout) /\ Len(layout) \in 0 .. Len(layout)
  BY <1>1
<1>3. m[Len(layout)] \in Passes(len, FALSE)
  BY <1>2, SayingIs
<1>4. OpTells(m[Len(layout) - 1], m[Len(layout)], layout[Len(layout)], at[Len(layout) - 1], at[Len(layout)], f, len)
  BY <1>2, SayingIs
<1> DEFINE x == m[Len(layout)]
           q == at[Len(layout)]
<1>5. x.section = q[1]
  <2> HIDE DEF x, q
  <2> QED BY <1>4 DEF OpTells, x, q
<1>6. q[1] = 5
  BY <1>1
<1> QED BY <1>3, <1>5, <1>6

\* A request from its own template's bytes says what is meant.
LEMMA AskedAsMeant ==
  ASSUME NEW d \in Descriptions, NEW made, NEW at, NEW r, NEW e, MadeBy(d, made, at, r, e),
         NEW f, Answers(d, f), NEW w,
         AskedRun(w, d, made, f, BodyLen(made.table, made.bytes.steps, made.bytes.text, f)),
         NEW y, y = FinishPass(w[Len(Asked(d))], made.bytes.steps, made.bytes.text)
  PROVE  SaysMeant(d, Meant(d, f), y.out, Parts(y, made.table))
<1> DEFINE layout == LayoutOf(d)
           asks == Asked(d)
           table == made.table
           steps == made.bytes.steps
           text == made.bytes.text
           len == BodyLen(table, steps, text, f)
           start == NewState(table, len)
<1>1. /\ Layed(layout, at, r, e, table, steps, text) /\ IsTable(table) /\ made.bytes \in Bytes
      /\ Prepares(e, made.bytes, table, StashText(d)) /\ table.total = Len(steps)
  BY DEF MadeBy, Layed, Finished
<1>2. steps \in Seq(StepsKept) /\ text \in Wording
  BY <1>1 DEF Bytes
<1>3. Filled(layout, f) /\ FillOf(f)
  BY AnswersFilled DEF Answers
<1>4. layout \in Seq(Ops) /\ start \in Passes(len, FALSE) /\ Described(d)
  <2>1. Described(d)
    BY TemplateAssumption, DescribedIs
  <2> QED BY <1>1, <2>1, DescriptionIs, NewStateKept
<1>5. PICK from, skip : LeavesOut(asks, layout, from, skip)
  BY AskedLeavesOut
<1>6. PassRun(w, asks, start, table, f, steps, text, len)
  BY DEF AskedRun
<1>7. /\ table.body <=> d.body # "none"
      /\ len = Len(MeantBody(d, f)) 
  <2>1. Fits(table, steps, text, f, d)
    BY MadeFits
  <2>2. Tidy(e, Sections) /\ steps = e.steps /\ table.counts = e.counts /\ table.body = HasBody(e.steps, e.counts)
    BY <1>1 DEF Prepares
  <2>3. BodyMade(d, steps, StepsBefore(table.counts, BodySection))
    BY <1>1, <1>4, <2>2, LayedBodyMade
  <2>4. HasBody(steps, table.counts) <=> d.body # "none"
    BY <2>3, BodyHas
  <2>5. table.body <=> d.body # "none"
    BY <2>2, <2>4
  <2> QED BY <1>4, <2>1, <2>3, <2>5, BodyLenMeant
<1> HIDE DEF layout, asks, table, steps, text, len
<1>9. PICK v : PassRun(v, layout, start, table, f, steps, text, len)
  <2> HIDE DEF start
  <2> QED BY <1>1, <1>2, <1>3, <1>4, PassRunExists
<1>10. PICK m : SaidRun(m, layout, Silence(table, len), f, len) /\ LayoutKept(layout, r, v, m, table, text, len)
  BY <1>1, <1>3, <1>9, LayoutKeeps
<1>11. w[Len(asks)] = v[Len(layout)]
  BY <1>1, <1>3, <1>5, <1>6, <1>9, <1>10, AskedPass
<1> DEFINE k == Len(layout)
           x == v[k]
           said == m[k]
           n == SaidEnd(said)
<1>12. Paced(r[Len(layout)], x, said, table, text, len)
  <2>1. k \in 0 .. Len(layout)
    BY <1>4
  <2> QED BY <1>10, <2>1 DEF LayoutKept
<1>13. PICK z : WalkRun(z, 0, Len(steps), table, steps, text, f, start, len)
  BY <1>1, <1>2, <1>3, WholeWalk
<1>14. n.at = 1
  <2>1. SaidEnd(m[Len(layout)]).at = 1
    BY <1>1, <1>3, <1>10, <1>13, WalkSays
  <2> QED BY <2>1
<1>15. y = FinishPass(x, steps, text)
  BY <1>11 DEF asks, steps, text
<1>16. Speaks(d, f, layout, at, m, len)
  <2>1. Runs6(layout, at)
    BY <1>1 DEF Layed
  <2>2. m[0] = Silence(table, len)
    BY <1>10 DEF SaidRun
  <2>3. m[0].out = <<>> /\ m[0].params = 0 /\ m[0].section = 0
    BY <2>2 DEF Silence, NewState, OriginSection
  <2>4. SaidRun(m, layout, m[0], f, len)
    BY <1>10, <2>2
  <2>5. Saying(m, layout, at, f, len)
    BY <1>3, <2>1, <2>3, <2>4 DEF Saying
  <2>6. layout = LayoutOf(d)
    BY DEF layout
  <2> QED BY <1>4, <1>7, <2>3, <2>5, <2>6 DEF Speaks
<1>17. said \in Passes(len, FALSE) /\ said.section = 5
  <2>1. Saying(m, layout, at, f, len)
    BY <1>16 DEF Speaks
  <2>2. m[Len(layout)] \in Passes(len, FALSE) /\ m[Len(layout)].section = 5
    BY <2>1, EndSays
  <2> QED BY <2>2
<1>18. AsSaid(y, n)
  <2> HIDE DEF x, said, n, k
  <2>1. AsSaid(FinishPass(x, steps, text), SaidEnd(said))
    BY <1>1, <1>12, LastKeeps
  <2> QED BY <1>15, <2>1 DEF n
<1>19. WritesSaid(y, said)
  <2> HIDE DEF said
  <2> QED BY <1>14, <1>17, <1>18, EndWritesSaid
<1>20. SaysMeant(d, Meant(d, f), y.out, Parts(y, table))
  <2> HIDE DEF k
  <2>1. WritesSaid(y, m[Len(layout)])
    BY <1>19 DEF said, k
  <2> QED BY <1>7, <1>16, <2>1, SaidMeans
<1> QED BY <1>20 DEF table

-----------------------------------------------------------------------------
(* A request from its own template's bytes.                                 *)

\* Its pass so far, when those are the bytes that it was given.
OwnLen == BodyLen(template.table, template.bytes.steps, template.bytes.text, request.fill)
OwnPass ==
  \E len, w : \E j \in 0 .. Len(Asked(describe)) :
    /\ len = OwnLen /\ AskedRun(w, describe, template, request.fill, len)
    /\ pass = w[j] /\ todo = SubSeq(Asked(describe), j + 1, Len(Asked(describe)))

OwnKept ==
  /\ phase \in {"preparing", "prepared"} => given.bytes.steps = <<>>
  /\ phase = "encoding" => request \in Requests(describe)
  /\ phase = "encoding" /\ given.bytes = template.bytes => KeyMeant(describe, request.key) /\ OwnPass
  /\ OwnBytesAccepted /\ WalkWritesAlike /\ RequestAsMeant

LEMMA OwnKeptInit == Init => OwnKept
BY DEF Init, OwnKept, OwnBytesAccepted, WalkWritesAlike, RequestAsMeant, Written

LEMMA FinishOfLayout ==
  ASSUME History, FinishTemplate
  PROVE  OfLayout(describe, template')
<1> DEFINE layout == LayoutOf(describe)
           prepared == Finish(Stash(builder, StashText(describe)))
<1>1. phase = "preparing" /\ todo = <<>>
  BY DEF FinishTemplate
<1>2. template' = [table |-> prepared.table, bytes |-> prepared.bytes,
                   key |-> KeySpan(describe, prepared.table)]
  BY DEF FinishTemplate
<1>3. PICK n \in 0 .. Len(layout) : \E r :
        Built(r, layout, n) /\ builder = r[n] /\ todo = SubSeq(layout, n + 1, Len(layout))
  BY <1>1 DEF History, Building
<1>4. PICK r : Built(r, layout, n) /\ builder = r[n] /\ todo = SubSeq(layout, n + 1, Len(layout))
  BY <1>3
<1>5. layout \in Seq(Ops) /\ describe \in Descriptions
  BY DescriptionIs DEF History
<1> HIDE DEF layout, prepared
<1>7. n = Len(layout)
  <2>1. SubSeq(layout, n + 1, Len(layout)) = <<>>
    BY <1>1, <1>4
  <2>2. Len(SubSeq(layout, n + 1, Len(layout))) = 0
    BY <2>1
  <2> HIDE <2>1
  <2> QED BY <1>5, <2>2
<1>8. /\ template'.bytes = prepared.bytes /\ template'.table = prepared.table
      /\ template'.key = KeySpan(describe, prepared.table)
  BY <1>2
<1>9. Prepared6(describe, template', r[n])
  BY <1>4, <1>8 DEF Prepared6, prepared
<1> QED BY <1>4, <1>7, <1>9 DEF OfLayout, layout

LEMMA OwnKeptFinish ==
  ASSUME History, OwnKept, FinishTemplate
  PROVE  OwnKept'
<1>1. /\ phase = "preparing" /\ given' = given /\ describe' = describe
      /\ phase' \in {"prepared", "done"}
  BY DEF FinishTemplate, encoding
<1>2. given.bytes.steps = <<>>
  BY <1>1 DEF OwnKept
<1>3. describe \in Descriptions
  BY DEF History
<1>4. OfLayout(describe, template')
  BY FinishOfLayout
<1> DEFINE made == template'
<1>5. OfLayout(describe, made)
  BY <1>4
<1> HIDE DEF made
<1>6. PICK at, r, e : MadeBy(describe, made, at, r, e)
  BY <1>3, <1>5, OfLayoutMade
<1>7. made.bytes.steps # <<>>
  BY <1>6, MadeSteps
<1>8. given'.bytes # template'.bytes
  BY <1>1, <1>2, <1>7 DEF made
<1>9. OwnBytesAccepted' /\ WalkWritesAlike' /\ RequestAsMeant'
  BY <1>8 DEF OwnBytesAccepted, WalkWritesAlike, RequestAsMeant, Own
<1> QED BY <1>1, <1>2, <1>9 DEF OwnKept

\* A template's own bytes are read as they were prepared.
LEMMA MadeIsRead ==
  ASSUME NEW d, NEW made, NEW at, NEW r, NEW e, MadeBy(d, made, at, r, e), NEW junk
  PROVE  OwnRead(made.table, made.bytes, junk)
<1> DEFINE table == made.table
           bytes == made.bytes
<1>1. bytes \in Bytes /\ IsTable(table) /\ Prepares(e, bytes, table, StashText(d))
  BY DEF MadeBy
<1>2. table.start = Len(bytes.text) /\ table.total = Len(bytes.steps)
  BY <1>1 DEF Prepares
<1> HIDE DEF table, bytes
<1>3. OwnRead(table, bytes, junk)
  BY <1>1, <1>2, OwnIsRead
<1> QED BY <1>3 DEF table, bytes

\* How a request starts, and that no URL is refused but one that is too long.
LEMMA OwnStart ==
  ASSUME describe \in Descriptions, NEW at, NEW r, NEW e, MadeBy(describe, template, at, r, e),
         NEW junk, NEW asked \in Requests(describe)
  PROVE  /\ UrlCheck(template.bytes, junk, asked.fill) \in {"none", "url too long"}
         /\ StartPass(template.bytes, junk, asked.fill)
              = NewState(template.table,
                         BodyLen(template.table, template.bytes.steps, template.bytes.text, asked.fill))
<1> DEFINE table == template.table
           bytes == template.bytes
           steps == bytes.steps
           text == bytes.text
           fill == asked.fill
           counted == UrlWalk(table, StepsOf(table, bytes, junk), TextOf(table, bytes), fill)
           len == BodyLen(table, steps, text, fill)
<1>1. Holds(table, bytes) /\ StepsOf(table, bytes, junk) = steps /\ TextOf(table, bytes) = text
  BY MadeIsRead DEF OwnRead
<1>2. Fits(table, steps, text, fill, describe)
  <2> DEFINE f == asked.fill
  <2>1. Answers(describe, f)
    BY RequestAnswers
  <2> HIDE DEF f
  <2>2. Fits(template.table, template.bytes.steps, template.bytes.text, f, describe)
    BY <2>1, MadeFits
  <2> QED BY <2>2 DEF f
<1>3. UrlCheck(bytes, junk, fill)
        = IF describe.service = "s3" \/ SurelyShort(fill) THEN "none"
          ELSE IF ~ Holds(table, bytes) \/ counted.failed THEN "template"
          ELSE IF Position(counted) > MaxUrl THEN "url too long"
          ELSE "none"
  BY DEF UrlCheck
<1>4. StartPass(bytes, junk, fill)
        = IF Holds(table, bytes)
            THEN NewPass(table, StepsOf(table, bytes, junk), TextOf(table, bytes), fill)
            ELSE UnreadPass(table)
  BY DEF StartPass
<1>5. counted = UrlWalk(table, steps, text, fill)
  BY <1>1
<1>6. StartPass(bytes, junk, fill) = NewPass(table, steps, text, fill)
  BY <1>1, <1>4
<1> HIDE DEF counted, steps, text, table, bytes, fill
<1>7. ~ counted.failed
  BY <1>2, <1>5, FitsWalks
<1>8. len \in Nat
  BY <1>2, FitsBody
<1>9. NewPass(table, steps, text, fill) = NewState(table, len)
  <2>1. ~ (len < 0)
    BY <1>8
  <2> QED BY <2>1 DEF NewPass
<1>10. UrlCheck(bytes, junk, fill) \in {"none", "url too long"}
  BY <1>1, <1>3, <1>7
<1> HIDE DEF len
<1>11. StartPass(bytes, junk, fill) = NewState(table, len)
  BY <1>6, <1>9
<1> QED BY <1>10, <1>11 DEF len, table, bytes, steps, text, fill

LEMMA OwnKeptEncode ==
  ASSUME History, OwnKept, NEW bytes, NEW junk, NEW asked \in Requests(describe),
         Encode(bytes, junk, asked)
  PROVE  OwnKept'
<1>1. /\ phase = "prepared" /\ given' = [bytes |-> bytes, junk |-> junk] /\ request' = asked
      /\ pass' = StartPass(bytes, junk, asked.fill)
      /\ outcome' = IF ~ KeyTaken(bytes, asked.key) THEN "template"
                    ELSE UrlCheck(bytes, junk, asked.fill)
      /\ phase' = IF outcome' = "none" THEN "encoding" ELSE "done"
      /\ todo' = Asked(describe) /\ describe' = describe /\ template' = template
  BY DEF Encode, preparing
<1>2. given'.bytes = bytes
  BY <1>1
<1>3. phase' \notin {"preparing", "prepared"} /\ (phase' = "encoding" <=> outcome' = "none")
  BY <1>1
<1>4. describe \in Descriptions /\ OfLayout(describe, template)
  BY <1>1 DEF History
<1>0. WalkWritesAlike' /\ RequestAsMeant'
  <2>1. outcome' # "written"
    BY <1>1 DEF UrlCheck
  <2> QED BY <2>1 DEF WalkWritesAlike, RequestAsMeant, Written
<1>5. CASE bytes # template.bytes
  <2>1. given'.bytes # template'.bytes
    BY <1>1, <1>2, <1>5
  <2>2. OwnBytesAccepted'
    BY <2>1 DEF OwnBytesAccepted, Own
  <2> QED BY <1>0, <1>1, <1>3, <2>1, <2>2 DEF OwnKept
<1>6. CASE bytes = template.bytes
  <2> DEFINE made == template
             key == asked.key
             fill == asked.fill
             long == BodyLen(template.table, template.bytes.steps, template.bytes.text, fill)
  <2>1. PICK at, r, e : MadeBy(describe, made, at, r, e)
    BY <1>4, OfLayoutMade
  <2>2. UrlCheck(bytes, junk, fill) \in {"none", "url too long"}
        /\ pass' = NewState(template.table, long)
    BY <1>1, <1>4, <1>6, <2>1, OwnStart
  <2>3. KeyTaken(bytes, key) <=> KeyMeant(describe, key)
    <3>1. describe.object \in BOOLEAN
      BY <1>4, TemplateAssumption DEF Describing
    <3>2. Made(describe, template, e)
      BY <2>1 DEF MadeBy
    <3> HIDE DEF key
    <3> QED BY <1>6, <3>1, <3>2, OwnKeyTaken
  <2>4. outcome' \in {"none", "template", "url too long"} /\ (outcome' = "template" <=> ~ KeyMeant(describe, key))
    BY <1>1, <2>2, <2>3
  <2>5. OwnBytesAccepted'
    <3>1. request'.key = key
      BY <1>1
    <3>2. outcome' = "template" <=> describe'.object /\ request'.key \notin {<<>>, ObjectKey}
      BY <1>1, <2>4, <3>1 DEF KeyMeant
    <3> QED BY <2>4, <3>2 DEF OwnBytesAccepted
  <2>6. ASSUME phase' = "encoding"
        PROVE  KeyMeant(describe', request'.key) /\ OwnPass'
    <3>1. KeyMeant(describe', request'.key)
      BY <1>1, <1>3, <2>4, <2>6
    <3>2. PICK len : len = long /\ pass' = NewState(template.table, len)
      BY <2>2
    <3> DEFINE asks == Asked(describe)
               table == template.table
               steps == template.bytes.steps
               text == template.bytes.text
               start == NewState(table, len)
    <3>3. asks \in Seq(Ops) /\ FillOf(fill)
      BY <1>4, DescriptionIs
    <3>4. IsTable(table) /\ steps \in Seq(StepsKept) /\ text \in Wording
      BY <2>1 DEF MadeBy, Bytes
    <3>5. start \in Passes(len, FALSE)
      BY <3>4, NewStateKept
    <3>6. PICK w : PassRun(w, asks, start, table, fill, steps, text, len)
      <4> HIDE DEF asks, table, steps, text, start, fill
      <4> QED BY <3>3, <3>4, <3>5, PassRunExists
    <3>7. AskedRun(w, describe, template, fill, len) /\ w[0] = start
      BY <3>6 DEF AskedRun, PassRun
    <3>8. asks = SubSeq(asks, 0 + 1, Len(asks)) /\ 0 \in 0 .. Len(asks)
      <4> HIDE DEF asks
      <4> QED BY <3>3
    <3>9. AskedRun(w, describe', template', request'.fill, len)
      BY <1>1, <3>7
    <3>10. pass' = w[0] /\ todo' = SubSeq(Asked(describe'), 0 + 1, Len(Asked(describe')))
           /\ 0 \in 0 .. Len(Asked(describe'))
      BY <1>1, <3>2, <3>7, <3>8
    <3>12. len = OwnLen'
      BY <1>1, <3>2 DEF OwnLen
    <3>11. OwnPass'
      BY <3>9, <3>10, <3>12 DEF OwnPass
    <3> QED BY <3>1, <3>11
  <2> QED BY <1>0, <1>1, <1>3, <2>5, <2>6 DEF OwnKept
<1> QED BY <1>5, <1>6

\* What the pass over a template's own bytes reads.
LEMMA OwnGiven ==
  ASSUME NEW d, NEW at, NEW r, NEW e, MadeBy(d, template, at, r, e), given.bytes = template.bytes,
         ~ pass.unread
  PROVE  GivenSteps = template.bytes.steps /\ GivenText = template.bytes.text
<1> DEFINE made == template
           junk == given.junk
<1>1. MadeBy(d, made, at, r, e)
  OBVIOUS
<1> HIDE DEF junk
<1>2. OwnRead(made.table, made.bytes, junk)
  BY <1>1, MadeIsRead
<1> QED BY <1>2 DEF OwnRead, GivenSteps, GivenText, junk

LEMMA OwnKeptOp ==
  ASSUME History, OwnKept, NEW op, EncodeOp(op)
  PROVE  OwnKept'
<1>1. /\ phase = "encoding" /\ todo # <<>>
      /\ pass' = Pass(pass, Head(todo), template.table, request.fill, GivenSteps, GivenText)
      /\ todo' = Tail(todo) /\ describe' = describe /\ phase' = phase /\ template' = template
      /\ given' = given /\ request' = request /\ outcome' = outcome
  BY DEF EncodeOp, preparing
<1>2. describe \in Descriptions /\ OfLayout(describe, template)
  BY <1>1 DEF History
<1>3. ASSUME given.bytes = template.bytes
      PROVE  OwnPass'
  <2> DEFINE asks == Asked(describe)
             fill == request.fill
             table == template.table
             steps == template.bytes.steps
             text == template.bytes.text
  <2>1. PICK len, w : \E j \in 0 .. Len(asks) :
          len = OwnLen /\ AskedRun(w, describe, template, fill, len) /\ pass = w[j] /\ todo = SubSeq(asks, j + 1, Len(asks))
    BY <1>1, <1>3 DEF OwnKept, OwnPass
  <2>2. PICK j \in 0 .. Len(asks) :
          len = OwnLen /\ AskedRun(w, describe, template, fill, len) /\ pass = w[j] /\ todo = SubSeq(asks, j + 1, Len(asks))
    BY <2>1
  <2>3. PassRun(w, asks, NewState(table, len), table, fill, steps, text, len)
    BY <2>2 DEF AskedRun
  <2>4. asks \in Seq(Ops)
    BY <1>2, DescriptionIs
  <2>5. GivenSteps = steps /\ GivenText = text
    <3>1. PICK at, r, e : MadeBy(describe, template, at, r, e)
      BY <1>2, OfLayoutMade
    <3>2. pass \in Passes(len, FALSE)
      <4> HIDE DEF asks, table, steps, text, fill
      <4> QED BY <2>2, <2>3 DEF PassRun
    <3>3. ~ pass.unread
      BY <3>2, PassIs
    <3> QED BY <1>3, <3>1, <3>3, OwnGiven
  <2> HIDE DEF asks, fill, table, steps, text
  <2>6. j < Len(asks) /\ Head(todo) = asks[j + 1] /\ Tail(todo) = SubSeq(asks, j + 1 + 1, Len(asks))
    BY <1>1, <2>2, <2>4, RestIs
  <2> DEFINE i == j + 1
  <2>7. i \in 1 .. Len(asks) /\ i \in 0 .. Len(asks) /\ i - 1 = j
    BY <2>4, <2>6
  <2> HIDE DEF i
  <2>8. w[i] = Pass(w[i - 1], asks[i], table, fill, steps, text)
    BY <2>3, <2>7 DEF PassRun
  <2>9. pass' = w[i] /\ todo' = SubSeq(asks, i + 1, Len(asks))
    <3>1. pass' = Pass(pass, Head(todo), table, fill, GivenSteps, GivenText)
      BY <1>1 DEF table, fill
    <3> QED BY <1>1, <2>2, <2>5, <2>6, <2>7, <2>8, <3>1 DEF i
  <2>10. AskedRun(w, describe', template', request'.fill, len) /\ asks' = asks
    BY <1>1, <2>2 DEF fill, asks
  <2>11. len = OwnLen'
    BY <1>1, <2>2 DEF OwnLen
  <2> QED BY <2>7, <2>9, <2>10, <2>11 DEF OwnPass, asks
<1>4. OwnBytesAccepted' /\ WalkWritesAlike' /\ RequestAsMeant'
  BY <1>1 DEF OwnBytesAccepted, WalkWritesAlike, RequestAsMeant, Written
<1> QED BY <1>1, <1>3, <1>4 DEF OwnKept

LEMMA OwnKeptRequest ==
  ASSUME History, OwnKept, FinishRequest
  PROVE  OwnKept'
<1>1. /\ phase = "encoding" /\ todo = <<>> /\ pass' = FinishPass(pass, GivenSteps, GivenText)
      /\ outcome' = IF pass'.failed THEN "template" ELSE "written"
      /\ phase' = "done" /\ describe' = describe /\ template' = template
      /\ given' = given /\ request' = request
  BY DEF FinishRequest, preparing
<1>2. describe \in Descriptions /\ OfLayout(describe, template)
  BY <1>1 DEF History
<1>3. ASSUME given.bytes = template.bytes
      PROVE  /\ outcome' = "written" /\ KeyMeant(describe, request.key)
             /\ WritesAlike(WalkRequest(template'.table, GivenSteps', GivenText', request'.fill),
                            pass', template'.table)
             /\ SaysMeant(describe, Meant(describe, request.fill), pass'.out, Parts(pass', template.table))
  <2> DEFINE asks == Asked(describe)
             fill == request.fill
             steps == template.bytes.steps
             text == template.bytes.text
  <2>1. PICK len, w : \E j \in 0 .. Len(asks) :
          len = OwnLen /\ AskedRun(w, describe, template, fill, len) /\ pass = w[j] /\ todo = SubSeq(asks, j + 1, Len(asks))
    BY <1>1, <1>3 DEF OwnKept, OwnPass
  <2>2. PICK j \in 0 .. Len(asks) :
          len = OwnLen /\ AskedRun(w, describe, template, fill, len) /\ pass = w[j] /\ todo = SubSeq(asks, j + 1, Len(asks))
    BY <2>1
  <2>3. PICK at, r, e : MadeBy(describe, template, at, r, e)
    BY <1>2, OfLayoutMade
  <2>4. asks \in Seq(Ops)
    BY <1>2, DescriptionIs
  <2>5. GivenSteps = steps /\ GivenText = text
    <3> DEFINE table == template.table
    <3>1. PassRun(w, asks, NewState(table, len), table, fill, steps, text, len)
      BY <2>2 DEF AskedRun
    <3>2. pass \in Passes(len, FALSE)
      <4> HIDE DEF asks, table, steps, text, fill
      <4> QED BY <2>2, <3>1 DEF PassRun
    <3>3. ~ pass.unread
      BY <3>2, PassIs
    <3> QED BY <1>3, <2>3, <3>3, OwnGiven
  <2>6. j = Len(asks)
    <3> DEFINE rest == SubSeq(asks, j + 1, Len(asks))
    <3>1. rest = <<>>
      BY <1>1, <2>2
    <3> HIDE DEF rest
    <3>2. Len(rest) = 0
      BY <3>1
    <3> HIDE <3>1
    <3> HIDE DEF asks
    <3>3. Len(SubSeq(asks, j + 1, Len(asks))) = 0
      BY <3>2 DEF rest
    <3> QED BY <2>4, <3>3
  <2>7. Answers(describe, fill)
    <3>1. request \in Requests(describe)
      BY <1>1 DEF OwnKept
    <3> QED BY <1>2, <3>1, RequestAnswers
  <2>8. ~ FinishPass(w[Len(asks)], steps, text).failed
    <3> DEFINE made == template
    <3>1. MadeBy(describe, made, at, r, e) /\ AskedRun(w, describe, made, fill, len)
      BY <2>2, <2>3
    <3> HIDE DEF fill
    <3> QED BY <1>2, <2>7, <3>1, AskedEnds
  <2>9. ~ pass'.failed
    <3>1. pass' = FinishPass(w[Len(asks)], steps, text)
      BY <1>1, <2>2, <2>5, <2>6
    <3> QED BY <2>8, <3>1
  <2>10. WritesAlike(WalkRequest(template.table, steps, text, fill), FinishPass(w[Len(asks)], steps, text),
                    template.table)
    <3> DEFINE made == template
    <3>1. MadeBy(describe, made, at, r, e)
      BY <2>3
    <3>2. AskedRun(w, describe, made, fill, BodyLen(made.table, made.bytes.steps, made.bytes.text, fill))
      BY <2>2 DEF OwnLen
    <3> HIDE DEF fill, made
    <3>3. WritesAlike(WalkRequest(made.table, made.bytes.steps, made.bytes.text, fill),
                      FinishPass(w[Len(Asked(describe))], made.bytes.steps, made.bytes.text), made.table)
      BY <1>2, <2>7, <3>1, <3>2, AskedWalksAlike
    <3> QED BY <3>3 DEF made
  <2>11. pass' = FinishPass(w[Len(asks)], steps, text) /\ ~ pass'.unread
    <3>1. pass' = FinishPass(w[Len(asks)], steps, text)
      BY <1>1, <2>2, <2>5, <2>6
    <3>2. PassRun(w, asks, NewState(template.table, len), template.table, fill, steps, text, len)
      BY <2>2 DEF AskedRun
    <3> DEFINE x == w[Len(asks)]
    <3>3. Len(asks) \in 0 .. Len(asks)
      BY <2>4
    <3>4. x \in Passes(len, FALSE)
      <4> HIDE DEF asks, steps, text, fill
      <4> QED BY <3>2, <3>3 DEF PassRun
    <3>5. steps \in Seq(StepsKept) /\ text \in Wording
      BY <2>3 DEF MadeBy, Bytes
    <3> HIDE DEF x, steps, text
    <3>6. FinishPass(x, steps, text) \in Passes(len, FALSE)
      BY <3>4, <3>5, FinishPassKept
    <3>7. ~ FinishPass(x, steps, text).unread
      BY <3>6, PassIs
    <3> QED BY <3>1, <3>7 DEF x
  <2>12. GivenSteps' = steps /\ GivenText' = text
    <3>1. ~ pass.unread
      <4>1. PassRun(w, asks, NewState(template.table, len), template.table, fill, steps, text, len)
        BY <2>2 DEF AskedRun
      <4>2. pass \in Passes(len, FALSE)
        <5> HIDE DEF asks, steps, text, fill
        <5> QED BY <2>2, <4>1 DEF PassRun
      <4> QED BY <4>2, PassIs
    <3>2. GivenSteps' = GivenSteps /\ GivenText' = GivenText
      BY <1>1, <2>11, <3>1 DEF GivenSteps, GivenText
    <3> QED BY <2>5, <3>2
  <2>13. WritesAlike(WalkRequest(template'.table, GivenSteps', GivenText', request'.fill),
                     pass', template'.table)
    <3> HIDE DEF steps, text, asks
    <3> QED BY <1>1, <2>10, <2>11, <2>12
  <2>14. SaysMeant(describe, Meant(describe, fill), pass'.out, Parts(pass', template.table))
    <3> DEFINE made == template
               y == pass'
    <3>1. MadeBy(describe, made, at, r, e)
      BY <2>3
    <3>2. AskedRun(w, describe, made, fill, BodyLen(made.table, made.bytes.steps, made.bytes.text, fill))
      BY <2>2 DEF OwnLen
    <3>3. y = FinishPass(w[Len(Asked(describe))], made.bytes.steps, made.bytes.text)
      BY <2>11
    <3> HIDE DEF fill, made, y
    <3>4. SaysMeant(describe, Meant(describe, fill), y.out, Parts(y, made.table))
      BY <1>2, <2>7, <3>1, <3>2, <3>3, AskedAsMeant
    <3> QED BY <3>4 DEF made, y
  <2>15. outcome' = "written" /\ KeyMeant(describe, request.key)
    BY <1>1, <1>3, <2>9 DEF OwnKept
  <2> QED BY <2>13, <2>14, <2>15
<1>5. WalkWritesAlike'
  <2> SUFFICES ASSUME Own', Written'
               PROVE  /\ ~ WalkRequest(template'.table, GivenSteps', GivenText', request'.fill).failed
                      /\ WalkRequest(template'.table, GivenSteps', GivenText', request'.fill).out = pass'.out
                      /\ Parts(WalkRequest(template'.table, GivenSteps', GivenText', request'.fill), template'.table)
                           = Parts(pass', template'.table)
    BY DEF WalkWritesAlike, WrittenParts
  <2>1. given.bytes = template.bytes
    BY <1>1 DEF Own
  <2> QED BY <1>3, <2>1 DEF WritesAlike
<1>4. OwnBytesAccepted'
  <2> SUFFICES ASSUME Own'
               PROVE  /\ outcome' \notin {"too large", "panic"}
                      /\ outcome' = "template"
                           <=> describe'.object /\ request'.key \notin {<<>>, ObjectKey}
    BY DEF OwnBytesAccepted
  <2>1. given.bytes = template.bytes
    BY <1>1 DEF Own
  <2> QED BY <1>1, <1>3, <2>1 DEF KeyMeant
<1>6. RequestAsMeant'
  <2> SUFFICES ASSUME Own', Written'
               PROVE  SaysMeant(describe', Meant(describe', request'.fill), pass'.out,
                                Parts(pass', template'.table))
    BY Zenon DEF RequestAsMeant, SaysMeant, WrittenParts
  <2>1. given.bytes = template.bytes
    BY <1>1 DEF Own
  <2>2. SaysMeant(describe, Meant(describe, request.fill), pass'.out, Parts(pass', template.table))
    BY <1>3, <2>1
  <2>3. describe' = describe /\ request' = request /\ template' = template
    BY <1>1
  <2> QED BY <2>2, <2>3
<1> QED BY <1>1, <1>4, <1>5, <1>6 DEF OwnKept

LEMMA OwnKeptNext == History /\ OwnKept /\ [Next]_vars => OwnKept'
<1> SUFFICES ASSUME History, OwnKept, [Next]_vars PROVE OwnKept'
  OBVIOUS
<1>1. CASE PrepareSection \/ PrepareText \/ PrepareHole \/ PrepareFields \/ PrepareParam
  BY <1>1 DEF PrepareSection, PrepareText, PrepareHole, PrepareFields, PrepareParam, Prepare,
              encoding, OwnKept, OwnBytesAccepted, WalkWritesAlike, RequestAsMeant, Written
<1>2. CASE FinishTemplate
  BY <1>2, OwnKeptFinish
<1>3. CASE EncodeOwn \/ EncodeOther
  BY <1>3, OwnKeptEncode DEF EncodeOwn, EncodeOther
<1>4. CASE EncodeSection \/ EncodeText \/ EncodeHole \/ EncodeFields \/ EncodeParam
  BY <1>4, OwnKeptOp DEF EncodeSection, EncodeText, EncodeHole, EncodeFields, EncodeParam
<1>5. CASE FinishRequest
  BY <1>5, OwnKeptRequest
<1>6. CASE UNCHANGED vars
  BY <1>6 DEF vars, OwnKept, OwnPass, OwnLen, OwnBytesAccepted, Own, WalkWritesAlike, RequestAsMeant,
              Written, WrittenParts, GivenSteps, GivenText
<1> QED BY <1>1, <1>2, <1>3, <1>4, <1>5, <1>6 DEF Next

\* A request from its own template's bytes is refused for them only if it names
\* another key than the template's object, and it never runs past its table:
\* the layout that prepared a template and the one that reads it take the same
\* steps (encode_template over finish, request_key).
THEOREM TemplateOwnBytesAccepted == Spec => []OwnBytesAccepted
<1>1. Spec => []History
  BY HistoryInit, HistoryNext, PTL DEF Spec
<1>2. OwnKept => OwnBytesAccepted
  BY DEF OwnKept
<1> QED BY <1>1, <1>2, OwnKeptInit, OwnKeptNext, PTL DEF Spec

\* Walking the table writes what the layout writes, and places the parts alike:
\* the walk that the feature `compact` takes of a template sends the request
\* that its operation's own pass sends (template.rs, walk_request).
THEOREM TemplateWalkWritesAlike == Spec => []WalkWritesAlike
<1>1. Spec => []History
  BY HistoryInit, HistoryNext, PTL DEF Spec
<1>2. OwnKept => WalkWritesAlike
  BY DEF OwnKept
<1> QED BY <1>1, <1>2, OwnKeptInit, OwnKeptNext, PTL DEF Spec

\* A request from its own template's bytes says what its description and its
\* values mean: the bytes of an encoder that writes a layout in one pass, into
\* runs of fixed text and holes, are the text of the layout with every hole
\* replaced, and its head, its canonical request, its fields and its body are
\* where the spans say (encode_template, WriteState::written).
THEOREM TemplateRequestAsMeant == Spec => []RequestAsMeant
<1>1. Spec => []History
  BY HistoryInit, HistoryNext, PTL DEF Spec
<1>2. OwnKept => RequestAsMeant
  BY DEF OwnKept
<1> QED BY <1>1, <1>2, OwnKeptInit, OwnKeptNext, PTL DEF Spec
=============================================================================
